---------------------------- MODULE MCAlgorithms ----------------------------
(* Three algorithms over bounded inputs, each in behaviours of its own.       *)
EXTENDS Territory, Context, Commands

VARIABLE subject

MCNames == {<<"a">>, <<"ab">>, <<"a", "a">>, <<"ab", "a">>, <<"a", "a", "b">>, <<"a", "ab">>}
MCComponents == {"a", "ab", "b"}
MCPaths == UNION {[1..n -> MCComponents] : n \in 0..3}
MCStarts == {<<"a", "ab">>}

Message(own, call, body, hidden) ==
  [own |-> own, call |-> call, body |-> body, hidden |-> hidden]
MCKinds == {Message(FALSE, FALSE, 1, 0), Message(FALSE, FALSE, 6, 0), Message(FALSE, TRUE, 2, 3),
            Message(TRUE, FALSE, 2, 0), Message(TRUE, TRUE, 1, 0), Message(TRUE, TRUE, 1, 2)}

vars == <<subject, agents, contextVars, script>>

Init ==
  /\ subject \in {"territory", "context", "commands"}
  /\ InitTerritory
  /\ InitContext
  /\ InitCommands
  /\ subject # "context" => source = 0

Next ==
  \/ subject = "territory" /\ NextTerritory /\ UNCHANGED <<subject, contextVars, script>>
  \/ subject = "context" /\ NextContext /\ UNCHANGED <<subject, agents, script>>
  \/ subject = "commands" /\ NextCommands /\ UNCHANGED <<subject, agents, contextVars>>

Spec == Init /\ [][Next]_vars
=============================================================================
