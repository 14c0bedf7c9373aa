------------------------------- MODULE Intake -------------------------------
(***************************************************************************)
(* What the agent runtime promises about taking messages in, without the   *)
(* way it does it: messages enter the log, each is handed to the agents at *)
(* most once in the life of the process, and only after it was stored.     *)
(* Delivery implements this specification.                                 *)
(***************************************************************************)
EXTENDS Naturals

CONSTANT MaxMessages          \* bound on the length of the message log

VARIABLES stored,             \* newest message id in the log
          runs                \* runs[id]: dispatches of id by this process

intakeVars == <<stored, runs>>

MessageIds == 1..MaxMessages

Init == /\ stored = 0
        /\ runs = [id \in MessageIds |-> 0]

StoreNext == /\ stored < MaxMessages
             /\ stored' = stored + 1
             /\ UNCHANGED runs

\* A set of stored messages, none taken before, is handed over.
Hand(S) == /\ \A id \in S : id <= stored /\ runs[id] = 0
           /\ runs' = [id \in MessageIds |->
                         IF id \in S THEN runs[id] + 1 ELSE runs[id]]
           /\ UNCHANGED stored

\* A new process remembers nothing of the previous one.
Forget == /\ runs' = [id \in MessageIds |-> 0]
          /\ UNCHANGED stored

Next == \/ StoreNext
        \/ \E S \in SUBSET MessageIds : Hand(S)
        \/ Forget

Spec == Init /\ [][Next]_intakeVars
=============================================================================
