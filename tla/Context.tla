------------------------------- MODULE Context -------------------------------
(***************************************************************************)
(* The context of a run: the messages of its chat as a dialogue for the    *)
(* LLM, from the newest to the oldest while they fit into the budget       *)
(* (context.rs).  The chat grows between the message that calls the agent, *)
(* the trigger, and the moment the run reads it.  The agent's own messages *)
(* are those of the user it speaks as, whoever that is: the user it        *)
(* listens for, or, when the answer to its question goes on with an agent  *)
(* that listens for nobody, the author of that answer (runtime.rs:412).    *)
(***************************************************************************)
EXTENDS Integers, SequencesExt, FiniteSetsExt

CONSTANTS
  BudgetChars,      \* BUDGET_CHARS, in units of length
  StepsWithOutput,  \* STEPS_WITH_OUTPUT
  SourceChars,      \* SOURCE_CHARS
  Omitted,          \* length of what stands for an output that is left out
  Kinds,            \* messages: of the agent itself or not, of a call of a tool or
                    \* not, the length of the text and of the hidden output
  Sources,          \* lengths of source messages, 0: the chat is no thread
  MaxChat           \* bound on the messages of the chat

ASSUME ContextAssumption ==
  /\ BudgetChars \in Nat /\ StepsWithOutput \in Nat /\ SourceChars \in Nat
  /\ Omitted \in Nat /\ MaxChat \in Nat /\ Sources \subseteq Nat
  /\ Kinds \subseteq [own : BOOLEAN, call : BOOLEAN, body : Nat, hidden : Nat]

VARIABLES
  chat,     \* messages of the chat, by id
  source,   \* length of the message the thread starts from
  trigger,  \* the message the run answers, 0 before
  context   \* what the run is given

contextVars == <<chat, source, trigger, context>>

NoContext == [header |-> 0, cut |-> FALSE, units |-> <<>>]

-----------------------------------------------------------------------------
(* One message.                                                            *)

\* A step of the agent itself; a step of another agent is its text only.
IsCall(m) == m.own /\ m.call

\* own_unit and message_size: the call and its output, or the text; the message
\* to answer is marked.
Unit(i, id, output) ==
  LET m == chat[i] IN
  [message |-> i,
   marked  |-> ~m.own /\ i = id,
   output  |-> IsCall(m) /\ output,
   size    |-> m.body + (IF ~IsCall(m) THEN 0 ELSE IF output THEN m.hidden ELSE Omitted)]

\* Outputs go with the newest calls only; ownSteps counts them from the newest.
KeepsOutput(ownSteps) == ownSteps <= StepsWithOutput

-----------------------------------------------------------------------------
(* The whole context.                                                      *)

SeenNow(id) == DOMAIN chat              \* faulty variant: all there is by now

\* The messages up to the trigger.
Seen(id) == {i \in DOMAIN chat : i <= id}

\* The newest message is taken whatever its length.
Takes(acc, unit) == acc.used + unit.size <= BudgetChars \/ acc.units = <<>>

\* One turn of the loop; the first message that does not fit ends it.
Turn(acc, i, id) ==
  LET ownSteps == acc.ownSteps + (IF IsCall(chat[i]) THEN 1 ELSE 0)
      unit == Unit(i, id, KeepsOutput(ownSteps))
  IN IF acc.cut \/ ~Takes(acc, unit)
       THEN [acc EXCEPT !.cut = TRUE]
       ELSE [acc EXCEPT !.used = @ + unit.size, !.ownSteps = ownSteps,
                        !.units = <<unit>> \o @]

\* The source message of a thread comes first, shortened, whatever the budget.
Header == IF source <= SourceChars THEN source ELSE SourceChars

NoTurns == [units |-> <<>>, used |-> 0, ownSteps |-> 0, cut |-> FALSE]

\* build_context: turn n is about the n-th newest message.
BuildContext(id) ==
  LET newest == Max(Seen(id))
      turns[n \in 0..newest] ==
        IF n = 0 THEN NoTurns ELSE Turn(turns[n - 1], newest - n + 1, id)
      result == turns[newest]
  IN [header |-> Header, cut |-> result.cut, units |-> result.units]

-----------------------------------------------------------------------------

InitContext ==
  /\ chat = <<>>
  /\ source \in Sources
  /\ trigger = 0
  /\ context = NoContext

\* Anyone posts, also after the message that called the agent.
Post(m) ==
  /\ Len(chat) < MaxChat
  /\ chat' = Append(chat, m)
  /\ UNCHANGED <<source, trigger, context>>

\* A message calls the agents of those it mentions, or of the one who began the
\* thread, never that of its author.
CallsAgent(id) == ~chat[id].own

\* An answer to a question goes on with the agent that asked, whoever wrote it, the
\* agent's own user as well (route_answer).
AnswersAgent(id) == \E question \in 1..(id - 1) : ~chat[question].call

\* The run for message id starts, maybe long after it; steps call nobody.
Build(id) ==
  /\ trigger = 0
  /\ ~chat[id].call
  /\ CallsAgent(id) \/ AnswersAgent(id)
  /\ trigger' = id
  /\ context' = BuildContext(id)
  /\ UNCHANGED <<chat, source>>

NextContext ==
  \/ \E m \in Kinds : Post(m)
  \/ \E id \in DOMAIN chat : Build(id)

SpecContext == InitContext /\ [][NextContext]_contextVars

-----------------------------------------------------------------------------
(* Properties of a context that was built.                                 *)

Built == trigger # 0
TotalSize(units) ==
  LET sum[n \in 0..Len(units)] ==
        IF n = 0 THEN 0 ELSE sum[n - 1] + units[Len(units) - n + 1].size
  IN sum[Len(units)]
OwnCallsFrom(i) == Cardinality({j \in i..trigger : IsCall(chat[j])})

\* The messages stay within the budget, but for one that is too long by itself,
\* and no message is left out that would have fitted; the header adds a bounded
\* length.  A cut is told exactly when something is left out.
BudgetUsed ==
  Built =>
    LET units == context.units
        next  == trigger - Len(units)
    IN /\ TotalSize(units) <= BudgetChars \/ Len(units) = 1
       /\ context.header <= SourceChars
       /\ context.cut <=> next > 0
       /\ context.cut =>
            TotalSize(units)
              + Unit(next, trigger, OwnCallsFrom(next) <= StepsWithOutput).size > BudgetChars

\* What the run is given ends with the message it answers, and no other is marked;
\* before it come the messages of the chat without a gap, in their order.  It is
\* marked when another wrote it.  An answer of the agent's own user is not: it stands
\* there as a reply the agent gave, although context.rs:10-11 says that the message
\* to answer is marked.
TriggerLast ==
  Built =>
    LET units == context.units IN
    /\ units # <<>>
    /\ Last(units).message = trigger
    /\ \A k \in DOMAIN units :
         /\ units[k].message = trigger - Len(units) + k
         /\ units[k].marked <=> k = Len(units) /\ ~chat[trigger].own

\* Exactly the newest StepsWithOutput calls of the agent among the messages up to
\* the trigger come with what they returned.
OutputsOfNewest ==
  Built =>
    \A k \in DOMAIN context.units :
      LET u == context.units[k] IN
      u.output <=> IsCall(chat[u.message]) /\ OwnCallsFrom(u.message) <= StepsWithOutput

\* The context does not depend on when the run starts: messages that come after
\* the trigger change nothing in it.
SameWhenever == Built => context = BuildContext(trigger)

\* What the LLM is shown of a chat.
ContextOK == BudgetUsed /\ TriggerLast /\ OutputsOfNewest /\ SameWhenever
=============================================================================
