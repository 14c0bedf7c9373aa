-------------------------- MODULE AgentLoopProofs --------------------------
(***************************************************************************)
(* Proofs about AgentLoop and the MCP client it composes with, about       *)
(* Territory and Commands, which bound the commands that the loop runs,    *)
(* and about Context, which it starts from.                                *)
(***************************************************************************)
EXTENDS AgentLoop, Territory, Context, Commands, FiniteSetTheorems, WellFoundedInduction,
        SequenceTheorems, TLAPS

-----------------------------------------------------------------------------
(* What the client and the server do leaves the run alone, and a request   *)
(* gets its own answer.                                                    *)

LEMMA RequestOwn == ASSUME AnswersOwnRequest, Request PROVE AnswersOwnRequest'
BY DEF AnswersOwnRequest, Request

LEMMA McpStepOwn ==
  ASSUME AnswersOwnRequest, Exchange \/ Server PROVE AnswersOwnRequest'
<1>1. CASE WriteLine BY <1>1 DEF WriteLine, AnswersOwnRequest
<1>2. CASE TimeOut BY <1>2 DEF TimeOut, AnswersOwnRequest
<1>3. CASE FindClosed BY <1>3 DEF FindClosed, AnswersOwnRequest
<1>4. CASE ReadLine
  <2>1. taken' = taken \/ taken'.request = taken'.answer
    BY <1>4 DEF ReadLine, IsResponse
  <2> QED BY <2>1 DEF AnswersOwnRequest
<1>5. CASE Server
  BY <1>5 DEF Server, ServerPrints, ServerDies, ServerAnswers, AnswersOwnRequest
<1> QED BY <1>1, <1>2, <1>3, <1>4, <1>5 DEF Exchange

\* AnswersOwnRequest is an invariant of the client on its own.
THEOREM McpAnswersOwnRequest == McpSpec => []AnswersOwnRequest
<1>1. McpInit => AnswersOwnRequest BY DEF McpInit, AnswersOwnRequest
<1>2. AnswersOwnRequest /\ [McpNext]_mcpVars => AnswersOwnRequest'
  <2> SUFFICES ASSUME AnswersOwnRequest, [McpNext]_mcpVars PROVE AnswersOwnRequest' OBVIOUS
  <2>1. CASE Connect BY <2>1, RequestOwn DEF Connect
  <2>2. CASE CallTool BY <2>2, RequestOwn DEF CallTool
  <2>3. CASE Exchange \/ Server BY <2>3, McpStepOwn
  <2>4. CASE UNCHANGED mcpVars BY <2>4 DEF mcpVars, AnswersOwnRequest
  <2> QED BY <2>1, <2>2, <2>3, <2>4 DEF McpNext
<1> QED BY <1>1, <1>2, PTL DEF McpSpec

\* AnswersOwnRequest, whatever the run does with the client: a call that timed
\* out never hands its late answer to the next one.
THEOREM AnswersOwnRequestCorrect == Spec => []AnswersOwnRequest
<1>1. Init => AnswersOwnRequest BY DEF Init, McpInit, AnswersOwnRequest
<1>2. AnswersOwnRequest /\ [Next]_vars => AnswersOwnRequest'
  <2> SUFFICES ASSUME AnswersOwnRequest, [Next]_vars PROVE AnswersOwnRequest' OBVIOUS
  <2> USE DEF AnswersOwnRequest, mcpVars
  <2>1. CASE StartRun BY <2>1 DEF StartRun
  <2>2. CASE ConnectMcp BY <2>2, RequestOwn DEF ConnectMcp, Connect
  <2>3. CASE ConnectedMcp BY <2>3 DEF ConnectedMcp
  <2>4. CASE AskLlm BY <2>4 DEF AskLlm
  <2>5. CASE ReachLimit BY <2>5 DEF ReachLimit
  <2>6. CASE TraceCommand BY <2>6 DEF TraceCommand
  <2>7. CASE Perform BY <2>7, RequestOwn DEF Perform, CallTool
  <2>8. CASE Record BY <2>8 DEF Record
  <2>9. CASE Refuse BY <2>9 DEF Refuse
  <2>10. CASE AskHuman BY <2>10 DEF AskHuman
  <2>11. CASE EndRound BY <2>11 DEF EndRound
  <2>12. CASE CompleteTask BY <2>12 DEF CompleteTask
  <2>13. CASE Fail BY <2>13 DEF Fail
  <2>14. CASE McpStep BY <2>14, McpStepOwn DEF McpStep
  <2>15. CASE PostStep BY <2>15 DEF PostStep
  <2>16. CASE PostFinal BY <2>16 DEF PostFinal
  <2>17. CASE UNCHANGED vars BY <2>17 DEF vars
  <2> QED BY <2>1, <2>2, <2>3, <2>4, <2>5, <2>6, <2>7, <2>8, <2>9, <2>10, <2>11, <2>12,
             <2>13, <2>14, <2>15, <2>16, <2>17 DEF Next, RunStep
<1> QED BY <1>1, <1>2, PTL DEF Spec

-----------------------------------------------------------------------------
(* The trace and the order of the messages.                                *)

\* Where the run is determines how far its trace is behind its effects.
TraceInv ==
  /\ commands \in Nat /\ performed \in Nat /\ outputs \in Nat
  /\ pc = "traced" => commands = outputs + 1 /\ performed = outputs
  /\ pc = "performed" => commands = outputs + 1 /\ performed = commands
  /\ pc \notin {"traced", "performed", "ended", "done"} =>
       commands = outputs /\ performed = outputs
  /\ TraceComplete

LEMMA TraceStep == ASSUME TraceInv, [Next]_vars PROVE TraceInv'
<1> USE DEF TraceInv, TraceComplete
<1>0. 1 \in Nat /\ outputs + 1 \in Nat /\ performed + 1 \in Nat /\ commands + 1 \in Nat
  OBVIOUS
<1>1. CASE StartRun BY <1>1 DEF StartRun
<1>2. CASE ConnectMcp BY <1>2 DEF ConnectMcp, agentVars
<1>3. CASE ConnectedMcp BY <1>3 DEF ConnectedMcp
<1>4. CASE AskLlm
  <2>1. UNCHANGED <<commands, performed, outputs>> /\ pc = "asking"
        /\ pc' \in {"answered", "inquiring", "acting"}
    BY <1>4 DEF AskLlm
  <2> QED BY <2>1
<1>5. CASE ReachLimit BY <1>5 DEF ReachLimit
<1>6. CASE TraceCommand BY <1>0, <1>6 DEF TraceCommand
<1>7. CASE Perform BY <1>0, <1>7 DEF Perform
<1>8. CASE Record BY <1>0, <1>8 DEF Record
<1>9. CASE Refuse BY <1>9 DEF Refuse
<1>10. CASE AskHuman BY <1>10 DEF AskHuman
<1>11. CASE EndRound BY <1>11 DEF EndRound
<1>12. CASE CompleteTask BY <1>12 DEF CompleteTask
<1>13. CASE Fail BY <1>13 DEF Fail
<1>14. CASE McpStep BY <1>14 DEF McpStep, agentVars
<1>15. CASE PostStep BY <1>15 DEF PostStep, agentVars
<1>16. CASE PostFinal BY <1>16 DEF PostFinal
<1>17. CASE UNCHANGED vars BY <1>17 DEF vars
<1> QED BY <1>1, <1>2, <1>3, <1>4, <1>5, <1>6, <1>7, <1>8, <1>9, <1>10, <1>11, <1>12,
           <1>13, <1>14, <1>15, <1>16, <1>17 DEF Next, RunStep

\* TraceComplete: wherever a run stops, its trace has every effect it had.
THEOREM TraceCompleteCorrect == Spec => []TraceComplete
<1>1. Init => TraceInv BY DEF Init, TraceInv, TraceComplete
<1>2. TraceInv /\ [Next]_vars => TraceInv' BY TraceStep
<1>3. TraceInv => TraceComplete BY DEF TraceInv
<1> QED BY <1>1, <1>2, <1>3, PTL DEF Spec

\* After the final message nothing is left for the poster.
OrderInv ==
  /\ newest = "final" => pc = "done"
  /\ pc = "done" => queued = 0

LEMMA OrderStep == ASSUME OrderInv, [Next]_vars PROVE OrderInv'
<1> USE DEF OrderInv, chatVars, agentVars
<1>1. CASE StartRun BY <1>1 DEF StartRun
<1>2. CASE ConnectMcp BY <1>2 DEF ConnectMcp
<1>3. CASE ConnectedMcp BY <1>3 DEF ConnectedMcp
<1>4. CASE AskLlm
  <2>1. pc = "asking" /\ pc' \in {"answered", "inquiring", "acting"} /\ newest' = newest
    BY <1>4 DEF AskLlm
  <2> QED BY <2>1
<1>5. CASE ReachLimit BY <1>5 DEF ReachLimit
<1>6. CASE TraceCommand BY <1>6 DEF TraceCommand
<1>7. CASE Perform BY <1>7 DEF Perform
<1>8. CASE Record BY <1>8 DEF Record
<1>9. CASE Refuse BY <1>9 DEF Refuse
<1>10. CASE AskHuman BY <1>10 DEF AskHuman
<1>11. CASE EndRound BY <1>11 DEF EndRound
<1>12. CASE CompleteTask BY <1>12 DEF CompleteTask
<1>13. CASE Fail BY <1>13 DEF Fail
<1>14. CASE McpStep BY <1>14 DEF McpStep
<1>15. CASE PostStep
  <2>1. queued # 0
    BY <1>15 DEF PostStep
  <2>2. pc # "done" /\ pc' = pc BY <2>1, <1>15 DEF PostStep
  <2>3. newest # "final" /\ newest' # "final" BY <2>2, <1>15 DEF PostStep
  <2> QED BY <2>2, <2>3
<1>16. CASE PostFinal BY <1>16 DEF PostFinal
<1>17. CASE UNCHANGED vars BY <1>17 DEF vars
<1> QED BY <1>1, <1>2, <1>3, <1>4, <1>5, <1>6, <1>7, <1>8, <1>9, <1>10, <1>11, <1>12,
           <1>13, <1>14, <1>15, <1>16, <1>17 DEF Next, RunStep

LEMMA FinalStays ==
  ASSUME OrderInv, [Next]_vars PROVE [newest = "final" => newest' = "final"]_vars
<1> SUFFICES ASSUME newest = "final", Next PROVE newest' = "final" BY DEF vars
<1>1. pc = "done" /\ queued = 0 BY DEF OrderInv
<1>2. CASE RunStep
  BY <1>1, <1>2 DEF RunStep, StartRun, ConnectMcp, ConnectedMcp, AskLlm, ReachLimit,
     TraceCommand, Perform, Record, Refuse, AskHuman, EndRound, CompleteTask, Fail, Pc
<1>3. CASE McpStep BY <1>3 DEF McpStep, chatVars
<1>4. CASE PostStep BY <1>1, <1>4 DEF PostStep
<1>5. CASE PostFinal BY <1>1, <1>5 DEF PostFinal
<1> QED BY <1>2, <1>3, <1>4, <1>5 DEF Next

\* StepsBeforeAnswer: the task that posts the steps is awaited before the answer.
THEOREM StepsBeforeAnswerCorrect == Spec => StepsBeforeAnswer
<1>1. Init => OrderInv BY DEF Init, OrderInv
<1>2. OrderInv /\ [Next]_vars => OrderInv' BY OrderStep
<1>3. OrderInv /\ [Next]_vars => [newest = "final" => newest' = "final"]_vars
  BY FinalStays
<1> QED BY <1>1, <1>2, <1>3, PTL DEF Spec, StepsBeforeAnswer

-----------------------------------------------------------------------------
(* Types of the client.                                                    *)

\* A request in flight has an id, and the first one leaves room for the second.
McpInv ==
  /\ McpTypeOK
  /\ phase = "initializing" => nextId <= MaxRequests
  /\ exchange # "idle" => nextId > 0

Line == [kind : {"response", "log", "request"}, id : RequestIds \cup {NoId}]

LEMMA RequestInv ==
  ASSUME McpInv, Request, phase' \in {"initializing", phase} PROVE McpInv'
<1>1. nextId' \in 0..(MaxRequests + 1) /\ nextId' <= MaxRequests /\ nextId' > 0
  BY McpAssumption DEF McpInv, McpTypeOK, Request
<1>2. phase' \in {"off", "initializing", "listing", "ready", "failed"}
  BY DEF McpInv, McpTypeOK
<1> QED BY <1>1, <1>2 DEF McpInv, McpTypeOK, Request, pipeVars

LEMMA ReadRest ==
  ASSUME McpInv, stdout # <<>> PROVE Head(stdout) \in Line /\ Tail(stdout) \in Seq(Line)
<1>1. stdout \in Seq(Line) BY DEF McpInv, McpTypeOK, Line
<1> QED BY <1>1

LEMMA ReadLineInv == ASSUME McpInv, ReadLine PROVE McpInv'
<1>1. stdout' \in Seq(Line) BY ReadRest DEF ReadLine
<1>2. nextId \in 1..(MaxRequests + 1) /\ exchange = "waiting"
  BY McpAssumption DEF McpInv, McpTypeOK, ReadLine
<1> DEFINE line == Head(stdout)
<1>3. CASE IsResponse(line) /\ Accept /\ taken' = [request |-> nextId, answer |-> line.id]
  <2>1. taken' \in [request : 0..MaxRequests + 1, answer : 0..MaxRequests + 1]
    BY <1>2, <1>3 DEF IsResponse
  <2>2. nextId' \in 1..(MaxRequests + 1) /\ (phase' = "initializing" => nextId' <= MaxRequests)
    BY <1>2, <1>3, McpAssumption DEF Accept, McpInv, McpTypeOK, Fails, Connecting
  <2>3. phase' \in {"off", "initializing", "listing", "ready", "failed"}
        /\ exchange' \in {"idle", "writing", "waiting"}
    BY <1>2, <1>3 DEF Accept, McpInv, McpTypeOK, Fails, Connecting
  <2>4. torn' \in BOOLEAN /\ pending' \subseteq RequestIds
    BY <1>3 DEF Accept, McpInv, McpTypeOK, Written
  <2>5. alive' = alive /\ noise' = noise BY DEF ReadLine
  <2> QED BY <1>1, <2>1, <2>2, <2>3, <2>4, <2>5 DEF McpInv, McpTypeOK, Line
<1>4. CASE ~IsResponse(line) /\ line.kind = "request" /\ Written({})
           /\ UNCHANGED <<phase, nextId, exchange, taken>>
  BY <1>1, <1>4 DEF ReadLine, McpInv, McpTypeOK, Written, Line
<1>5. CASE ~IsResponse(line) /\ UNCHANGED <<clientVars, pending, taken>>
  BY <1>1, <1>5 DEF ReadLine, McpInv, McpTypeOK, clientVars, Line
<1> QED BY <1>3, <1>4, <1>5 DEF ReadLine

LEMMA ExchangeInv == ASSUME McpInv, Exchange PROVE McpInv'
<1>1. CASE WriteLine
  <2>1. nextId \in RequestIds
    BY <1>1, McpAssumption DEF WriteLine, McpInv, McpTypeOK, RequestIds
  <2> QED BY <1>1, <2>1 DEF WriteLine, Written, McpInv, McpTypeOK
<1>2. CASE TimeOut
  <2>1. phase' \in {"failed", phase} /\ (phase' = "initializing" => phase = "initializing")
    BY <1>2 DEF TimeOut, Fails
  <2>2. stdout' \in Seq(Line)
    BY <1>2, ReadRest DEF TimeOut, McpInv, McpTypeOK, Line
  <2>3. torn' \in BOOLEAN BY <1>2 DEF TimeOut, McpInv, McpTypeOK
  <2> QED BY <1>2, <2>1, <2>2, <2>3 DEF TimeOut, Fails, McpInv, McpTypeOK, Line
<1>3. CASE FindClosed
  BY <1>3 DEF FindClosed, Fails, Connecting, McpInv, McpTypeOK, pipeVars
<1>4. CASE ReadLine BY <1>4, ReadLineInv
<1> QED BY <1>1, <1>2, <1>3, <1>4 DEF Exchange

LEMMA ServerInv == ASSUME McpInv, Server PROVE McpInv'
<1> USE DEF McpInv, McpTypeOK
<1>1. CASE ServerPrints
  <2>1. noise' \in 0..MaxNoise BY <1>1, McpAssumption DEF ServerPrints
  <2>2. PICK kind \in {"log", "request"} :
          stdout' = Append(stdout, [kind |-> kind, id |-> NoId])
    BY <1>1 DEF ServerPrints
  <2>3. [kind |-> kind, id |-> NoId] \in Line BY DEF Line
  <2>4. stdout' \in Seq(Line) BY <2>2, <2>3 DEF Line
  <2> QED BY <1>1, <2>1, <2>4 DEF ServerPrints, clientVars, Line
<1>2. CASE ServerDies BY <1>2 DEF ServerDies, clientVars
<1>3. ASSUME NEW id \in pending, ServerAnswers(id) PROVE McpInv'
  <2>1. [kind |-> "response", id |-> id] \in Line BY DEF Line
  <2>2. stdout' \in Seq(Line) BY <1>3, <2>1 DEF ServerAnswers, Line
  <2> QED BY <1>3, <2>2 DEF ServerAnswers, clientVars, Line
<1> QED BY <1>1, <1>2, <1>3 DEF Server

-----------------------------------------------------------------------------
(* Types of the run.                                                       *)

TypeInv == TypeOK /\ McpInv

Call == (1..MaxIterations) \X (1..MaxCalls)

LEMMA RunType ==
  ASSUME TypeInv, McpInv',
         native' \in BOOLEAN, pc' \in Pc, step' \in 0..MaxIterations,
         conv' \in Seq(Entry), calls' \in Seq(Call), doing' \in Effects \cup {"none"},
         commands' \in Nat, performed' \in Nat, outputs' \in Nat,
         status' \in {"none", "running", "completed", "max_iterations_reached", "waiting_human"},
         queued' \in Nat, newest' \in {"none", "step", "final"}
  PROVE  TypeInv'
BY DEF TypeInv, TypeOK, McpInv, Call

LEMMA SameMcp == ASSUME TypeInv, UNCHANGED mcpVars PROVE McpInv'
BY DEF TypeInv, McpInv, McpTypeOK, mcpVars

LEMMA AnswerType ==
  ASSUME TypeInv, calls # <<>>, Answer PROVE conv' \in Seq(Entry) /\ calls' \in Seq(Call)
<1>1. calls \in Seq(Call) /\ conv \in Seq(Entry) BY DEF TypeInv, TypeOK, Call
<1>2. Head(calls) \in Call /\ Tail(calls) \in Seq(Call) BY <1>1
<1>3. <<Head(calls)>> \in Seq(Call) BY <1>2
<1>4. [role |-> "tool", ids |-> <<Head(calls)>>] \in Entry BY <1>3 DEF Entry, Call
<1> QED BY <1>1, <1>2, <1>4 DEF Answer

LEMMA AskLlmType ==
  ASSUME TypeInv, AskLlm PROVE conv' \in Seq(Entry) /\ calls' \in Seq(Call)
<1>1. calls \in Seq(Call) /\ conv \in Seq(Entry) BY DEF TypeInv, TypeOK, Call
<1>2. step + 1 \in 1..MaxIterations
  BY AgentLoopAssumption DEF AskLlm, MoreRounds, TypeInv, TypeOK
<1>3. [role |-> "assistant", ids |-> <<>>] \in Entry BY DEF Entry
<1>4. ASSUME NEW n \in 1..MaxCalls
      PROVE  /\ [i \in 1..n |-> CallId(step + 1, i)] \in Seq(Call)
             /\ [role |-> "assistant", ids |-> [i \in 1..n |-> CallId(step + 1, i)]] \in Entry
  <2>1. n \in Nat /\ \A i \in 1..n : CallId(step + 1, i) \in Call
    BY <1>2, AgentLoopAssumption DEF CallId, Call
  <2>2. [i \in 1..n |-> CallId(step + 1, i)] \in Seq(Call) BY <2>1
  <2> QED BY <2>2 DEF Entry, Call
<1>5. CASE UNCHANGED <<conv, calls>> BY <1>1, <1>5
<1>6. CASE conv' = Append(conv, [role |-> "assistant", ids |-> <<>>]) /\ calls' = calls
  BY <1>1, <1>3, <1>6
<1>7. ASSUME NEW n \in 1..MaxCalls,
             calls' = [i \in 1..n |-> CallId(step + 1, i)],
             conv' = Append(conv, [role |-> "assistant", ids |-> IF native THEN calls' ELSE <<>>])
      PROVE  conv' \in Seq(Entry) /\ calls' \in Seq(Call)
  <2> DEFINE reply == [role |-> "assistant", ids |-> IF native THEN calls' ELSE <<>>]
  <2>1. reply \in Entry
    <3>1. CASE native BY <1>4, <1>7, <3>1
    <3>2. CASE ~native BY <1>3, <3>2
    <3> QED BY <3>1, <3>2
  <2>2. conv' = Append(conv, reply) BY <1>7
  <2>3. calls' \in Seq(Call) BY <1>4, <1>7
  <2> HIDE DEF reply
  <2> QED BY <1>1, <2>1, <2>2, <2>3
<1> QED BY <1>5, <1>6, <1>7 DEF AskLlm

\* An action is taken from the list when its result is known.
PendingInv == pc \in {"traced", "performed"} => calls # <<>>

LEMMA PendingStep == ASSUME PendingInv, [Next]_vars PROVE PendingInv'
<1> USE DEF PendingInv
<1>1. CASE RunStep
  BY <1>1 DEF RunStep, StartRun, ConnectMcp, ConnectedMcp, AskLlm, ReachLimit, TraceCommand,
     Perform, Record, Refuse, AskHuman, EndRound, CompleteTask, Fail, agentVars
<1>2. CASE McpStep BY <1>2 DEF McpStep, agentVars
<1>3. CASE PostStep BY <1>3 DEF PostStep, agentVars
<1>4. CASE PostFinal BY <1>4 DEF PostFinal
<1>5. CASE UNCHANGED vars BY <1>5 DEF vars
<1> QED BY <1>1, <1>2, <1>3, <1>4, <1>5 DEF Next

LEMMA TypeStep == ASSUME TypeInv, PendingInv, [Next]_vars PROVE TypeInv'
<1> USE DEF chatVars, agentVars
<1>0. /\ native \in BOOLEAN /\ pc \in Pc /\ step \in 0..MaxIterations
      /\ conv \in Seq(Entry) /\ calls \in Seq(Call) /\ doing \in Effects \cup {"none"}
      /\ commands \in Nat /\ performed \in Nat /\ outputs \in Nat
      /\ status \in {"none", "running", "completed", "max_iterations_reached", "waiting_human"}
      /\ queued \in Nat /\ newest \in {"none", "step", "final"}
      /\ McpInv
  BY DEF TypeInv, TypeOK, Call
<1>1. CASE StartRun BY <1>0, <1>1, SameMcp, RunType DEF StartRun, Pc
<1>2. CASE ConnectMcp
  <2>1. McpInv' BY <1>0, <1>2, RequestInv DEF ConnectMcp, Connect
  <2> QED BY <1>0, <1>2, <2>1, RunType DEF ConnectMcp
<1>3. CASE ConnectedMcp BY <1>0, <1>3, SameMcp, RunType DEF ConnectedMcp, Pc, SendStep
<1>4. CASE AskLlm
  <2>1. step' \in 0..MaxIterations
    BY <1>0, <1>4, AgentLoopAssumption DEF AskLlm, MoreRounds
  <2>2. pc' \in Pc /\ queued' \in Nat BY <1>0, <1>4 DEF AskLlm, Pc, SendStep
  <2>3. /\ UNCHANGED <<native, doing, commands, performed, outputs, status, newest>>
        /\ UNCHANGED mcpVars
    BY <1>4 DEF AskLlm
  <2> QED BY <1>0, <1>4, <2>1, <2>2, <2>3, AskLlmType, SameMcp, RunType
<1>5. CASE ReachLimit BY <1>0, <1>5, SameMcp, RunType DEF ReachLimit, Pc
<1>6. CASE TraceCommand
  BY <1>0, <1>6, SameMcp, RunType DEF TraceCommand, Pc, Effects
<1>7. CASE Perform
  <2>1. McpInv' BY <1>0, <1>7, RequestInv, SameMcp DEF Perform, CallTool
  <2> QED BY <1>0, <1>7, <2>1, RunType DEF Perform, Pc
<1>8. CASE Record
  <2>1. conv' \in Seq(Entry) /\ calls' \in Seq(Call)
    BY <1>8, AnswerType DEF Record, PendingInv
  <2> QED BY <1>0, <1>8, <2>1, SameMcp, RunType DEF Record, Pc, SendStep
<1>9. CASE Refuse
  <2>1. conv' \in Seq(Entry) /\ calls' \in Seq(Call) BY <1>9, AnswerType DEF Refuse
  <2> QED BY <1>0, <1>9, <2>1, SameMcp, RunType DEF Refuse, SendStep
<1>10. CASE AskHuman BY <1>0, <1>10, SameMcp, RunType DEF AskHuman, Pc
<1>11. CASE EndRound
  <2>1. [role |-> "user", ids |-> <<>>] \in Entry BY DEF Entry
  <2>2. conv' \in Seq(Entry) BY <1>0, <1>11, <2>1 DEF EndRound
  <2> QED BY <1>0, <1>11, <2>2, SameMcp, RunType DEF EndRound, Pc
<1>12. CASE CompleteTask BY <1>0, <1>12, SameMcp, RunType DEF CompleteTask, Pc
<1>13. CASE Fail BY <1>0, <1>13, SameMcp, RunType DEF Fail, Pc
<1>14. CASE McpStep
  <2>1. McpInv' BY <1>0, <1>14, ExchangeInv, ServerInv DEF McpStep
  <2> QED BY <1>0, <1>14, <2>1, RunType DEF McpStep
<1>15. CASE PostStep BY <1>0, <1>15, SameMcp, RunType DEF PostStep
<1>16. CASE PostFinal BY <1>0, <1>16, SameMcp, RunType DEF PostFinal, Pc
<1>17. CASE UNCHANGED vars
  BY <1>0, <1>17, SameMcp, RunType DEF vars, mcpVars
<1> QED BY <1>1, <1>2, <1>3, <1>4, <1>5, <1>6, <1>7, <1>8, <1>9, <1>10, <1>11, <1>12,
           <1>13, <1>14, <1>15, <1>16, <1>17 DEF Next, RunStep

-----------------------------------------------------------------------------
(* The conversation.                                                       *)

Result(c) == [role |-> "tool", ids |-> <<c>>]

\* A result follows the call it belongs to, or the call waits for it in calls.
ResultsInOrder ==
  \A i \in 1..Len(conv) : conv[i].role = "assistant" =>
    \A j \in 1..Len(conv[i].ids) :
      LET k == i + j - Len(conv) IN
      IF k <= 0 THEN conv[i + j] = Result(conv[i].ids[j])
                ELSE k <= Len(calls) /\ calls[k] = conv[i].ids[j]

\* Ids bear the number of their round, so none is used again.
ResultsOnce ==
  /\ \A i \in 1..Len(conv) : conv[i].role = "assistant" \/
       \E c \in Call : conv[i] = Result(c) /\ c[1] <= step
  /\ \A i, k \in 1..Len(conv) : conv[i].role = "tool" /\ conv[i] = conv[k] => i = k
  /\ \A x \in 1..Len(calls) :
       /\ calls[x][1] = step
       /\ \A i \in 1..Len(conv) : conv[i] # Result(calls[x])
       /\ \A y \in 1..Len(calls) : calls[x] = calls[y] => x = y

Alternating ==
  /\ \A i \in 1..Len(conv) : conv[i].role = IF i % 2 = 1 THEN "assistant" ELSE "user"
  /\ pc = "asking" => Len(conv) % 2 = 0
  /\ pc \in {"acting", "traced", "performed"} => Len(conv) % 2 = 1

ConvInv ==
  /\ pc \in {"idle", "connecting"} => conv = <<>>
  /\ pc \in {"idle", "connecting", "asking"} => calls = <<>>
  /\ native => ResultsInOrder /\ ResultsOnce
  /\ ~native => Alternating

\* What a sequence is after one more message.
LEMMA Longer ==
  ASSUME NEW S, NEW s \in Seq(S), NEW e \in S
  PROVE  /\ Len(Append(s, e)) = Len(s) + 1
         /\ \A i \in 1..Len(s) : Append(s, e)[i] = s[i]
         /\ Append(s, e)[Len(s) + 1] = e
OBVIOUS

LEMMA ShorterTail ==
  ASSUME NEW S, NEW s \in Seq(S), s # <<>>
  PROVE  /\ Len(s) \in Nat \ {0} /\ Len(Tail(s)) = Len(s) - 1
         /\ \A i \in 1..Len(Tail(s)) : Tail(s)[i] = s[i + 1]
         /\ Head(s) = s[1] /\ Head(s) \in S
OBVIOUS

\* The result of the first action that is left takes its place.
LEMMA AnswerConv ==
  ASSUME TypeInv, native, ResultsInOrder, ResultsOnce, calls # <<>>, Answer, step' = step
  PROVE  ResultsInOrder' /\ ResultsOnce'
<1>1. conv \in Seq(Entry) /\ calls \in Seq(Call) BY DEF TypeInv, TypeOK, Call
<1> DEFINE n == Len(conv)
           c == calls[1]
<1>2. n \in Nat /\ Len(calls) \in Nat \ {0} /\ Head(calls) = c /\ c \in Call
  BY <1>1, ShorterTail
<1>3. Result(c) \in Entry BY <1>2 DEF Result, Entry, Call
<1>4. conv' = Append(conv, Result(c)) BY <1>2 DEF Answer, Result
<1>5. /\ Len(conv') = n + 1 /\ conv'[n + 1] = Result(c)
      /\ \A i \in 1..n : conv'[i] = conv[i]
  BY <1>1, <1>3, <1>4, Longer
<1>6. /\ Len(calls') = Len(calls) - 1
      /\ \A x \in 1..Len(calls') : calls'[x] = calls[x + 1]
  BY <1>1, ShorterTail DEF Answer
<1>7. ResultsInOrder'
  <2> SUFFICES ASSUME NEW i \in 1..Len(conv'), conv'[i].role = "assistant",
                      NEW j \in 1..Len(conv'[i].ids)
               PROVE  LET k == i + j - Len(conv') IN
                      IF k <= 0 THEN conv'[i + j] = Result(conv'[i].ids[j])
                                ELSE k <= Len(calls') /\ calls'[k] = conv'[i].ids[j]
    BY DEF ResultsInOrder
  <2> DEFINE k == i + j - (n + 1)
  <2>0. i \in 1..(n + 1) /\ i + j - Len(conv') = k BY <1>5
  <2> SUFFICES IF k <= 0 THEN conv'[i + j] = Result(conv'[i].ids[j])
                         ELSE k <= Len(calls') /\ calls'[k] = conv'[i].ids[j]
    BY <2>0
  <2>1. i \in 1..n /\ conv'[i] = conv[i] BY <1>2, <1>5, <2>0 DEF Result
  <2>2. conv[i].ids \in Seq(Call) /\ j \in Nat \ {0}
    <3>1. conv[i] \in Entry BY <1>1, <2>1
    <3>2. conv[i].ids \in Seq(Call) BY <3>1 DEF Entry, Call
    <3>3. Len(conv[i].ids) \in Nat BY <3>2
    <3> QED BY <2>1, <3>2, <3>3
  <2>3. IF i + j - n <= 0 THEN conv[i + j] = Result(conv[i].ids[j])
        ELSE i + j - n <= Len(calls) /\ calls[i + j - n] = conv[i].ids[j]
    BY <2>1 DEF ResultsInOrder
  <2>4. CASE i + j <= n BY <1>2, <1>5, <2>1, <2>2, <2>3, <2>4
  <2>5. CASE i + j = n + 1
    <3>1. c = conv[i].ids[j] BY <1>2, <2>1, <2>2, <2>3, <2>5
    <3> QED BY <1>2, <1>5, <2>1, <2>2, <2>5, <3>1
  <2>6. CASE i + j > n + 1
    <3>0. i + j - n <= Len(calls) /\ calls[i + j - n] = conv[i].ids[j]
      <4>1. ~(i + j - n <= 0) BY <1>2, <2>1, <2>2, <2>6
      <4> QED BY <2>3, <4>1
    <3>1. k \in 1..Len(calls') /\ k + 1 = i + j - n
      <4>1. Len(calls') = Len(calls) - 1 BY <1>6
      <4> QED BY <1>2, <2>1, <2>2, <2>6, <3>0, <4>1
    <3>2. calls'[k] = calls[k + 1] BY <1>6, <3>1
    <3>3. calls[k + 1] = conv[i].ids[j] BY <3>0, <3>1
    <3>4. k <= Len(calls') /\ calls'[k] = conv'[i].ids[j] BY <2>1, <3>1, <3>2, <3>3
    <3>5. ~(k <= 0) BY <3>1
    <3> QED BY <3>4, <3>5
  <2>7. i + j <= n \/ i + j = n + 1 \/ i + j > n + 1 BY <1>2, <2>1, <2>2
  <2> QED BY <2>4, <2>5, <2>6, <2>7
<1>8. ResultsOnce'
  <2>1. ASSUME NEW i \in 1..(n + 1)
        PROVE  conv'[i].role = "assistant" \/ \E d \in Call : conv'[i] = Result(d) /\ d[1] <= step
    <3>1. CASE i = n + 1
      <4>1. c[1] = step /\ step \in Int BY <1>2 DEF ResultsOnce, TypeInv, TypeOK
      <4> QED BY <1>2, <1>5, <3>1, <4>1
    <3>2. CASE i \in 1..n BY <1>5, <3>2 DEF ResultsOnce
    <3> QED BY <1>2, <3>1, <3>2
  <2>2. ASSUME NEW i \in 1..(n + 1), NEW k \in 1..(n + 1),
               conv'[i].role = "tool", conv'[i] = conv'[k]
        PROVE  i = k
    <3>1. \A l \in 1..n : conv[l] # Result(c) BY <1>2 DEF ResultsOnce
    <3>2. CASE i \in 1..n /\ k \in 1..n BY <1>5, <2>2, <3>2 DEF ResultsOnce
    <3> QED BY <1>2, <1>5, <2>2, <3>1, <3>2
  <2>3. ASSUME NEW x \in 1..Len(calls')
        PROVE  /\ calls'[x][1] = step
               /\ \A i \in 1..(n + 1) : conv'[i] # Result(calls'[x])
               /\ \A y \in 1..Len(calls') : calls'[x] = calls'[y] => x = y
    <3>1. x + 1 \in 1..Len(calls) /\ x + 1 # 1 /\ 1 \in 1..Len(calls) BY <1>2, <1>6
    <3>2. calls'[x] = calls[x + 1] BY <1>6
    <3>3. calls[x + 1] # c BY <3>1 DEF ResultsOnce
    <3>4. Result(calls[x + 1]) # Result(c) BY <3>3 DEF Result
    <3>5. \A i \in 1..n : conv'[i] # Result(calls'[x])
      BY <1>5, <3>1, <3>2 DEF ResultsOnce
    <3>6. ASSUME NEW y \in 1..Len(calls'), calls'[x] = calls'[y] PROVE x = y
      <4>1. y + 1 \in 1..Len(calls) /\ calls'[y] = calls[y + 1] BY <1>2, <1>6
      <4>2. x + 1 = y + 1 BY <3>1, <3>2, <3>6, <4>1 DEF ResultsOnce
      <4> QED BY <4>2, <1>2, <1>6
    <3>7. calls'[x][1] = step BY <3>1, <3>2 DEF ResultsOnce
    <3>8. \A i \in 1..(n + 1) : i \in 1..n \/ i = n + 1 BY <1>2
    <3> QED BY <1>5, <3>2, <3>4, <3>5, <3>6, <3>7, <3>8
  <2> QED BY <1>5, <2>1, <2>2, <2>3 DEF ResultsOnce
<1> QED BY <1>7, <1>8

\* A reply with actions, in native calls: their ids are new, since the round is.
LEMMA AskConv ==
  ASSUME TypeInv, native, ResultsInOrder, ResultsOnce, calls = <<>>,
         NEW n \in 1..MaxCalls, step' = step + 1,
         calls' = [i \in 1..n |-> CallId(step + 1, i)],
         conv' = Append(conv, [role |-> "assistant", ids |-> calls']),
         calls' \in Seq(Call)
  PROVE  ResultsInOrder' /\ ResultsOnce'
<1>1. conv \in Seq(Entry) /\ step \in Int BY DEF TypeInv, TypeOK
<1> DEFINE l == Len(conv)
           reply == [role |-> "assistant", ids |-> calls']
<1>2. l \in Nat /\ n \in Nat /\ reply \in Entry BY <1>1, AgentLoopAssumption DEF Entry, Call
<1>3. /\ Len(conv') = l + 1 /\ conv'[l + 1] = reply
      /\ \A i \in 1..l : conv'[i] = conv[i]
  BY <1>1, <1>2, Longer
<1>4. /\ Len(calls') = n
      /\ \A x \in 1..n : calls'[x] = <<step + 1, x>>
  BY <1>2 DEF CallId
<1>5. ResultsInOrder'
  <2> SUFFICES ASSUME NEW i \in 1..Len(conv'), conv'[i].role = "assistant",
                      NEW j \in 1..Len(conv'[i].ids)
               PROVE  LET k == i + j - Len(conv') IN
                      IF k <= 0 THEN conv'[i + j] = Result(conv'[i].ids[j])
                                ELSE k <= Len(calls') /\ calls'[k] = conv'[i].ids[j]
    BY DEF ResultsInOrder
  <2> DEFINE k == i + j - (l + 1)
  <2>0. i \in 1..(l + 1) /\ i + j - Len(conv') = k BY <1>3
  <2> SUFFICES IF k <= 0 THEN conv'[i + j] = Result(conv'[i].ids[j])
                         ELSE k <= Len(calls') /\ calls'[k] = conv'[i].ids[j]
    BY <2>0
  <2>1. CASE i = l + 1
    <3>1. conv'[i].ids = calls' BY <1>3, <2>1
    <3>2. j \in 1..n /\ i + j - (l + 1) = j BY <1>2, <1>4, <2>1, <3>1
    <3> QED BY <1>4, <3>1, <3>2
  <2>2. CASE i \in 1..l
    <3>1. conv[i] \in Entry /\ conv'[i] = conv[i] BY <1>1, <1>3, <2>2
    <3>2. conv[i].ids \in Seq(Call) BY <3>1 DEF Entry, Call
    <3>3. Len(conv[i].ids) \in Nat BY <3>2
    <3>4. j \in 1..Len(conv[i].ids) /\ j \in Nat \ {0} BY <3>1, <3>3
    <3>5. Len(calls) = 0 BY <1>1
    <3>6. IF i + j - l <= 0 THEN conv[i + j] = Result(conv[i].ids[j])
          ELSE i + j - l <= Len(calls)
      BY <2>2, <3>1, <3>4 DEF ResultsInOrder
    <3>7. i + j <= l /\ conv[i + j] = Result(conv[i].ids[j]) BY <1>2, <2>2, <3>4, <3>5, <3>6
    <3>8. k <= 0 /\ i + j \in 1..l BY <1>2, <2>2, <3>4, <3>7
    <3>9. conv'[i + j] = conv[i + j] BY <1>3, <3>8
    <3> QED BY <3>1, <3>7, <3>8, <3>9
  <2>3. i = l + 1 \/ i \in 1..l BY <1>2, <2>0
  <2> QED BY <2>1, <2>2, <2>3
<1>6. \A i \in 1..l : conv[i].role = "assistant" \/
        \E c \in Call : conv[i] = Result(c) /\ c[1] <= step
  BY DEF ResultsOnce
<1>7. ResultsOnce'
  <2>0. \A i \in 1..(l + 1) : i \in 1..l \/ i = l + 1 BY <1>2
  <2>1. ASSUME NEW i \in 1..(l + 1)
        PROVE  conv'[i].role = "assistant" \/
                 \E c \in Call : conv'[i] = Result(c) /\ c[1] <= step + 1
    <3>1. ASSUME NEW c \in Call, c[1] <= step PROVE c[1] <= step + 1
      BY <1>1, <3>1, AgentLoopAssumption DEF Call
    <3> QED BY <1>3, <1>6, <2>0, <3>1
  <2>2. ASSUME NEW i \in 1..(l + 1), NEW k \in 1..(l + 1),
               conv'[i].role = "tool", conv'[i] = conv'[k]
        PROVE  i = k
    <3>1. i \in 1..l /\ k \in 1..l BY <1>3, <2>0, <2>2
    <3> QED BY <1>3, <2>2, <3>1 DEF ResultsOnce
  <2>3. ASSUME NEW x \in 1..n
        PROVE  /\ calls'[x][1] = step + 1
               /\ \A i \in 1..(l + 1) : conv'[i] # Result(calls'[x])
               /\ \A y \in 1..n : calls'[x] = calls'[y] => x = y
    <3>1. calls'[x][1] = step + 1 BY <1>4
    <3>2. ASSUME NEW c \in Call, c[1] <= step PROVE Result(c) # Result(calls'[x])
      <4>1. c[1] # calls'[x][1] BY <1>1, <3>1, <3>2, AgentLoopAssumption DEF Call
      <4> QED BY <4>1 DEF Result
    <3>3. Result(calls'[x]).role # "assistant" BY DEF Result
    <3>4. \A i \in 1..(l + 1) : conv'[i] # Result(calls'[x])
      BY <1>3, <1>6, <2>0, <3>2, <3>3
    <3>5. \A y \in 1..n : calls'[x] = calls'[y] => x = y BY <1>4
    <3> QED BY <3>1, <3>4, <3>5
  <2> QED BY <1>3, <1>4, <2>1, <2>2, <2>3 DEF ResultsOnce
<1> QED BY <1>5, <1>7

\* A reply, and the results of its commands, in the text.
LEMMA AlternatingOn ==
  ASSUME TypeInv, Alternating, NEW m \in Entry, conv' = Append(conv, m),
         m.role = IF Len(conv) % 2 = 0 THEN "assistant" ELSE "user",
         pc' = "asking" => Len(conv) % 2 = 1,
         pc' \in {"acting", "traced", "performed"} => Len(conv) % 2 = 0
  PROVE  Alternating'
<1>1. conv \in Seq(Entry) BY DEF TypeInv, TypeOK
<1>2. /\ Len(conv) \in Nat /\ Len(conv') = Len(conv) + 1 /\ conv'[Len(conv) + 1] = m
      /\ \A i \in 1..Len(conv) : conv'[i] = conv[i]
  BY <1>1, Longer
<1>3. \A k \in Nat : (k % 2 = 0 /\ (k + 1) % 2 = 1) \/ (k % 2 = 1 /\ (k + 1) % 2 = 0)
  OBVIOUS
<1>4. \A i \in 1..(Len(conv) + 1) : i \in 1..Len(conv) \/ i = Len(conv) + 1 BY <1>2
<1> QED BY <1>2, <1>3, <1>4, ZenonT(40) DEF Alternating

LEMMA ConvSame ==
  ASSUME ConvInv, UNCHANGED <<native, step, conv, calls>>,
         pc' \in {"idle", "connecting"} => pc \in {"idle", "connecting"},
         pc' = "asking" => pc = "connecting" \/ pc = "asking",
         pc' \in {"acting", "traced", "performed"} => pc \in {"acting", "traced", "performed"}
  PROVE  ConvInv'
<1>1. native => ResultsInOrder' /\ ResultsOnce'
  BY DEF ConvInv, ResultsInOrder, ResultsOnce
<1>2. pc = "connecting" => Len(conv) % 2 = 0 BY DEF ConvInv
<1>3. ~native => Alternating' BY <1>2 DEF ConvInv, Alternating
<1> QED BY <1>1, <1>3 DEF ConvInv

LEMMA ConvStep == ASSUME TypeInv, PendingInv, ConvInv, [Next]_vars PROVE ConvInv'
<1>1. CASE StartRun
  <2>1. conv = <<>> /\ calls = <<>> /\ pc' \in {"connecting", "asking"}
        /\ UNCHANGED <<conv, calls>>
    BY <1>1 DEF StartRun, ConvInv
  <2>2. Len(conv') = 0 /\ Len(calls') = 0 BY <2>1
  <2> QED BY <2>1, <2>2 DEF ConvInv, ResultsInOrder, ResultsOnce, Alternating
<1>2. CASE ConnectMcp BY <1>2, ConvSame DEF ConnectMcp, agentVars
<1>3. CASE ConnectedMcp BY <1>3, ConvSame DEF ConnectedMcp
<1>4. CASE AskLlm
  <2>1. pc = "asking" /\ calls = <<>> /\ step' = step + 1 /\ native' = native
    BY <1>4 DEF AskLlm, ConvInv
  <2>2. CASE pc' = "answered" /\ UNCHANGED <<conv, calls>>
    <3>1. native => ResultsInOrder' /\ ResultsOnce'
      <4> SUFFICES ASSUME native PROVE ResultsInOrder' /\ ResultsOnce' OBVIOUS
      <4>0. ResultsInOrder /\ ResultsOnce BY DEF ConvInv
      <4>1. ResultsInOrder' BY <2>2, <4>0 DEF ResultsInOrder
      <4>2. Len(calls') = 0 BY <2>1, <2>2
      <4>3. \A c \in Call : c[1] <= step => c[1] <= step + 1
        BY AgentLoopAssumption DEF Call, TypeInv, TypeOK
      <4>4. ResultsOnce' BY <2>1, <2>2, <4>0, <4>2, <4>3 DEF ResultsOnce
      <4> QED BY <4>1, <4>4
    <3>2. ~native => Alternating' BY <2>2 DEF ConvInv, Alternating
    <3> QED BY <2>1, <2>2, <3>1, <3>2 DEF ConvInv
  <2>3. CASE /\ ~native /\ pc' = "inquiring" /\ calls' = calls
             /\ conv' = Append(conv, [role |-> "assistant", ids |-> <<>>])
    <3>1. [role |-> "assistant", ids |-> <<>>] \in Entry BY DEF Entry
    <3>2. Len(conv) % 2 = 0 BY <2>1, <2>3 DEF ConvInv, Alternating
    <3>3. Alternating' BY <2>3, <3>1, <3>2, AlternatingOn DEF ConvInv
    <3> QED BY <2>1, <2>3, <3>3 DEF ConvInv
  <2>4. ASSUME NEW n \in 1..MaxCalls, pc' = "acting",
               calls' = [i \in 1..n |-> CallId(step + 1, i)],
               conv' = Append(conv, [role |-> "assistant", ids |-> IF native THEN calls' ELSE <<>>])
        PROVE  ConvInv'
    <3>1. CASE native
      <4>1. conv' = Append(conv, [role |-> "assistant", ids |-> calls']) BY <2>4, <3>1
      <4>2. calls' \in Seq(Call) BY <1>4, AskLlmType
      <4>3. ResultsInOrder' /\ ResultsOnce'
        BY <2>1, <2>4, <3>1, <4>1, <4>2, AskConv DEF ConvInv
      <4> QED BY <2>1, <2>4, <3>1, <4>3 DEF ConvInv
    <3>2. CASE ~native
      <4>1. conv' = Append(conv, [role |-> "assistant", ids |-> <<>>]) BY <2>4, <3>2
      <4>2. [role |-> "assistant", ids |-> <<>>] \in Entry BY DEF Entry
      <4>3. Len(conv) % 2 = 0 BY <2>1, <3>2 DEF ConvInv, Alternating
      <4>4. Alternating' BY <2>4, <3>2, <4>1, <4>2, <4>3, AlternatingOn DEF ConvInv
      <4> QED BY <2>1, <2>4, <3>2, <4>4 DEF ConvInv
    <3> QED BY <3>1, <3>2
  <2> QED BY <1>4, <2>2, <2>3, <2>4 DEF AskLlm
<1>5. CASE ReachLimit BY <1>5, ConvSame DEF ReachLimit
<1>6. CASE TraceCommand BY <1>6, ConvSame DEF TraceCommand
<1>7. CASE Perform BY <1>7, ConvSame DEF Perform
<1>8. ASSUME Answer, calls # <<>>, UNCHANGED <<native, step>>, pc' = "acting",
             pc \in {"acting", "performed"}
      PROVE  ConvInv'
  <2>1. native => ResultsInOrder' /\ ResultsOnce' BY <1>8, AnswerConv DEF ConvInv
  <2>2. ~native => Alternating' BY <1>8 DEF Answer, ConvInv, Alternating
  <2> QED BY <1>8, <2>1, <2>2 DEF ConvInv
<1>9. CASE Record BY <1>8, <1>9 DEF Record, PendingInv
<1>10. CASE Refuse BY <1>8, <1>10 DEF Refuse
<1>11. CASE AskHuman BY <1>11, ConvSame DEF AskHuman
<1>12. CASE EndRound
  <2>1. pc = "acting" /\ pc' = "asking" /\ calls = <<>> /\ UNCHANGED <<native, step, calls>>
    BY <1>12 DEF EndRound
  <2>2. CASE native
    <3>1. conv' = conv BY <1>12, <2>2 DEF EndRound
    <3> QED BY <2>1, <2>2, <3>1 DEF ConvInv, ResultsInOrder, ResultsOnce
  <2>3. CASE ~native
    <3>1. conv' = Append(conv, [role |-> "user", ids |-> <<>>]) BY <1>12, <2>3 DEF EndRound
    <3>2. [role |-> "user", ids |-> <<>>] \in Entry BY DEF Entry
    <3>3. Len(conv) % 2 = 1 BY <2>1, <2>3 DEF ConvInv, Alternating
    <3>4. Alternating' BY <2>1, <2>3, <3>1, <3>2, <3>3, AlternatingOn DEF ConvInv
    <3> QED BY <2>1, <2>3, <3>4 DEF ConvInv
  <2> QED BY <2>2, <2>3
<1>13. CASE CompleteTask BY <1>13, ConvSame DEF CompleteTask
<1>14. CASE Fail BY <1>14, ConvSame DEF Fail
<1>15. CASE McpStep BY <1>15, ConvSame DEF McpStep, agentVars
<1>16. CASE PostStep BY <1>16, ConvSame DEF PostStep, agentVars
<1>17. CASE PostFinal BY <1>17, ConvSame DEF PostFinal
<1>18. CASE UNCHANGED vars BY <1>18, ConvSame DEF vars
<1> QED BY <1>1, <1>2, <1>3, <1>4, <1>5, <1>6, <1>7, <1>9, <1>10, <1>11, <1>12, <1>13,
           <1>14, <1>15, <1>16, <1>17, <1>18 DEF Next, RunStep

\* When the LLM is asked nothing waits for a result.
LEMMA ConvAnswered == ASSUME TypeInv, ConvInv PROVE EveryCallAnswered
<1> SUFFICES ASSUME pc = "asking", NEW i \in 1..Len(conv)
             PROVE \/ /\ conv[i].role = "assistant" /\ native
                      /\ \A j \in 1..Len(conv[i].ids) :
                           /\ i + j <= Len(conv)
                           /\ conv[i + j] = [role |-> "tool", ids |-> <<conv[i].ids[j]>>]
                   \/ /\ conv[i].role = "tool" /\ native
                      /\ \A k \in 1..Len(conv) : k # i => conv[k] # conv[i]
                   \/ /\ ~native
                      /\ conv[i].role = IF i % 2 = 1 THEN "assistant" ELSE "user"
                      /\ Len(conv) % 2 = 0
  BY DEF EveryCallAnswered
<1>1. conv \in Seq(Entry) /\ calls = <<>> BY DEF TypeInv, TypeOK, ConvInv
<1>2. Len(conv) \in Nat /\ Len(calls) = 0 /\ conv[i] \in Entry BY <1>1
<1>3. CASE native /\ conv[i].role = "assistant"
  <2>1. ASSUME NEW j \in 1..Len(conv[i].ids)
        PROVE  i + j <= Len(conv) /\ conv[i + j] = [role |-> "tool", ids |-> <<conv[i].ids[j]>>]
    <3>1. Len(conv[i].ids) \in Nat BY <1>2 DEF Entry
    <3>2. j \in Nat \ {0} BY <3>1
    <3>3. IF i + j - Len(conv) <= 0 THEN conv[i + j] = Result(conv[i].ids[j])
          ELSE i + j - Len(conv) <= Len(calls)
      BY <1>3 DEF ConvInv, ResultsInOrder
    <3>4. i + j <= Len(conv) /\ conv[i + j] = Result(conv[i].ids[j])
      BY <1>2, <3>2, <3>3
    <3> QED BY <3>4 DEF Result
  <2> QED BY <1>3, <2>1
<1>4. CASE native /\ conv[i].role # "assistant"
  <2>1. ResultsOnce BY <1>4 DEF ConvInv
  <2>2. PICK c \in Call : conv[i] = Result(c) BY <1>4, <2>1 DEF ResultsOnce
  <2>3. conv[i].role = "tool" BY <2>2 DEF Result
  <2>4. \A k \in 1..Len(conv) : k # i => conv[k] # conv[i]
    BY <2>1, <2>3 DEF ResultsOnce
  <2> QED BY <1>4, <2>3, <2>4
<1>5. CASE ~native BY <1>5 DEF ConvInv, Alternating
<1> QED BY <1>3, <1>4, <1>5

\* ConversationOK: for any number of rounds and actions, whatever the LLM asks for and
\* the server does, each call has one result when the LLM is asked again.
THEOREM ConversationOKCorrect == Spec => []ConversationOK
<1> DEFINE Inv == TypeInv /\ PendingInv /\ ConvInv
<1>1. Init => Inv
  <2> SUFFICES ASSUME Init PROVE Inv OBVIOUS
  <2>1. McpInv
    <3>1. nextId \in 0..(MaxRequests + 1) /\ nextId <= MaxRequests /\ noise \in 0..MaxNoise
      BY McpAssumption DEF Init, McpInit
    <3>2. taken \in [request : 0..MaxRequests + 1, answer : 0..MaxRequests + 1]
      BY McpAssumption DEF Init, McpInit
    <3>3. stdout \in Seq([kind : {"response", "log", "request"}, id : RequestIds \cup {NoId}])
      BY DEF Init, McpInit
    <3> QED BY <3>1, <3>2, <3>3 DEF Init, McpInit, McpInv, McpTypeOK
  <2>2. TypeOK
    <3>1. step \in 0..MaxIterations BY AgentLoopAssumption DEF Init
    <3>2. conv \in Seq(Entry) /\ calls \in Seq((1..MaxIterations) \X (1..MaxCalls)) BY DEF Init
    <3> QED BY <2>1, <3>1, <3>2 DEF Init, TypeOK, McpInv, Pc
  <2>3. Len(conv) = 0 /\ Len(calls) = 0 BY DEF Init
  <2>4. ConvInv BY <2>3 DEF Init, ConvInv, Alternating
  <2> QED BY <2>1, <2>2, <2>4 DEF Init, TypeInv, PendingInv
<1>2. Inv /\ [Next]_vars => Inv' BY TypeStep, PendingStep, ConvStep
<1>3. Inv => ConversationOK BY ConvAnswered DEF ConversationOK, TypeInv
<1> QED BY <1>1, <1>2, <1>3, PTL DEF Spec

-----------------------------------------------------------------------------
(* The sandbox of the commands (module Territory).                         *)

\* Induction on numbers, in the form the provers can use: a nonempty set of them
\* has a least element.
LEMMA LeastNumber ==
  ASSUME NEW S \in SUBSET Nat, S # {}
  PROVE  \E n \in S : \A m \in S : n <= m
<1> DEFINE R == OpToRel(<, Nat)
<1>1. IsWellFoundedOn(R, Nat)
  BY NatLessThanWellFounded
<1>2. \A x, y \in Nat : x < y => <<x, y>> \in R
  BY DEF OpToRel
<1> HIDE DEF R
<1>3. \E n \in S : \A m \in S : <<m, n>> \notin R
  BY <1>1, WFMin
<1>4. PICK n \in S : \A m \in S : <<m, n>> \notin R
  BY <1>3
<1>5. ASSUME NEW m \in S
      PROVE  n <= m
  <2>1. ~(m < n)
    BY <1>2, <1>4
  <2>2. QED
    BY <2>1
<1>6. QED
  BY <1>5

\* A bounded nonempty set of numbers has a greatest element.
LEMMA GreatestNumber ==
  ASSUME NEW n \in Nat, NEW S \in SUBSET (0..n), S # {}
  PROVE  \E m \in S : \A k \in S : k <= m
<1> DEFINE Rest == {n - k : k \in S}
<1>0. \A k \in S : k \in Nat /\ n - k \in Nat
  OBVIOUS
<1>1. Rest \in SUBSET Nat /\ Rest # {}
  BY <1>0
<1>2. PICK d \in Rest : \A e \in Rest : d <= e
  <2> HIDE DEF Rest
  <2>1. QED
    BY <1>1, LeastNumber
<1>3. PICK m \in S : d = n - m
  BY <1>2
<1>4. \A k \in S : k <= m
  <2>1. TAKE k \in S
  <2>2. n - k \in Rest
    OBVIOUS
  <2>3. n - m <= n - k
    <3> HIDE DEF Rest
    <3>1. QED
      BY <1>2, <1>3, <2>2
  <2>4. QED
    BY <1>0, <2>3
<1>5. QED
  BY <1>4

LEMMA MaxIsGreatest ==
  ASSUME NEW n \in Nat, NEW S \in SUBSET (0..n), S # {}
  PROVE  Max(S) \in S /\ \A k \in S : k <= Max(S)
<1>1. \E m \in S : \A k \in S : m >= k
  BY GreatestNumber
<1>2. QED
  BY <1>1 DEF Max

\* The sequence made of a finite set has its elements.
LEMMA SetToSeqRange ==
  ASSUME NEW S, IsFiniteSet(S)
  PROVE  /\ SetToSeq(S) \in [1..Cardinality(S) -> S]
         /\ SetToSeq(S) \in Seq(S) /\ Len(SetToSeq(S)) = Cardinality(S)
         /\ \A e \in S : \E i \in 1..Cardinality(S) : SetToSeq(S)[i] = e
         /\ Cardinality(S) \in Nat
<1> DEFINE n == Cardinality(S)
<1>1. n \in Nat /\ \E f \in [1..n -> S] : f \in Bijection(1..n, S)
  BY FS_CardinalityType DEF ExistsBijection, Bijection, Injection
<1>2. \E f \in [1..n -> S] : IsInjective(f)
  BY <1>1 DEF Bijection, Injection, IsInjective
<1>3. SetToSeq(S) \in [1..n -> S] /\ IsInjective(SetToSeq(S))
  BY <1>2 DEF SetToSeq
<1>4. SetToSeq(S) \in Injection(1..n, S)
  BY <1>3 DEF Injection, IsInjective
<1>5. IsFiniteSet(1..n) /\ Cardinality(1..n) = n
  BY <1>1, FS_Interval
<1>6. SetToSeq(S) \in Surjection(1..n, S)
  BY <1>4, <1>5, FS_Injection
<1>7. SetToSeq(S) \in Seq(S)
  BY <1>1, <1>3, SeqDef
<1>8. Len(SetToSeq(S)) = n
  BY <1>1, <1>3, <1>7, LenProperties
<1>9. QED
  BY <1>1, <1>3, <1>6, <1>7, <1>8 DEF Surjection

\* What one path is to another, by their components.
LEMMA PrefixOf ==
  ASSUME NEW s \in Seq(Components), NEW t \in Seq(Components)
  PROVE  IsPrefix(s, t) <=> Len(s) <= Len(t) /\ \A i \in 1..Len(s) : s[i] = t[i]
BY DEF IsPrefix

LEMMA RootIsPrefix ==
  ASSUME NEW t \in Seq(Components)
  PROVE  IsPrefix(<<>>, t)
<1>1. SubSeq(<<>>, 1, 0) = <<>> /\ SubSeq(t, 1, 0) = <<>>
  BY SubSeqEmpty
<1>2. Len(<<>>) = 0 /\ Len(t) \in Nat
  OBVIOUS
<1>3. QED
  BY <1>1, <1>2 DEF IsPrefix

\* Of two folders on the way to one path the longer is in the shorter.
LEMMA Nested ==
  ASSUME NEW s \in Seq(Components), NEW t \in Seq(Components), NEW p \in Seq(Components),
         IsPrefix(s, p), IsPrefix(t, p), Len(s) <= Len(t)
  PROVE  IsPrefix(s, t)
<1>1. \A i \in 1..Len(s) : s[i] = p[i] /\ t[i] = p[i]
  BY PrefixOf
<1>2. QED
  BY <1>1, PrefixOf

\* Names, paths and folders are sequences of components.
LEMMA FolderPath ==
  ASSUME SetOK, NEW g \in agents
  PROVE  g.name \in Seq(Components) /\ Folder(g) \in Seq(Components)
<1>1. g.name \in AgentNames
  BY DEF SetOK, Agent
<1>2. g.name \in Seq(Components) /\ <<>> \in Seq(Components)
  BY <1>1, TerritoryAssumption
<1>3. QED
  BY <1>2 DEF Folder

\* The folders that are left out are names of agents, and there are finitely many.
LEMMA ExcludesFinite ==
  ASSUME SetOK, NEW g \in agents
  PROVE  /\ Excludes(agents, g) \subseteq Seq(Components)
         /\ IsFiniteSet({Bind(e, "ro") : e \in Excludes(agents, g)})
<1> DEFINE Nearest == {h \in Inside(agents, g) :
                         ~ \E other \in Inside(agents, g) \ {h} : Below(other.name, h.name)}
<1>1. Nearest \subseteq agents
  BY DEF Inside
<1>2. IsFiniteSet(Nearest)
  BY <1>1, FS_Subset DEF SetOK
<1>3. Excludes(agents, g) = {h.name : h \in Nearest}
  BY DEF Excludes
<1>4. Excludes(agents, g) \subseteq Seq(Components)
  BY <1>1, <1>3, FolderPath
<1> DEFINE S == {Bind(e, "ro") : e \in Excludes(agents, g)}
           mount == [h \in Nearest |-> Bind(h.name, "ro")]
<1>5. mount \in Surjection(Nearest, S)
  BY <1>3 DEF Surjection
<1>6. IsFiniteSet(S)
  <2> HIDE DEF mount, S, Nearest
  <2>1. QED
    BY <1>2, <1>5, FS_Surjection
<1>7. QED
  BY <1>4, <1>6

\* The mounts from the first to the last.
LEMMA MountsAre ==
  ASSUME SetOK, NEW g \in agents
  PROVE  \E n \in Nat :
           LET skip == IF Folder(g) = <<>> THEN 0 ELSE 2
               mounts == Mounts(agents, g) IN
           /\ DOMAIN mounts = 1..(skip + n)
           /\ skip = 2 => mounts[1] = Bind(<<>>, "ro") /\ mounts[2] = Bind(Folder(g), "rw")
           /\ \A i \in (skip + 1)..(skip + n) :
                \E e \in Excludes(agents, g) : mounts[i] = Bind(e, "ro")
           /\ \A e \in Excludes(agents, g) :
                \E i \in (skip + 1)..(skip + n) : mounts[i] = Bind(e, "ro")
<1> DEFINE S == {Bind(e, "ro") : e \in Excludes(agents, g)}
           excluded == SetToSeq(S)
           n == Cardinality(S)
<1>1. IsFiniteSet(S)
  BY ExcludesFinite
<1>2. /\ excluded \in [1..n -> S] /\ n \in Nat
      /\ \A b \in S : \E i \in 1..n : excluded[i] = b
      /\ excluded \in Seq(S) /\ Len(excluded) = n
  <2> HIDE DEF S
  <2>1. QED
    BY <1>1, SetToSeqRange
<1>3. Mounts(agents, g) = IF Folder(g) = <<>> THEN excluded
                          ELSE <<Bind(<<>>, "ro"), Bind(Folder(g), "rw")>> \o excluded
  BY DEF Mounts
<1>4. \A i \in 1..n : \E e \in Excludes(agents, g) : excluded[i] = Bind(e, "ro")
  BY <1>2
<1>5. \A e \in Excludes(agents, g) : \E i \in 1..n : excluded[i] = Bind(e, "ro")
  BY <1>2
<1> HIDE DEF excluded, n, S
<1> DEFINE skip   == IF Folder(g) = <<>> THEN 0 ELSE 2
           mounts == Mounts(agents, g)
<1>6. SUFFICES
        /\ DOMAIN mounts = 1..(skip + n)
        /\ skip = 2 => mounts[1] = Bind(<<>>, "ro") /\ mounts[2] = Bind(Folder(g), "rw")
        /\ \A i \in (skip + 1)..(skip + n) :
             \E e \in Excludes(agents, g) : mounts[i] = Bind(e, "ro")
        /\ \A e \in Excludes(agents, g) :
             \E i \in (skip + 1)..(skip + n) : mounts[i] = Bind(e, "ro")
  BY <1>2
<1>7. CASE Folder(g) = <<>>
  <2>1. mounts = excluded /\ skip = 0
    BY <1>3, <1>7
  <2> HIDE DEF mounts, skip
  <2>2. DOMAIN mounts = 1..n /\ 0 + 1 = 1 /\ 0 + n = n
    BY <1>2, <2>1
  <2>3. QED
    BY <1>4, <1>5, <2>1, <2>2
<1>8. CASE Folder(g) # <<>>
  <2> DEFINE two == <<Bind(<<>>, "ro"), Bind(Folder(g), "rw")>>
  <2>1. mounts = two \o excluded
    BY <1>3, <1>8
  <2>2. /\ DOMAIN mounts = 1..(2 + n)
        /\ mounts[1] = Bind(<<>>, "ro") /\ mounts[2] = Bind(Folder(g), "rw")
        /\ \A i \in 3..(2 + n) : mounts[i] = excluded[i - 2]
    BY <1>2, <2>1
  <2> HIDE DEF mounts
  <2>3. \A i \in 3..(2 + n) : \E e \in Excludes(agents, g) : mounts[i] = Bind(e, "ro")
    BY <1>2, <1>4, <2>2
  <2>4. \A e \in Excludes(agents, g) : \E i \in 3..(2 + n) : mounts[i] = Bind(e, "ro")
    <3>1. TAKE e \in Excludes(agents, g)
    <3>2. PICK i \in 1..n : excluded[i] = Bind(e, "ro")
      BY <1>5
    <3>3. mounts[i + 2] = Bind(e, "ro") /\ i + 2 \in 3..(2 + n)
      BY <1>2, <2>2, <3>2
    <3>4. QED
      BY <3>3
  <2>5. skip = 2
    BY <1>8
  <2> HIDE DEF skip
  <2>6. 2 + 1 = 3
    OBVIOUS
  <2>7. QED
    BY <2>2, <2>3, <2>4, <2>5, <2>6
<1>9. QED
  BY <1>7, <1>8

\* The last mount over a path decides whether it is in the territory.
LEMMA SandboxInv ==
  ASSUME SetOK
  PROVE  SandboxKeepsTerritory
<1> SUFFICES ASSUME NEW g \in agents, NEW path \in Paths
             PROVE  Writable(agents, g, path) <=> Owns(agents, g, path)
  BY DEF SandboxKeepsTerritory
<1> DEFINE mounts == Mounts(agents, g)
           skip   == IF Folder(g) = <<>> THEN 0 ELSE 2
           over   == {i \in DOMAIN mounts : IsPrefix(mounts[i].path, path)}
           out    == \E e \in Excludes(agents, g) : IsPrefix(e, path)
<1>1. PICK n \in Nat :
        /\ DOMAIN mounts = 1..(skip + n)
        /\ skip = 2 => mounts[1] = Bind(<<>>, "ro") /\ mounts[2] = Bind(Folder(g), "rw")
        /\ \A i \in (skip + 1)..(skip + n) :
             \E e \in Excludes(agents, g) : mounts[i] = Bind(e, "ro")
        /\ \A e \in Excludes(agents, g) :
             \E i \in (skip + 1)..(skip + n) : mounts[i] = Bind(e, "ro")
  BY MountsAre
<1>2. path \in Seq(Components) /\ <<>> \in Seq(Components) /\ IsPrefix(<<>>, path)
  <2>1. path \in Seq(Components) /\ <<>> \in Seq(Components)
    BY TerritoryAssumption, EmptySeq
  <2>2. QED
    BY <2>1, RootIsPrefix
<1>3. Writable(agents, g, path) <=> over = {} \/ mounts[Max(over)].mode = "rw"
  BY DEF Writable
<1>4. Owns(agents, g, path) <=> IsPrefix(Folder(g), path) /\ ~out
  BY DEF Owns
<1>5. over \in SUBSET (0..(skip + n)) /\ skip + n \in Nat /\ skip \in {0, 2}
  BY <1>1
<1>6. over # {} => Max(over) \in over /\ \A k \in over : k <= Max(over)
  <2> HIDE DEF over, skip
  <2>1. QED
    BY <1>5, MaxIsGreatest
<1>7. \A e, mode : Bind(e, mode).path = e /\ Bind(e, mode).mode = mode
  BY DEF Bind
<1>8. \A i \in (skip + 1)..(skip + n) : mounts[i].mode = "ro" /\ (i \in over => out)
  BY <1>1, <1>7
<1>9. out => \E i \in (skip + 1)..(skip + n) : i \in over
  BY <1>1, <1>7
<1> HIDE DEF mounts
<1>10. CASE skip = 0
  <2>1. Folder(g) = <<>>
    BY <1>10
  <2>2. over # {} => Max(over) \in (skip + 1)..(skip + n)
    BY <1>1, <1>6, <1>10
  <2> HIDE DEF over, out
  <2>3. over = {} <=> ~out
    BY <1>1, <1>8, <1>9, <1>10, <2>2, <1>6
  <2>4. over # {} => mounts[Max(over)].mode = "ro"
    BY <1>8, <2>2
  <2>5. QED
    BY <1>2, <1>3, <1>4, <2>1, <2>3, <2>4
<1>11. CASE skip = 2
  <2>1. 1 \in over /\ mounts[1].mode = "ro"
    BY <1>1, <1>2, <1>7, <1>11
  <2>2. 2 \in over <=> IsPrefix(Folder(g), path)
    BY <1>1, <1>7, <1>11
  <2>3. mounts[2].mode = "rw"
    BY <1>1, <1>7, <1>11
  <2>4. Max(over) \in over /\ over \subseteq 1..(2 + n) /\ \A k \in over : k <= Max(over)
    BY <1>1, <1>6, <1>11, <2>1
  <2> HIDE DEF over, out, skip
  <2>5. CASE out
    <3>1. Max(over) \in 3..(2 + n)
      <4>1. PICK i \in 3..(2 + n) : i \in over
        BY <1>9, <1>11, <2>5
      <4>2. i <= Max(over) /\ Max(over) \in 1..(2 + n)
        BY <2>4, <4>1
      <4>3. QED
        BY <4>1, <4>2
    <3>2. QED
      BY <1>3, <1>4, <1>8, <1>11, <2>1, <2>5, <3>1
  <2>6. CASE ~out
    <3>1. Max(over) \in {1, 2}
      <4>1. PICK m : m = Max(over)
        OBVIOUS
      <4>2. m \in over /\ m \in 1..(2 + n) /\ n \in Nat
        BY <1>1, <2>4, <4>1
      <4>3. m \notin 3..(2 + n)
        BY <1>8, <1>11, <2>6, <4>2
      <4>4. QED
        BY <4>1, <4>2, <4>3
    <3>2. Max(over) = 2 <=> 2 \in over
      BY <2>4, <3>1
    <3>3. QED
      BY <1>3, <1>4, <2>1, <2>2, <2>3, <2>6, <3>1, <3>2
  <2>7. QED
    BY <2>5, <2>6
<1>12. QED
  BY <1>5, <1>10, <1>11

\* Of the agents that have the path in their folder, or below it, one has the deepest.
LEMMA NearestInside ==
  ASSUME SetOK, NEW g \in agents, NEW path \in Seq(Components),
         NEW h \in Inside(agents, g), IsPrefix(h.name, path)
  PROVE  \E e \in Excludes(agents, g) : IsPrefix(e, path)
<1> DEFINE Way     == {k \in Inside(agents, g) : IsPrefix(k.name, path)}
           Lengths == {Len(k.name) : k \in Way}
<1>1. Way \subseteq agents /\ \A k \in Way : k.name \in Seq(Components)
  BY FolderPath DEF Inside
<1>2. Lengths \in SUBSET Nat /\ Lengths # {}
  <2>1. \A k \in Way : Len(k.name) \in Nat
    BY <1>1, LenProperties
  <2>2. h \in Way
    OBVIOUS
  <2> HIDE DEF Way
  <2>3. QED
    BY <2>1, <2>2
<1>3. PICK n \in Lengths : \A m \in Lengths : n <= m
  <2> HIDE DEF Lengths
  <2>1. QED
    BY <1>2, LeastNumber
<1>4. PICK k \in Way : Len(k.name) = n
  BY <1>3
<1>5. \A other \in Way : Len(k.name) <= Len(other.name)
  BY <1>3, <1>4
<1>6. ASSUME NEW other \in Inside(agents, g) \ {k}, Below(other.name, k.name)
      PROVE  FALSE
  <2>1. /\ other \in agents /\ k \in agents
        /\ other.name \in Seq(Components) /\ k.name \in Seq(Components)
    BY <1>1, <1>6, FolderPath DEF Inside
  <2>2. IsPrefix(other.name, k.name)
    BY <1>6, <2>1, RootIsPrefix DEF Below, IsStrictPrefix
  <2>3. IsPrefix(other.name, path) /\ Len(other.name) <= Len(k.name)
    BY <1>4, <2>1, <2>2, PrefixOf
  <2>4. Len(other.name) = Len(k.name)
    BY <1>5, <2>1, <2>3
  <2>5. other.name = k.name
    BY <2>1, <2>2, <2>4, PrefixOf, SeqEqual
  <2>6. QED
    BY <1>6, <2>1, <2>5 DEF SetOK
<1>7. k.name \in Excludes(agents, g)
  BY <1>4, <1>6 DEF Excludes
<1>8. QED
  BY <1>4, <1>7

\* Two agents that own one path are the same or are both roots.
LEMMA OwnersClash ==
  ASSUME SetOK, NEW g \in agents, NEW h \in agents, NEW path \in Seq(Components),
         Owns(agents, g, path), Owns(agents, h, path), ~h.root,
         g.root \/ Len(g.name) <= Len(h.name)
  PROVE  g = h
<1> SUFFICES ASSUME g # h
             PROVE  FALSE
  OBVIOUS
<1>1. /\ g.name \in Seq(Components) /\ h.name \in Seq(Components)
      /\ IsPrefix(Folder(g), path) /\ IsPrefix(h.name, path)
  BY FolderPath DEF Owns, Folder
<1>2. Below(Folder(g), h.name)
  <2>1. CASE g.root
    BY <2>1 DEF Below, Folder
  <2>2. CASE ~g.root
    <3>1. IsPrefix(g.name, h.name)
      BY <1>1, <2>2, Nested DEF Folder
    <3>2. g.name # h.name
      BY DEF SetOK
    <3>3. QED
      BY <2>2, <3>1, <3>2 DEF Below, Folder, IsStrictPrefix
  <2>3. QED
    BY <2>1, <2>2
<1>3. h \in Inside(agents, g)
  BY <1>2 DEF Inside
<1>4. \E e \in Excludes(agents, g) : IsPrefix(e, path)
  BY <1>1, <1>3, NearestInside
<1>5. QED
  BY <1>4 DEF Owns

LEMMA OneOwner ==
  ASSUME SetOK, NEW g \in agents, NEW h \in agents, NEW path \in Seq(Components),
         Owns(agents, g, path), Owns(agents, h, path)
  PROVE  g = h \/ (g.root /\ h.root)
<1>1. Len(g.name) \in Nat /\ Len(h.name) \in Nat
  BY FolderPath
<1>2. g.root \in BOOLEAN /\ h.root \in BOOLEAN
  BY DEF SetOK, Agent
<1>3. CASE ~h.root /\ (g.root \/ Len(g.name) <= Len(h.name))
  BY <1>3, OwnersClash
<1>4. CASE ~g.root /\ (h.root \/ Len(h.name) <= Len(g.name))
  BY <1>4, OwnersClash
<1>5. Len(g.name) <= Len(h.name) \/ Len(h.name) <= Len(g.name)
  BY <1>1
<1>6. QED
  <2>1. CASE g.root /\ h.root
    BY <2>1
  <2>2. CASE g.root /\ ~h.root
    BY <1>3, <2>2
  <2>3. CASE ~g.root /\ h.root
    BY <1>4, <2>3
  <2>4. CASE ~g.root /\ ~h.root
    BY <1>3, <1>4, <1>5, <2>4, Zenon
  <2>5. QED
    BY <2>1, <2>2, <2>3, <2>4

\* With one root, whose label is not below another folder, somebody owns the path: the
\* agent whose folder on the way to it is deepest.
LEMMA SomeOwner ==
  ASSUME SetOK, NEW path \in Seq(Components), NEW r \in agents, r.root,
         \A g \in agents \ {r} : ~g.root /\ ~Below(g.name, r.name)
  PROVE  \E g \in agents : Owns(agents, g, path)
<1> DEFINE Way     == {k \in agents : IsPrefix(Folder(k), path)}
           Lengths == {Len(Folder(k)) : k \in Way}
<1>1. \A k \in agents : /\ k.name \in Seq(Components) /\ Folder(k) \in Seq(Components)
                        /\ Len(Folder(k)) \in Nat
  BY FolderPath
<1>2. Folder(r) = <<>> /\ r \in Way
  BY RootIsPrefix DEF Folder
<1>3. Lengths \in SUBSET (0..Len(path)) /\ Lengths # {} /\ Len(path) \in Nat
  <2>1. \A k \in Way : Len(Folder(k)) <= Len(path)
    BY DEF IsPrefix
  <2>2. Len(path) \in Nat
    BY LenProperties
  <2>3. \A k \in Way : Len(Folder(k)) \in 0..Len(path)
    BY <1>1, <2>1, <2>2
  <2> HIDE DEF Way
  <2>4. QED
    BY <1>2, <2>2, <2>3
<1>4. PICK n \in Lengths : \A m \in Lengths : m <= n
  <2> HIDE DEF Lengths
  <2>1. QED
    BY <1>3, GreatestNumber
<1>5. PICK g \in Way : Len(Folder(g)) = n
  BY <1>4
<1>6. \A k \in Way : Len(Folder(k)) <= Len(Folder(g))
  BY <1>4, <1>5
<1>7. ASSUME NEW h \in Inside(agents, g), IsPrefix(h.name, path)
      PROVE  FALSE
  <2>1. h \in agents /\ h # g /\ Below(Folder(g), h.name)
    BY <1>7 DEF Inside
  <2>2. CASE h = r
    <3>1. ~g.root /\ ~Below(g.name, r.name)
      BY <2>1, <2>2
    <3>2. QED
      BY <2>1, <2>2, <3>1 DEF Folder
  <2>3. CASE h # r
    <3>1. ~h.root /\ ~Below(h.name, r.name)
      BY <2>1, <2>3
    <3>2. Folder(h) = h.name /\ h \in Way
      BY <1>7, <2>1, <3>1 DEF Folder
    <3>3. Len(h.name) <= Len(Folder(g))
      BY <1>6, <3>2
    <3>4. h.name # <<>>
      BY <3>1 DEF Below
    <3>5. Folder(g) # <<>>
      BY <1>1, <2>1, <3>3, <3>4, EmptySeq
    <3>6. IsPrefix(Folder(g), h.name) /\ Folder(g) # h.name
      BY <2>1, <3>5 DEF Below, IsStrictPrefix
    <3>7. Len(Folder(g)) = Len(h.name)
      BY <1>1, <2>1, <3>3, <3>6 DEF IsPrefix
    <3>8. QED
      BY <1>1, <2>1, <3>6, <3>7, PrefixOf, SeqEqual
  <2>4. QED
    BY <2>2, <2>3
<1>8. \A e \in Excludes(agents, g) : ~IsPrefix(e, path)
  BY <1>7 DEF Excludes
<1>9. QED
  BY <1>5, <1>8 DEF Owns

LEMMA OneWriterInv ==
  ASSUME SetOK
  PROVE  OneWriterPerPath
<1> SUFFICES ASSUME NEW path \in Paths
             PROVE  /\ \A g, h \in Writers(agents, path) : g = h \/ (g.root /\ h.root)
                    /\ \A r \in agents :
                         r.root /\ (\A g \in agents \ {r} : ~g.root /\ ~Below(g.name, r.name)) =>
                           Cardinality(Writers(agents, path)) = 1
  BY DEF OneWriterPerPath
<1>1. path \in Seq(Components)
  BY TerritoryAssumption
<1>2. Writers(agents, path) = {g \in agents : Owns(agents, g, path)}
  BY SandboxInv DEF Writers, SandboxKeepsTerritory
<1>3. \A g, h \in Writers(agents, path) : g = h \/ (g.root /\ h.root)
  BY <1>1, <1>2, OneOwner
<1>4. ASSUME NEW r \in agents, r.root,
             \A g \in agents \ {r} : ~g.root /\ ~Below(g.name, r.name)
      PROVE  Cardinality(Writers(agents, path)) = 1
  <2>1. PICK g \in Writers(agents, path) : TRUE
    BY <1>1, <1>2, <1>4, SomeOwner
  <2>2. \A h \in Writers(agents, path) : h = g
    <3>1. TAKE h \in Writers(agents, path)
    <3>2. h = g \/ (h.root /\ g.root)
      BY <1>3
    <3>3. g \in agents /\ h \in agents
      BY <1>2
    <3>4. QED
      BY <1>4, <3>2, <3>3
  <2>3. Writers(agents, path) = {g}
    BY <2>2
  <2>4. QED
    BY <2>3, FS_Singleton
<1>5. QED
  BY <1>3, <1>4

\* Saving a set keeps it finite and its names unique.
LEMMA SetStep ==
  ASSUME SetOK, [NextTerritory]_agents
  PROVE  SetOK'
<1> SUFFICES ASSUME NextTerritory
             PROVE  SetOK'
  BY DEF SetOK
<1>1. ASSUME NEW hs \in SUBSET agents, NEW isRoot \in BOOLEAN
      PROVE  /\ IsFiniteSet(SetRoot(hs, isRoot)) /\ SetRoot(hs, isRoot) \subseteq Agent
             /\ \A h \in SetRoot(hs, isRoot) : \E k \in hs : k.name = h.name
             /\ \A h, k \in SetRoot(hs, isRoot) : h.name = k.name => h = k
  <2> DEFINE T == SetRoot(hs, isRoot)
             f == [h \in hs |-> [h EXCEPT !.root = isRoot]]
  <2>1. T = {[h EXCEPT !.root = isRoot] : h \in hs}
    BY DEF SetRoot
  <2>2. \A h \in hs : /\ h \in Agent /\ [h EXCEPT !.root = isRoot] \in Agent
                      /\ [h EXCEPT !.root = isRoot].name = h.name
                      /\ [h EXCEPT !.root = isRoot].root = isRoot
    BY DEF SetOK, Agent
  <2>3. IsFiniteSet(hs)
    BY FS_Subset DEF SetOK
  <2>4. f \in Surjection(hs, T)
    BY <2>1 DEF Surjection
  <2>5. IsFiniteSet(T)
    <3> HIDE DEF T, f
    <3>1. QED
      BY <2>3, <2>4, FS_Surjection
  <2>6. \A h \in T : h \in Agent /\ \E k \in hs : k.name = h.name
    BY <2>1, <2>2
  <2>7. ASSUME NEW h \in T, NEW k \in T, h.name = k.name
        PROVE  h = k
    <3>1. PICK a \in hs, b \in hs : /\ h = [a EXCEPT !.root = isRoot]
                                    /\ k = [b EXCEPT !.root = isRoot]
      BY <2>1
    <3>2. a.name = b.name
      BY <2>2, <2>7, <3>1
    <3>3. a = b
      BY <3>2 DEF SetOK
    <3>4. QED
      BY <3>1, <3>3
  <2>8. QED
    BY <2>5, <2>6, <2>7
<1>2. ASSUME NEW g \in Agent, NEW children \in SUBSET agents, AddAgent(g, children)
      PROVE  SetOK'
  <2> DEFINE T == SetRoot(children, FALSE)
  <2>1. IsFiniteSet(agents \ children) /\ IsFiniteSet({g} \cup (agents \ children))
    <3>1. IsFiniteSet(agents \ children) /\ IsFiniteSet({g})
      BY FS_Subset, FS_Singleton DEF SetOK
    <3>2. QED
      BY <3>1, FS_Union
  <2>2. IsFiniteSet(agents')
    BY <1>1, <1>2, <2>1, FS_Union DEF AddAgent
  <2>3. \A h \in agents' : h = g \/ h \in agents \ children \/ h \in T
    BY <1>2 DEF AddAgent
  <2>4. /\ T \subseteq Agent /\ \A h \in T : \E k \in children : k.name = h.name
        /\ \A h, k \in T : h.name = k.name => h = k
    BY <1>1
  <2> HIDE DEF T
  <2>5. \A h \in agents \cup T : h.name # g.name
    BY <1>2, <2>4 DEF AddAgent, Names
  <2>6. \A h, k \in agents' : h.name = k.name => h = k
    BY <2>3, <2>4, <2>5 DEF SetOK
  <2>7. agents' \subseteq Agent
    BY <2>3, <2>4 DEF SetOK
  <2>8. QED
    BY <2>2, <2>6, <2>7 DEF SetOK
<1>3. ASSUME NEW g \in Agent, NEW children \in SUBSET agents, RemoveAgent(g, children)
      PROVE  SetOK'
  <2> DEFINE T == SetRoot(children, TRUE)
             rest == agents \ ({g} \cup children)
  <2>1. IsFiniteSet(rest)
    BY FS_Subset DEF SetOK
  <2>2. IsFiniteSet(agents')
    BY <1>1, <1>3, <2>1, FS_Union DEF RemoveAgent
  <2>3. \A h \in agents' : h \in rest \/ h \in T
    BY <1>3 DEF RemoveAgent
  <2>4. /\ T \subseteq Agent /\ \A h \in T : \E k \in children : k.name = h.name
        /\ \A h, k \in T : h.name = k.name => h = k
    BY <1>1
  <2> HIDE DEF T
  <2>5. \A h, k \in agents' : h.name = k.name => h = k
    BY <2>3, <2>4 DEF SetOK
  <2>6. agents' \subseteq Agent
    BY <2>3, <2>4 DEF SetOK
  <2>7. QED
    BY <2>2, <2>5, <2>6 DEF SetOK
<1>4. QED
  BY <1>2, <1>3 DEF NextTerritory

\* Whatever agents are added to a set and removed from it, the sandbox of each of them
\* lets it write exactly in its territory (scope.rs, territory_for_list and
\* sandbox_command), for any number of agents and any nesting of their folders.
THEOREM SandboxKeepsTerritoryCorrect == SpecTerritory => []SandboxKeepsTerritory
<1>1. InitTerritory => SetOK
  BY FS_EmptySet DEF InitTerritory, SetOK
<1>2. SetOK /\ [NextTerritory]_agents => SetOK'
  BY SetStep
<1>3. SetOK => SandboxKeepsTerritory
  BY SandboxInv
<1>4. QED
  BY <1>1, <1>2, <1>3, PTL DEF SpecTerritory

\* Two agents write to one path only if both are roots, and with one root every path
\* has exactly one writer: the territories of a set divide the project.
THEOREM OneWriterPerPathCorrect == SpecTerritory => []OneWriterPerPath
<1>1. InitTerritory => SetOK
  BY FS_EmptySet DEF InitTerritory, SetOK
<1>2. SetOK /\ [NextTerritory]_agents => SetOK'
  BY SetStep
<1>3. SetOK => OneWriterPerPath
  BY OneWriterInv
<1>4. QED
  BY <1>1, <1>2, <1>3, PTL DEF SpecTerritory

-----------------------------------------------------------------------------
(* The context of a run (module Context).                                  *)

\* f starts with base and goes on by step.
Recurs(f, N, base, goOn) ==
  f[0] = base /\ \A n \in 1..N : f[n] = goOn[<<f[n - 1], n>>]

\* A recursive definition over the numbers up to N has a solution.
LEMMA Recursion ==
  ASSUME NEW N \in Nat, NEW X, NEW base \in X, NEW goOn \in [X \X (1..N) -> X]
  PROVE  \E f \in [0..N -> X] : Recurs(f, N, base, goOn)
<1> DEFINE Solves(f, k) == /\ f \in [0..k -> X] /\ f[0] = base
                           /\ \A n \in 1..k : f[n] = goOn[<<f[n - 1], n>>]
           Bad == {k \in 0..N : ~ \E f : Solves(f, k)}
<1>1. Bad = {}
  <2> SUFFICES ASSUME Bad # {} PROVE FALSE
    OBVIOUS
  <2>1. Bad \in SUBSET Nat
    OBVIOUS
  <2>2. PICK k \in Bad : \A m \in Bad : k <= m
    BY <2>1, LeastNumber
  <2>3. CASE k = 0
    <3>1. Solves([n \in 0..0 |-> base], 0)
      OBVIOUS
    <3> QED
      BY <2>2, <2>3, <3>1
  <2>4. CASE k # 0
    <3>1. k - 1 \in 0..N /\ k \in 1..N /\ k - 1 \notin Bad
      <4>1. k \in 0..N
        BY <2>2
      <4>2. k - 1 \in 0..N /\ k \in 1..N /\ ~(k <= k - 1)
        BY <2>4, <4>1
      <4>3. k - 1 \notin Bad
        <5> HIDE DEF Bad
        <5> QED
          BY <2>2, <4>2
      <4> QED
        BY <4>2, <4>3
    <3>2. PICK g : Solves(g, k - 1)
      BY <3>1
    <3> DEFINE f == [n \in 0..k |-> IF n < k THEN g[n] ELSE goOn[<<g[k - 1], k>>]]
    <3>3. g[k - 1] \in X /\ goOn[<<g[k - 1], k>>] \in X
      BY <3>1, <3>2
    <3>4. f \in [0..k -> X]
      BY <3>1, <3>2, <3>3
    <3>5. f[0] = base
      BY <3>1, <3>2
    <3>6. ASSUME NEW n \in 1..k PROVE f[n] = goOn[<<f[n - 1], n>>]
      <4>1. CASE n < k
        BY <3>1, <3>2, <4>1
      <4>2. CASE n = k
        <5>1. f[k] = goOn[<<g[k - 1], k>>] /\ f[k - 1] = g[k - 1]
          BY <3>1
        <5> QED
          BY <4>2, <5>1
      <4> QED
        BY <3>1, <4>1, <4>2
    <3>7. Solves(f, k)
      BY <3>4, <3>5, <3>6
    <3> QED
      BY <2>2, <3>7
  <2> QED
    BY <2>3, <2>4
<1>2. N \in 0..N
  OBVIOUS
<1>3. PICK f : Solves(f, N)
  BY <1>1, <1>2
<1> QED
  BY <1>3 DEF Recurs

\* What holds first and is kept from one number to the next holds up to N.
LEMMA UpTo ==
  ASSUME NEW N \in Nat, NEW Good \in SUBSET Nat, 0 \in Good,
         \A n \in 1..N : n - 1 \in Good => n \in Good
  PROVE  0..N \subseteq Good
<1> DEFINE Bad == (0..N) \ Good
<1> SUFFICES ASSUME Bad # {} PROVE FALSE
  OBVIOUS
<1>0. Bad \in SUBSET Nat
  OBVIOUS
<1>1. PICK k \in Bad : \A m \in Bad : k <= m
  <2> HIDE DEF Bad
  <2> QED
    BY <1>0, LeastNumber
<1>2. k \in 1..N /\ k - 1 \in Good
  BY <1>1
<1> QED
  BY <1>1, <1>2

Parts == [message : Nat, marked : BOOLEAN, output : BOOLEAN, size : Nat]
Accs == [units : Seq(Parts), used : Nat, ownSteps : Nat, cut : BOOLEAN]
Step(i) == IF IsCall(chat[i]) THEN 1 ELSE 0

LEMMA UnitType ==
  ASSUME chat \in Seq(Kinds), NEW i \in DOMAIN chat, NEW id, NEW output \in BOOLEAN
  PROVE  /\ Unit(i, id, output) \in Parts /\ Unit(i, id, output).message = i
         /\ Unit(i, id, output).marked <=> (~chat[i].own /\ i = id)
         /\ Unit(i, id, output).output <=> (IsCall(chat[i]) /\ output)
<1> DEFINE m == chat[i]
           size == m.body + (IF ~IsCall(m) THEN 0 ELSE IF output THEN m.hidden ELSE Omitted)
           own == ~m.own /\ i = id
           out == IsCall(m) /\ output
<1>1. m \in [own : BOOLEAN, call : BOOLEAN, body : Nat, hidden : Nat] /\ i \in Nat
  BY ContextAssumption
<1>2. size \in Nat
  BY <1>1, ContextAssumption
<1>3. own \in BOOLEAN /\ out \in BOOLEAN
  BY <1>1 DEF IsCall
<1>4. Unit(i, id, output) = [message |-> i, marked |-> own, output |-> out, size |-> size]
  BY DEF Unit
<1> HIDE DEF size, own, out
<1>5. [message |-> i, marked |-> own, output |-> out, size |-> size] \in Parts
  BY <1>1, <1>2, <1>3 DEF Parts
<1>6. /\ Unit(i, id, output) \in Parts /\ Unit(i, id, output).message = i
      /\ Unit(i, id, output).marked = own /\ Unit(i, id, output).output = out
  BY <1>4, <1>5
<1> QED
  BY <1>6 DEF own, out

LEMMA TurnFields ==
  ASSUME chat \in Seq(Kinds), NEW acc \in Accs, NEW i \in DOMAIN chat, NEW id,
         NEW own, own = acc.ownSteps + Step(i),
         NEW unit, unit = Unit(i, id, KeepsOutput(own)),
         NEW now, now = Turn(acc, i, id)
  PROVE  /\ now \in Accs /\ unit \in Parts /\ own \in Nat
         /\ acc.cut \/ ~Takes(acc, unit) =>
              now.cut /\ now.units = acc.units /\ now.used = acc.used
         /\ ~(acc.cut \/ ~Takes(acc, unit)) =>
              /\ ~now.cut /\ now.units = <<unit>> \o acc.units
              /\ now.used = acc.used + unit.size /\ now.ownSteps = own
<1>1. /\ acc.units \in Seq(Parts) /\ acc.used \in Nat /\ acc.ownSteps \in Nat
      /\ acc.cut \in BOOLEAN
  BY DEF Accs
<1>2. own \in Nat /\ KeepsOutput(own) \in BOOLEAN
  BY <1>1 DEF Step, KeepsOutput
<1>3. unit \in Parts
  BY <1>2, UnitType
<1>4. unit.size \in Nat
  BY <1>3 DEF Parts
<1>5. CASE acc.cut \/ ~Takes(acc, unit)
  <2>1. now = [acc EXCEPT !.cut = TRUE]
    BY <1>5 DEF Turn, Step
  <2>2. now \in Accs /\ now.cut = TRUE /\ now.units = acc.units /\ now.used = acc.used
    BY <2>1, <1>1 DEF Accs
  <2> QED
    BY <1>2, <1>3, <1>5, <2>2
<1>6. CASE ~(acc.cut \/ ~Takes(acc, unit))
  <2> DEFINE units == <<unit>> \o acc.units
             used == acc.used + unit.size
  <2>1. now = [acc EXCEPT !.used = used, !.ownSteps = own, !.units = units]
    BY <1>6 DEF Turn, Step
  <2>2. units \in Seq(Parts) /\ used \in Nat
    BY <1>1, <1>3, <1>4
  <2> HIDE DEF units, used
  <2>3. now \in Accs /\ now.cut = acc.cut /\ now.units = units /\ now.used = used
        /\ now.ownSteps = own
    BY <2>1, <2>2, <1>1, <1>2 DEF Accs
  <2> QED
    BY <1>2, <1>3, <1>6, <2>3 DEF units, used
<1> QED
  BY <1>5, <1>6

\* f is what the loop computes, turn by turn.
IsTurns(f, id) ==
  f = [n \in 0..id |-> IF n = 0 THEN NoTurns ELSE Turn(f[n - 1], id - n + 1, id)]
Shown(acc) == [header |-> Header, cut |-> acc.cut, units |-> acc.units]

LEMMA TurnsExist ==
  ASSUME chat \in Seq(Kinds), NEW id \in DOMAIN chat
  PROVE  \E f \in [0..id -> Accs] : IsTurns(f, id)
<1> DEFINE goOn == [x \in Accs \X (1..id) |-> Turn(x[1], id - x[2] + 1, id)]
<1>1. id \in Nat /\ DOMAIN chat = 1..Len(chat) /\ Len(chat) \in Nat
  OBVIOUS
<1>2. NoTurns \in Accs
  BY DEF NoTurns, Accs
<1>3. ASSUME NEW acc \in Accs, NEW n \in 1..id PROVE Turn(acc, id - n + 1, id) \in Accs
  <2>1. id - n + 1 \in DOMAIN chat
    BY <1>1
  <2> QED
    BY <2>1, TurnFields
<1>4. goOn \in [Accs \X (1..id) -> Accs]
  BY <1>3
<1>5. \A acc \in Accs, n \in 1..id : goOn[<<acc, n>>] = Turn(acc, id - n + 1, id)
  OBVIOUS
<1> HIDE DEF goOn
<1>6. PICK f \in [0..id -> Accs] :
        f[0] = NoTurns /\ \A n \in 1..id : f[n] = goOn[<<f[n - 1], n>>]
  <2>1. \E f \in [0..id -> Accs] : Recurs(f, id, NoTurns, goOn)
    BY <1>1, <1>2, <1>4, Recursion
  <2> QED
    BY <2>1 DEF Recurs
<1>7. \A n \in 1..id : f[n - 1] \in Accs
  BY <1>1
<1> DEFINE g == [n \in 0..id |-> IF n = 0 THEN NoTurns ELSE Turn(f[n - 1], id - n + 1, id)]
<1>8. \A n \in 0..id : f[n] = g[n]
  <2> TAKE n \in 0..id
  <2>1. CASE n = 0
    BY <1>6, <2>1
  <2>2. CASE n # 0
    <3>1. n \in 1..id
      BY <1>1, <2>2
    <3> QED
      BY <1>5, <1>6, <1>7, <2>2, <3>1
  <2> QED
    BY <2>1, <2>2
<1>9. f = g
  BY <1>8
<1> QED
  BY <1>9 DEF IsTurns

LEMMA TurnsAre ==
  ASSUME NEW id \in Nat, NEW f, IsTurns(f, id)
  PROVE  f[0] = NoTurns /\ \A n \in 1..id : f[n] = Turn(f[n - 1], id - n + 1, id)
<1>1. f = [n \in 0..id |-> IF n = 0 THEN NoTurns ELSE Turn(f[n - 1], id - n + 1, id)]
  BY DEF IsTurns
<1> QED
  BY <1>1

LEMMA TurnsUnique ==
  ASSUME NEW id \in Nat, NEW f, NEW g, IsTurns(f, id), IsTurns(g, id)
  PROVE  f[id] = g[id]
<1> DEFINE Same == {n \in Nat : n \in 0..id => f[n] = g[n]}
<1>1. 0 \in Same
  BY TurnsAre
<1>2. ASSUME NEW n \in 1..id, n - 1 \in Same PROVE n \in Same
  <2>1. f[n - 1] = g[n - 1]
    BY <1>2
  <2>2. f[n] = g[n]
    BY <2>1, TurnsAre
  <2> QED
    BY <2>2
<1>3. 0..id \subseteq Same
  <2>1. Same \in SUBSET Nat
    OBVIOUS
  <2> HIDE DEF Same
  <2> QED
    BY <1>1, <1>2, <2>1, UpTo
<1> QED
  BY <1>3

LEMMA BuildFound ==
  ASSUME chat \in Seq(Kinds), NEW id \in DOMAIN chat, NEW f, IsTurns(f, id)
  PROVE  BuildContext(id) = Shown(f[id])
<1> DEFINE top == Max(Seen(id))
           turns == CHOOSE t : t = [n \in 0..top |->
                      IF n = 0 THEN NoTurns ELSE Turn(t[n - 1], top - n + 1, id)]
<1>1. id \in Nat /\ DOMAIN chat = 1..Len(chat) /\ Len(chat) \in Nat
  OBVIOUS
<1>2. top = id
  <2>1. Seen(id) \in SUBSET (0..id) /\ id \in Seen(id)
    BY <1>1 DEF Seen
  <2>2. top \in Seen(id) /\ id <= top
    BY <1>1, <2>1, MaxIsGreatest
  <2> QED
    BY <1>1, <2>1, <2>2
<1>3. BuildContext(id) = Shown(turns[id])
  BY <1>2 DEF BuildContext, Shown
<1>4. \E t : t = [n \in 0..top |->
                   IF n = 0 THEN NoTurns ELSE Turn(t[n - 1], top - n + 1, id)]
  BY <1>2 DEF IsTurns
<1>5. IsTurns(turns, id)
  BY <1>2, <1>4 DEF IsTurns
<1> HIDE DEF turns
<1>6. turns[id] = f[id]
  BY <1>1, <1>5, TurnsUnique
<1> QED
  BY <1>3, <1>6

\* s adds the sizes up, from the last unit to the first.
IsSum(s, units) ==
  s = [n \in 0..Len(units) |-> IF n = 0 THEN 0 ELSE s[n - 1] + units[Len(units) - n + 1].size]

LEMMA SumsAre ==
  ASSUME NEW s, NEW units, Len(units) \in Nat, IsSum(s, units)
  PROVE  s[0] = 0 /\ \A n \in 1..Len(units) : s[n] = s[n - 1] + units[Len(units) - n + 1].size
<1>1. s = [n \in 0..Len(units) |-> IF n = 0 THEN 0 ELSE s[n - 1] + units[Len(units) - n + 1].size]
  BY DEF IsSum
<1> QED
  BY <1>1

LEMMA SumExists ==
  ASSUME NEW units \in Seq(Parts)
  PROVE  \E s \in [0..Len(units) -> Nat] : IsSum(s, units)
<1> DEFINE N == Len(units)
           goOn == [x \in Nat \X (1..N) |-> x[1] + units[N - x[2] + 1].size]
<1>1. N \in Nat
  OBVIOUS
<1>3. ASSUME NEW k \in Nat, NEW n \in 1..N PROVE k + units[N - n + 1].size \in Nat
  <2>1. units[N - n + 1] \in Parts
    BY <1>1
  <2> QED
    BY <2>1 DEF Parts
<1>4. goOn \in [Nat \X (1..N) -> Nat]
  BY <1>3
<1>5. \A k \in Nat, n \in 1..N : goOn[<<k, n>>] = k + units[N - n + 1].size
  OBVIOUS
<1> HIDE DEF goOn, N
<1>6. PICK s \in [0..N -> Nat] : s[0] = 0 /\ \A n \in 1..N : s[n] = goOn[<<s[n - 1], n>>]
  <2>1. \E s \in [0..N -> Nat] : Recurs(s, N, 0, goOn)
    BY <1>1, <1>4, Recursion
  <2> QED
    BY <2>1 DEF Recurs
<1>7. \A n \in 1..N : s[n - 1] \in Nat
  BY <1>1
<1> DEFINE g == [n \in 0..N |-> IF n = 0 THEN 0 ELSE s[n - 1] + units[N - n + 1].size]
<1>8. \A n \in 0..N : s[n] = g[n]
  <2> TAKE n \in 0..N
  <2>1. CASE n = 0
    BY <1>6, <2>1
  <2>2. CASE n # 0
    <3>1. n \in 1..N
      BY <1>1, <2>2
    <3> QED
      BY <1>5, <1>6, <1>7, <2>2, <3>1
  <2> QED
    BY <2>1, <2>2
<1>9. s = g
  BY <1>8
<1>10. IsSum(s, units)
  BY <1>9 DEF IsSum, N
<1> QED
  BY <1>10 DEF N

LEMMA SumIs ==
  ASSUME NEW units, Len(units) \in Nat, NEW s, IsSum(s, units)
  PROVE  TotalSize(units) = s[Len(units)]
<1> DEFINE sum == CHOOSE t : t = [n \in 0..Len(units) |->
                    IF n = 0 THEN 0 ELSE t[n - 1] + units[Len(units) - n + 1].size]
           Same == {n \in Nat : n \in 0..Len(units) => sum[n] = s[n]}
<1>1. TotalSize(units) = sum[Len(units)]
  BY DEF TotalSize
<1>2. IsSum(sum, units)
  BY DEF IsSum
<1> HIDE DEF sum
<1>3. 0 \in Same /\ Same \in SUBSET Nat
  BY <1>2, SumsAre
<1>4. ASSUME NEW n \in 1..Len(units), n - 1 \in Same PROVE n \in Same
  <2>1. sum[n - 1] = s[n - 1]
    BY <1>4
  <2>2. sum[n] = s[n]
    BY <1>2, <2>1, SumsAre
  <2> QED
    BY <2>2
<1>5. 0..Len(units) \subseteq Same
  <2> HIDE DEF Same
  <2> QED
    BY <1>3, <1>4, UpTo
<1> QED
  BY <1>1, <1>5

LEMMA TotalEmpty == TotalSize(<<>>) = 0
<1> DEFINE units == <<>>
<1>1. units \in Seq(Parts) /\ Len(units) = 0
  OBVIOUS
<1>2. PICK s : IsSum(s, units)
  BY <1>1, SumExists
<1>3. TotalSize(units) = s[0] /\ s[0] = 0
  BY <1>1, <1>2, SumIs, SumsAre
<1> QED
  BY <1>3

LEMMA TotalLonger ==
  ASSUME NEW u \in Parts, NEW units \in Seq(Parts)
  PROVE  TotalSize(<<u>> \o units) = TotalSize(units) + u.size
<1> DEFINE all == <<u>> \o units
           n == Len(units)
<1>1. /\ n \in Nat /\ all \in Seq(Parts) /\ Len(all) = n + 1 /\ all[1] = u
      /\ \A k \in 1..n : all[k + 1] = units[k]
  OBVIOUS
<1> HIDE DEF all
<1>2. PICK s \in [0..n + 1 -> Nat] : IsSum(s, all)
  BY <1>1, SumExists
<1>3. s[0] = 0 /\ \A k \in 1..n + 1 : s[k] = s[k - 1] + all[n + 1 - k + 1].size
  BY <1>1, <1>2, SumsAre
<1> DEFINE r == [k \in 0..n |-> s[k]]
           g == [k \in 0..n |-> IF k = 0 THEN 0 ELSE r[k - 1] + units[n - k + 1].size]
<1>4. \A k \in 0..n : r[k] = g[k]
  <2> TAKE k \in 0..n
  <2>1. CASE k = 0
    BY <1>1, <1>3, <2>1
  <2>2. CASE k # 0
    <3>1. k \in 1..n /\ k \in 1..n + 1 /\ k - 1 \in 0..n /\ n - k + 1 \in 1..n
          /\ n + 1 - k + 1 = (n - k + 1) + 1
      BY <1>1, <2>2
    <3>2. all[n + 1 - k + 1] = units[n - k + 1]
      BY <1>1, <3>1
    <3> QED
      BY <1>3, <2>2, <3>1, <3>2
  <2> QED
    BY <2>1, <2>2
<1>5. r = g
  BY <1>4
<1>6. IsSum(r, units)
  BY <1>5 DEF IsSum
<1>7. TotalSize(units) = s[n]
  <2>1. TotalSize(units) = r[n]
    BY <1>1, <1>6, SumIs
  <2> QED
    BY <1>1, <2>1
<1>8. TotalSize(all) = s[n + 1]
  BY <1>1, <1>2, SumIs
<1>9. s[n + 1] = s[n] + all[1].size
  BY <1>1, <1>3
<1> QED
  BY <1>1, <1>7, <1>8, <1>9 DEF all

Calls(i, id) == Cardinality({j \in i..id : IsCall(chat[j])})

LEMMA CallsFrom ==
  ASSUME NEW id \in Nat
  PROVE  /\ Calls(id + 1, id) = 0
         /\ \A i \in 1..id : Calls(i, id) \in Nat /\ Calls(i, id) = Calls(i + 1, id) + Step(i)
<1> DEFINE Set(i) == {j \in i..id : IsCall(chat[j])}
<1>1. Calls(id + 1, id) = 0
  <2>1. Set(id + 1) = {}
    OBVIOUS
  <2> QED
    BY <2>1, FS_EmptySet DEF Calls
<1>2. ASSUME NEW i \in 1..id
      PROVE  Calls(i, id) \in Nat /\ Calls(i, id) = Calls(i + 1, id) + Step(i)
  <2>1. IsFiniteSet(i + 1 .. id)
    BY FS_Interval
  <2>2. IsFiniteSet(Set(i + 1)) /\ Cardinality(Set(i + 1)) \in Nat
    <3>1. Set(i + 1) \in SUBSET (i + 1 .. id)
      OBVIOUS
    <3> QED
      BY <2>1, <3>1, FS_Subset, FS_CardinalityType
  <2>3. i \notin Set(i + 1)
    OBVIOUS
  <2>4. CASE IsCall(chat[i])
    <3>1. Set(i) = Set(i + 1) \cup {i}
      BY <2>4
    <3> HIDE DEF Set
    <3>2. Cardinality(Set(i + 1) \cup {i}) = Cardinality(Set(i + 1)) + 1
      BY <2>2, <2>3, FS_AddElement
    <3>3. Cardinality(Set(i)) = Cardinality(Set(i + 1)) + 1
      BY <3>1, <3>2
    <3> QED
      BY <2>2, <2>4, <3>3 DEF Calls, Set, Step
  <2>5. CASE ~IsCall(chat[i])
    <3>1. Set(i) = Set(i + 1)
      BY <2>5
    <3> HIDE DEF Set
    <3>2. Cardinality(Set(i)) = Cardinality(Set(i + 1))
      BY <3>1
    <3> QED
      BY <2>2, <2>5, <3>2 DEF Calls, Set, Step
  <2> QED
    BY <2>4, <2>5
<1> QED
  BY <1>1, <1>2

\* The unit of message i in the context for message id, and what a turn leaves: the
\* units of the newest messages, and that there is no place for the next one if it cut.
Shows(i, id) == Unit(i, id, Calls(i, id) <= StepsWithOutput)
TurnOK(acc, n, id) ==
  LET k == Len(acc.units) IN
  /\ acc \in Accs /\ k \in 0..n /\ (n > 0 => k > 0)
  /\ ~acc.cut => k = n /\ acc.ownSteps = Calls(id - k + 1, id)
  /\ \A j \in 1..k : acc.units[j] = Shows(id - k + j, id)
  /\ acc.used = TotalSize(acc.units)
  /\ acc.used <= BudgetChars \/ k = 1
  /\ acc.cut => k < n /\ acc.used + Shows(id - k, id).size > BudgetChars

LEMMA FirstTurnOK ==
  ASSUME NEW id \in Nat PROVE TurnOK(NoTurns, 0, id)
<1>1. /\ NoTurns \in Accs /\ NoTurns.units = <<>> /\ NoTurns.used = 0 /\ ~NoTurns.cut
      /\ NoTurns.ownSteps = 0
  BY DEF NoTurns, Accs
<1>2. Len(NoTurns.units) = 0 /\ TotalSize(NoTurns.units) = 0
  BY <1>1, TotalEmpty
<1>3. Calls(id + 1, id) = 0
  BY CallsFrom
<1> QED
  BY <1>1, <1>2, <1>3, ContextAssumption DEF TurnOK

LEMMA NextTurnOK ==
  ASSUME chat \in Seq(Kinds), NEW id \in DOMAIN chat, NEW n \in 1..id, NEW acc,
         TurnOK(acc, n - 1, id)
  PROVE  TurnOK(Turn(acc, id - n + 1, id), n, id)
<1> DEFINE i == id - n + 1
           k == Len(acc.units)
           own == acc.ownSteps + Step(i)
           unit == Unit(i, id, KeepsOutput(own))
           now == Turn(acc, i, id)
<1>1. /\ id \in Nat /\ n \in Nat /\ i \in 1..id /\ i \in DOMAIN chat
      /\ acc \in Accs /\ acc.units \in Seq(Parts) /\ acc.used \in Nat /\ acc.ownSteps \in Nat
      /\ acc.cut \in BOOLEAN /\ k \in Nat
  BY DEF TurnOK, Accs
<1>2. /\ now \in Accs /\ unit \in Parts /\ own \in Nat
      /\ acc.cut \/ ~Takes(acc, unit) =>
           now.cut /\ now.units = acc.units /\ now.used = acc.used
      /\ ~(acc.cut \/ ~Takes(acc, unit)) =>
           /\ ~now.cut /\ now.units = <<unit>> \o acc.units
           /\ now.used = acc.used + unit.size /\ now.ownSteps = own
  BY <1>1, TurnFields, ZenonT(60)
<1>3. /\ k \in 0..n - 1 /\ (n - 1 > 0 => k > 0)
      /\ ~acc.cut => k = n - 1 /\ acc.ownSteps = Calls(id - k + 1, id)
      /\ \A j \in 1..k : acc.units[j] = Shows(id - k + j, id)
      /\ acc.used = TotalSize(acc.units)
      /\ acc.used <= BudgetChars \/ k = 1
      /\ acc.cut => k < n - 1 /\ acc.used + Shows(id - k, id).size > BudgetChars
  BY DEF TurnOK
<1>4. ~acc.cut => i = id - k /\ own = Calls(i, id) /\ unit = Shows(i, id)
  <2> SUFFICES ASSUME ~acc.cut PROVE i = id - k /\ own = Calls(i, id) /\ unit = Shows(i, id)
    OBVIOUS
  <2>1. i = id - k /\ i + 1 = id - k + 1
    BY <1>1, <1>3
  <2>2. own = Calls(i, id)
    BY <1>1, <1>3, <2>1, CallsFrom
  <2> QED
    BY <2>1, <2>2 DEF Shows, KeepsOutput
<1>5. unit.size \in Nat
  BY <1>2 DEF Parts
<1>6. Takes(acc, unit) <=> acc.used + unit.size <= BudgetChars \/ k = 0
  BY <1>1 DEF Takes
<1> SUFFICES TurnOK(now, n, id)
  OBVIOUS
<1> HIDE DEF unit, own, now, i
<1>7. CASE acc.cut \/ ~Takes(acc, unit)
  <2>1. now.cut /\ now.units = acc.units /\ now.used = acc.used
    BY <1>2, <1>7
  <2>2. k \in 0..n /\ k > 0 /\ k < n /\ acc.used + Shows(id - k, id).size > BudgetChars
    <3>1. CASE acc.cut
      BY <1>1, <1>3, <3>1
    <3>2. CASE ~acc.cut
      <4>1. ~(acc.used + unit.size <= BudgetChars) /\ k # 0 /\ k = n - 1
            /\ unit = Shows(id - k, id)
        BY <1>3, <1>4, <1>6, <1>7, <3>2
      <4>2. acc.used + unit.size > BudgetChars
        <5>1. PICK total \in Nat : total = acc.used + unit.size
          BY <1>1, <1>5
        <5>2. ~(total <= BudgetChars)
          BY <4>1, <5>1
        <5>3. total > BudgetChars
          BY <5>2, ContextAssumption
        <5> QED
          BY <5>1, <5>3
      <4>3. acc.used + Shows(id - k, id).size > BudgetChars
        BY <4>1, <4>2
      <4> QED
        BY <1>1, <4>1, <4>3
    <3> QED
      BY <3>1, <3>2
  <2>3. now \in Accs /\ acc.used = TotalSize(acc.units) /\ (acc.used <= BudgetChars \/ k = 1)
        /\ \A j \in 1..k : acc.units[j] = Shows(id - k + j, id)
    BY <1>2, <1>3
  <2> QED
    BY <2>1, <2>2, <2>3 DEF TurnOK
<1>8. CASE ~(acc.cut \/ ~Takes(acc, unit))
  <2>1. /\ ~now.cut /\ now.units = <<unit>> \o acc.units
        /\ now.used = acc.used + unit.size /\ now.ownSteps = own
    BY <1>2, <1>8
  <2>2. /\ k = n - 1 /\ own = Calls(i, id) /\ unit = Shows(i, id) /\ i = id - k
    BY <1>3, <1>4, <1>8
  <2>3. /\ Len(now.units) = n /\ now.units[1] = unit
        /\ \A j \in 1..k : now.units[j + 1] = acc.units[j]
    BY <1>1, <1>2, <2>1, <2>2
  <2>4. \A j \in 1..n : now.units[j] = Shows(id - n + j, id)
    <3> TAKE j \in 1..n
    <3>1. CASE j = 1
      BY <1>1, <2>2, <2>3, <3>1 DEF i
    <3>2. CASE j # 1
      <4>1. j - 1 \in 1..k /\ id - k + (j - 1) = id - n + j /\ j = (j - 1) + 1
        BY <1>1, <2>2, <3>2
      <4>2. now.units[j] = acc.units[j - 1]
        BY <2>3, <4>1
      <4> QED
        BY <1>3, <4>1, <4>2
    <3> QED
      BY <3>1, <3>2
  <2>5. now.used = TotalSize(now.units)
    BY <1>1, <1>2, <1>3, <2>1, TotalLonger
  <2>6. now.used <= BudgetChars \/ n = 1
    BY <1>1, <1>6, <1>8, <2>1, <2>2
  <2>7. now.ownSteps = Calls(id - n + 1, id)
    BY <2>1, <2>2 DEF i
  <2> QED
    <3>1. n \in 0..n /\ n > 0 /\ now \in Accs /\ Len(now.units) = n
      BY <1>1, <1>2, <2>3
    <3> QED
      BY <2>1, <2>4, <2>5, <2>6, <2>7, <3>1 DEF TurnOK
<1> QED
  BY <1>7, <1>8

LEMMA TurnsOK ==
  ASSUME chat \in Seq(Kinds), NEW id \in DOMAIN chat, NEW f, IsTurns(f, id)
  PROVE  TurnOK(f[id], id, id)
<1> DEFINE Good == {n \in Nat : n \in 0..id => TurnOK(f[n], n, id)}
<1>1. id \in Nat
  OBVIOUS
<1>2. 0 \in Good /\ Good \in SUBSET Nat
  BY <1>1, FirstTurnOK, TurnsAre
<1>3. ASSUME NEW n \in 1..id, n - 1 \in Good PROVE n \in Good
  <2>1. TurnOK(f[n - 1], n - 1, id)
    BY <1>1, <1>3
  <2>2. f[n] = Turn(f[n - 1], id - n + 1, id)
    BY <1>1, TurnsAre
  <2>3. TurnOK(f[n], n, id)
    BY <2>1, <2>2, NextTurnOK
  <2> QED
    BY <2>3
<1>4. 0..id \subseteq Good
  <2> HIDE DEF Good
  <2> QED
    BY <1>1, <1>2, <1>3, UpTo
<1> QED
  BY <1>1, <1>4

\* The run was given what the loop computes of the messages up to its trigger.
ContextInv ==
  /\ chat \in Seq(Kinds) /\ source \in Nat
  /\ trigger = 0 \/ trigger \in DOMAIN chat
  /\ trigger # 0 => \E f : IsTurns(f, trigger) /\ context = Shown(f[trigger])

LEMMA TurnSame ==
  ASSUME NEW id, NEW i, NEW acc, chat'[i] = chat[i]
  PROVE  Turn(acc, i, id)' = Turn(acc, i, id)
BY DEF Turn, Unit, IsCall, Takes, KeepsOutput

LEMMA TurnsStay ==
  ASSUME NEW id \in Nat, \A i \in 1..id : chat'[i] = chat[i], NEW f, IsTurns(f, id)
  PROVE  IsTurns(f, id)'
<1> DEFINE g == [n \in 0..id |-> IF n = 0 THEN NoTurns ELSE Turn(f[n - 1], id - n + 1, id)]
           h == [n \in 0..id |-> IF n = 0 THEN NoTurns ELSE Turn(f[n - 1], id - n + 1, id)']
<1>1. ASSUME NEW acc, NEW n \in 1..id
      PROVE  Turn(acc, id - n + 1, id)' = Turn(acc, id - n + 1, id)
  <2>1. PICK i \in 1..id : i = id - n + 1
    OBVIOUS
  <2>2. Turn(acc, i, id)' = Turn(acc, i, id)
    BY TurnSame
  <2> QED
    BY <2>1, <2>2
<1>2. \A n \in 0..id : g[n] = h[n]
  <2> TAKE n \in 0..id
  <2>1. CASE n = 0
    BY <2>1
  <2>2. CASE n # 0
    <3>1. n \in 1..id
      BY <2>2
    <3> QED
      BY <1>1, <2>2, <3>1
  <2> QED
    BY <2>1, <2>2
<1>3. g = h
  BY <1>2
<1>4. f = h
  BY <1>3 DEF IsTurns
<1> QED
  BY <1>4 DEF IsTurns, NoTurns

LEMMA ShownSame ==
  ASSUME NEW acc, source' = source PROVE Shown(acc)' = Shown(acc)
BY DEF Shown, Header

LEMMA ContextPost ==
  ASSUME ContextInv, NEW m \in Kinds, Post(m) PROVE ContextInv'
<1>1. /\ chat \in Seq(Kinds) /\ chat' = Append(chat, m) /\ trigger' = trigger
      /\ source' = source /\ context' = context
  BY DEF ContextInv, Post
<1>2. /\ chat' \in Seq(Kinds) /\ DOMAIN chat = 1..Len(chat) /\ Len(chat) \in Nat
      /\ DOMAIN chat' = 1..Len(chat) + 1
      /\ \A i \in DOMAIN chat : chat'[i] = chat[i]
  BY <1>1
<1>3. ASSUME trigger # 0
      PROVE  \E f : IsTurns(f, trigger)' /\ context = Shown(f[trigger])
  <2>1. trigger \in DOMAIN chat
    BY <1>3 DEF ContextInv
  <2>2. PICK f : IsTurns(f, trigger) /\ context = Shown(f[trigger])
    BY <1>3 DEF ContextInv
  <2>3. PICK id : id = trigger /\ id = trigger'
    BY <1>1
  <2>7. IsTurns(f, id)'
    BY <1>2, <2>1, <2>2, <2>3, TurnsStay
  <2> QED
    BY <1>2, <2>1, <2>2, <2>3, <2>7
<1>4. trigger' = 0 \/ trigger' \in DOMAIN chat'
  BY <1>1, <1>2 DEF ContextInv
<1>5. \A acc : Shown(acc)' = Shown(acc)
  BY <1>1, ShownSame
<1>7. trigger' # 0 => (\E f : IsTurns(f, trigger) /\ context = Shown(f[trigger]))'
  <2> SUFFICES ASSUME trigger # 0
               PROVE  (\E f : IsTurns(f, trigger) /\ context = Shown(f[trigger]))'
    BY <1>1
  <2>1. PICK id : id = trigger /\ id = trigger'
    BY <1>1
  <2>2. PICK f : IsTurns(f, id)' /\ context = Shown(f[id])
    BY <1>3, <2>1
  <2>3. context' = Shown(f[id])'
    BY <1>1, <1>5, <2>2
  <2> QED
    BY <2>1, <2>2, <2>3
<1> QED
  BY <1>1, <1>2, <1>4, <1>7 DEF ContextInv

LEMMA ContextBuild ==
  ASSUME ContextInv, NEW id \in DOMAIN chat, Build(id) PROVE ContextInv'
<1>1. /\ chat' = chat /\ source' = source /\ trigger' = id
      /\ context' = BuildContext(id) /\ chat \in Seq(Kinds) /\ source \in Nat /\ id \in Nat
  BY DEF Build, ContextInv
<1>2. PICK f : IsTurns(f, id)
  BY <1>1, TurnsExist
<1>3. context' = Shown(f[id])
  BY <1>1, <1>2, BuildFound
<1>4. IsTurns(f, id)' /\ context' = Shown(f[id])'
  BY <1>1, <1>2, <1>3, TurnsStay, ShownSame
<1>5. (\E g : IsTurns(g, trigger) /\ context = Shown(g[trigger]))'
  BY <1>1, <1>4
<1> QED
  BY <1>1, <1>5 DEF ContextInv

\* ContextInv and what the code promises agree: the units are those of the newest
\* messages up to the trigger, as many as there is place for.
LEMMA ContextHolds ==
  ASSUME ContextInv PROVE ContextOK
<1> SUFFICES ASSUME Built PROVE ContextOK
  BY DEF ContextOK, BudgetUsed, TriggerLast, OutputsOfNewest, SameWhenever
<1> DEFINE units == context.units
           k == Len(units)
<1>1. chat \in Seq(Kinds) /\ source \in Nat /\ trigger \in DOMAIN chat
      /\ trigger \in Nat /\ trigger # 0
  BY DEF ContextInv, Built
<1>2. PICK f : IsTurns(f, trigger) /\ context = Shown(f[trigger])
  BY <1>1 DEF ContextInv
<1> DEFINE acc == f[trigger]
<1>3. TurnOK(acc, trigger, trigger)
  BY <1>1, <1>2, TurnsOK
<1>4. context.header = Header /\ context.cut = acc.cut /\ units = acc.units
  BY <1>2 DEF Shown
<1>5. /\ acc \in Accs /\ k \in 0..trigger /\ k > 0
      /\ ~acc.cut => k = trigger
      /\ \A j \in 1..k : units[j] = Shows(trigger - k + j, trigger)
      /\ TotalSize(units) <= BudgetChars \/ k = 1
      /\ acc.cut => k < trigger /\ TotalSize(units) + Shows(trigger - k, trigger).size > BudgetChars
  BY <1>1, <1>3, <1>4 DEF TurnOK
<1>6. k \in Nat /\ units \in Seq(Parts) /\ DOMAIN units = 1..k /\ acc.cut \in BOOLEAN
  BY <1>4, <1>5 DEF Accs
<1>7. \A i : Calls(i, trigger) = OwnCallsFrom(i)
  BY DEF Calls, OwnCallsFrom
<1> HIDE DEF acc, units
<1>8. \A j \in 1..k :
        /\ units[j].message = trigger - k + j
        /\ units[j].marked <=> (~chat[trigger - k + j].own /\ trigger - k + j = trigger)
        /\ units[j].output <=>
             (IsCall(chat[trigger - k + j]) /\ OwnCallsFrom(trigger - k + j) <= StepsWithOutput)
  <2> TAKE j \in 1..k
  <2>1. PICK i : i = trigger - k + j
    OBVIOUS
  <2>2. i \in DOMAIN chat
    BY <1>1, <1>5, <2>1
  <2>3. units[j] = Unit(i, trigger, OwnCallsFrom(i) <= StepsWithOutput)
    BY <1>5, <1>7, <2>1 DEF Shows
  <2>4. PICK out \in BOOLEAN : out <=> OwnCallsFrom(i) <= StepsWithOutput
    OBVIOUS
  <2>5. /\ units[j].message = i
        /\ units[j].marked <=> (~chat[i].own /\ i = trigger)
        /\ units[j].output <=> (IsCall(chat[i]) /\ OwnCallsFrom(i) <= StepsWithOutput)
    <3>1. units[j] = Unit(i, trigger, out)
      BY <2>3, <2>4 DEF Unit
    <3>2. /\ units[j].message = i
          /\ units[j].marked <=> (~chat[i].own /\ i = trigger)
          /\ units[j].output <=> (IsCall(chat[i]) /\ out)
      BY <1>1, <2>2, <2>4, <3>1, UnitType
    <3> QED
      BY <2>4, <3>2
  <2> QED
    BY <2>1, <2>5
<1>9. BudgetUsed
  <2>1. context.header <= SourceChars
    BY <1>1, <1>4, ContextAssumption DEF Header
  <2>2. context.cut <=> trigger - k > 0
    BY <1>1, <1>4, <1>5, <1>6
  <2>3. context.cut => TotalSize(units)
          + Unit(trigger - k, trigger, OwnCallsFrom(trigger - k) <= StepsWithOutput).size
            > BudgetChars
    BY <1>4, <1>5, <1>7 DEF Shows
  <2> QED
    BY <1>5, <2>1, <2>2, <2>3 DEF BudgetUsed, units
<1>10. TriggerLast
  <2>1. units # <<>> /\ Last(units) = units[k]
    BY <1>5, <1>6 DEF Last
  <2>2. units[k].message = trigger
    <3>1. k \in 1..k /\ trigger - k + k = trigger
      BY <1>1, <1>5, <1>6
    <3> QED
      BY <1>8, <3>1
  <2>3. ASSUME NEW j \in 1..k PROVE units[j].marked <=> (j = k /\ ~chat[trigger].own)
    <3>1. PICK i : i = trigger - k + j
      OBVIOUS
    <3>2. i = trigger <=> j = k
      <4> HIDE DEF k
      <4>1. k \in Nat /\ j \in Nat
        BY <1>6
      <4>2. trigger \in Nat
        BY <1>1
      <4> QED
        BY <3>1, <4>1, <4>2
    <3>3. units[j].marked <=> (~chat[i].own /\ i = trigger)
      BY <1>8, <3>1
    <3> QED
      BY <1>1, <3>2, <3>3
  <2>4. /\ Last(units).message = trigger
        /\ \A j \in DOMAIN units :
             /\ units[j].message = trigger - k + j
             /\ units[j].marked <=> (j = k /\ ~chat[trigger].own)
    BY <1>6, <1>8, <2>1, <2>2, <2>3
  <2> QED
    BY <2>1, <2>4, Zenon DEF TriggerLast, units
<1>11. OutputsOfNewest
  <2>1. \A j \in 1..k : units[j].output <=>
          (IsCall(chat[units[j].message]) /\ OwnCallsFrom(units[j].message) <= StepsWithOutput)
    BY <1>8
  <2> QED
    BY <1>6, <2>1 DEF OutputsOfNewest, units
<1>12. SameWhenever
  <2>1. BuildContext(trigger) = Shown(f[trigger])
    BY <1>1, <1>2, BuildFound
  <2> QED
    BY <1>2, <2>1 DEF SameWhenever
<1> QED
  BY <1>9, <1>10, <1>11, <1>12 DEF ContextOK

\* What a run is given of its chat ends with the message it answers, fills the budget and
\* no more, has the outputs of the newest calls, and does not depend on when the run
\* starts (build_context), for chats of any length and any budget.  That last message is
\* marked as the one to answer unless it is an answer the agent's own user wrote.
THEOREM ContextOKCorrect == SpecContext => []ContextOK
<1>1. InitContext => ContextInv
  BY ContextAssumption DEF InitContext, ContextInv
<1>2. ContextInv /\ [NextContext]_contextVars => ContextInv'
  <2> SUFFICES ASSUME ContextInv, [NextContext]_contextVars PROVE ContextInv'
    OBVIOUS
  <2>1. CASE \E m \in Kinds : Post(m)
    BY <2>1, ContextPost
  <2>2. CASE \E id \in DOMAIN chat : Build(id)
    BY <2>2, ContextBuild
  <2>3. CASE UNCHANGED contextVars
    <3>1. chat' = chat /\ source' = source /\ trigger' = trigger /\ context' = context
      BY <2>3 DEF contextVars
    <3>2. trigger # 0 => (\E f : IsTurns(f, trigger) /\ context = Shown(f[trigger]))'
      <4> SUFFICES ASSUME trigger # 0
                   PROVE  (\E f : IsTurns(f, trigger) /\ context = Shown(f[trigger]))'
        OBVIOUS
      <4>1. PICK id \in Nat : id = trigger /\ id = trigger'
        BY <3>1 DEF ContextInv
      <4>2. PICK f : IsTurns(f, id) /\ context = Shown(f[id])
        BY <4>1 DEF ContextInv
      <4>3. IsTurns(f, id)' /\ context' = Shown(f[id])'
        BY <3>1, <4>2, TurnsStay, ShownSame
      <4> QED
        BY <4>1, <4>3
    <3> QED
      BY <3>1, <3>2 DEF ContextInv
  <2> QED
    BY <2>1, <2>2, <2>3 DEF NextContext
<1>3. ContextInv => ContextOK
  BY ContextHolds
<1> QED
  BY <1>1, <1>2, <1>3, PTL DEF SpecContext

-----------------------------------------------------------------------------
(* The commands of scripts (module Commands): counting.                    *)

LEMMA CountTo ==
  ASSUME NEW S \in SUBSET Nat, NEW n \in Nat
  PROVE  /\ Cardinality(S \cap (1..n)) \in Nat
         /\ n + 1 \in S =>
              Cardinality(S \cap (1..(n + 1))) = Cardinality(S \cap (1..n)) + 1
         /\ n + 1 \notin S =>
              Cardinality(S \cap (1..(n + 1))) = Cardinality(S \cap (1..n))
<1>1. IsFiniteSet(S \cap (1..n)) /\ n + 1 \notin S \cap (1..n)
  <2>1. IsFiniteSet(1..n)
    BY FS_Interval
  <2>2. S \cap (1..n) \subseteq 1..n
    OBVIOUS
  <2> QED
    BY <2>1, <2>2, FS_Subset
<1>2. Cardinality(S \cap (1..n)) \in Nat
  BY <1>1, FS_CardinalityType
<1>3. CASE n + 1 \in S
  <2>1. S \cap (1..(n + 1)) = (S \cap (1..n)) \cup {n + 1}
    BY <1>3
  <2> QED
    BY <1>1, <1>2, <1>3, <2>1, FS_AddElement
<1>4. CASE n + 1 \notin S
  <2>1. S \cap (1..(n + 1)) = S \cap (1..n)
    BY <1>4
  <2> QED
    BY <1>2, <1>4, <2>1
<1> QED
  BY <1>3, <1>4

\* How the numbers of brackets and backquotes grow.
LEMMA OpensGrow ==
  ASSUME NEW s, NEW n \in Nat
  PROVE  /\ OpensTo(s, n) \in Nat
         /\ Opens(s, n + 1) => OpensTo(s, n + 1) = OpensTo(s, n) + 1
         /\ ~Opens(s, n + 1) => OpensTo(s, n + 1) = OpensTo(s, n)
<1> DEFINE S == {k \in Nat : Opens(s, k)}
<1>1. S \in SUBSET Nat /\ n + 1 \in Nat /\ (n + 1 \in S <=> Opens(s, n + 1))
  OBVIOUS
<1>2. /\ {k \in 1..n : Opens(s, k)} = S \cap (1..n)
      /\ {k \in 1..(n + 1) : Opens(s, k)} = S \cap (1..(n + 1))
  OBVIOUS
<1> HIDE DEF S
<1> QED
  BY <1>1, <1>2, CountTo DEF OpensTo

LEMMA ClosesGrow ==
  ASSUME NEW s, NEW n \in Nat
  PROVE  /\ ClosesTo(s, n) \in Nat
         /\ Closes(s, n + 1) => ClosesTo(s, n + 1) = ClosesTo(s, n) + 1
         /\ ~Closes(s, n + 1) => ClosesTo(s, n + 1) = ClosesTo(s, n)
<1> DEFINE S == {k \in Nat : Closes(s, k)}
<1>1. S \in SUBSET Nat /\ n + 1 \in Nat /\ (n + 1 \in S <=> Closes(s, n + 1))
  OBVIOUS
<1>2. /\ {k \in 1..n : Closes(s, k)} = S \cap (1..n)
      /\ {k \in 1..(n + 1) : Closes(s, k)} = S \cap (1..(n + 1))
  OBVIOUS
<1> HIDE DEF S
<1> QED
  BY <1>1, <1>2, CountTo DEF ClosesTo

LEMMA TicksGrow ==
  ASSUME NEW s, NEW n \in Nat
  PROVE  /\ TicksTo(s, n) \in Nat
         /\ s[n + 1] = "tick" /\ ~InBody(s, n + 1) => TicksTo(s, n + 1) = TicksTo(s, n) + 1
         /\ ~(s[n + 1] = "tick" /\ ~InBody(s, n + 1)) => TicksTo(s, n + 1) = TicksTo(s, n)
<1> DEFINE S == {k \in Nat : s[k] = "tick" /\ ~InBody(s, k)}
<1>1. /\ S \in SUBSET Nat /\ n + 1 \in Nat
      /\ n + 1 \in S <=> (s[n + 1] = "tick" /\ ~InBody(s, n + 1))
  OBVIOUS
<1>2. /\ {k \in 1..n : s[k] = "tick" /\ ~InBody(s, k)} = S \cap (1..n)
      /\ {k \in 1..(n + 1) : s[k] = "tick" /\ ~InBody(s, k)} = S \cap (1..(n + 1))
  OBVIOUS
<1> HIDE DEF S
<1> QED
  BY <1>1, <1>2, CountTo DEF TicksTo

LEMMA NoneYet ==
  ASSUME NEW s
  PROVE  OpensTo(s, 0) = 0 /\ ClosesTo(s, 0) = 0 /\ TicksTo(s, 0) = 0
<1>1. 1..0 = {}
  OBVIOUS
<1>2. /\ {k \in 1..0 : Opens(s, k)} = {} /\ {k \in 1..0 : Closes(s, k)} = {}
      /\ {k \in 1..0 : s[k] = "tick" /\ ~InBody(s, k)} = {}
  BY <1>1
<1> QED
  BY <1>2, FS_EmptySet DEF OpensTo, ClosesTo, TicksTo

\* The depth behind the first n pieces.
Level(s, n) == OpensTo(s, n) - ClosesTo(s, n)

\* A pair stands outside of what it holds.
LEMMA DepthAndLevel ==
  ASSUME NEW s, NEW n \in Nat
  PROVE  /\ Level(s, n) \in Int /\ Depth(s, n + 1) \in Int
         /\ ~(Opens(s, n + 1) /\ Closes(s, n + 1))
         /\ Opens(s, n + 1) =>
              Depth(s, n + 1) = Level(s, n) /\ Level(s, n + 1) = Level(s, n) + 1
         /\ Closes(s, n + 1) =>
              Depth(s, n + 1) = Level(s, n) - 1 /\ Level(s, n + 1) = Level(s, n) - 1
         /\ ~Opens(s, n + 1) /\ ~Closes(s, n + 1) =>
              Depth(s, n + 1) = Level(s, n) /\ Level(s, n + 1) = Level(s, n)
<1>1. ~(Opens(s, n + 1) /\ Closes(s, n + 1))
  <2>1. TicksTo(s, n + 1) \in Nat
    BY TicksGrow
  <2> QED
    BY <2>1 DEF Opens, Closes
<1>2. Depth(s, n + 1) = OpensTo(s, n) - ClosesTo(s, n + 1)
  BY DEF Depth
<1> QED
  BY <1>1, <1>2, OpensGrow, ClosesGrow DEF Level

LEMMA DepthAt ==
  ASSUME NEW s, NEW k \in Nat \ {0}
  PROVE  /\ Level(s, k - 1) \in Int /\ Level(s, k) \in Int /\ Depth(s, k) \in Int
         /\ ~(Opens(s, k) /\ Closes(s, k))
         /\ Opens(s, k) => Depth(s, k) = Level(s, k - 1) /\ Level(s, k) = Depth(s, k) + 1
         /\ Closes(s, k) => Depth(s, k) = Level(s, k - 1) - 1 /\ Level(s, k) = Depth(s, k)
         /\ ~Opens(s, k) /\ ~Closes(s, k) =>
              Depth(s, k) = Level(s, k - 1) /\ Level(s, k) = Depth(s, k)
<1>1. PICK n \in Nat : n = k - 1
  OBVIOUS
<1>2. k = n + 1
  BY <1>1
<1>3. Level(s, n + 1) \in Int
  BY DepthAndLevel
<1> QED
  BY <1>1, <1>2, <1>3, DepthAndLevel

-----------------------------------------------------------------------------
(* What is open.                                                           *)

\* The innermost piece that is open behind the first n, or 0.
Around(s, n) == IF OpenAt(s, n) = {} THEN 0 ELSE Max(OpenAt(s, n))

LEMMA AroundIs ==
  ASSUME NEW s, NEW n \in Nat
  PROVE  /\ OpenAt(s, n) \subseteq 1..n
         /\ Around(s, n) \in 0..n
         /\ OpenAt(s, n) = {} => Around(s, n) = 0
         /\ OpenAt(s, n) # {} => Around(s, n) \in OpenAt(s, n) /\ Around(s, n) \in 1..n
         /\ \A k \in OpenAt(s, n) : k <= Around(s, n)
<1>1. OpenAt(s, n) \subseteq 1..n /\ OpenAt(s, n) \in SUBSET (0..n)
  BY DEF OpenAt
<1>2. CASE OpenAt(s, n) = {}
  BY <1>2 DEF Around
<1>3. CASE OpenAt(s, n) # {}
  <2>1. Max(OpenAt(s, n)) \in OpenAt(s, n) /\ \A k \in OpenAt(s, n) : k <= Max(OpenAt(s, n))
    BY <1>1, <1>3, MaxIsGreatest
  <2>2. Around(s, n) = Max(OpenAt(s, n))
    BY <1>3 DEF Around
  <2> QED
    BY <1>1, <1>3, <2>1, <2>2
<1> QED
  BY <1>2, <1>3

\* Since the innermost open piece everything has been closed.
Balanced(s, n) == Level(s, n) = Level(s, Around(s, n))

\* The deeper an open piece, the later it was opened.
LEMMA Enclosing ==
  ASSUME NEW s, NEW n \in Nat, Balanced(s, n), NEW k \in OpenAt(s, n)
  PROVE  /\ Level(s, n) = Depth(s, Around(s, n)) + 1
         /\ Depth(s, k) \in Int /\ Depth(s, Around(s, n)) \in Int
         /\ k # Around(s, n) => k < Around(s, n) /\ Depth(s, k) < Depth(s, Around(s, n))
<1>1. PICK t \in 1..n : t = Around(s, n) /\ t \in OpenAt(s, n) /\ k <= t
  BY AroundIs
<1>2. Opens(s, t) /\ k \in 1..n /\ \A j \in (k + 1)..n : Depth(s, j) > Depth(s, k)
  BY <1>1 DEF OpenAt
<1>3. Level(s, t) = Depth(s, t) + 1 /\ Depth(s, t) \in Int /\ Depth(s, k) \in Int
  <2>1. t \in Nat \ {0} /\ k \in Nat \ {0}
    BY <1>2
  <2> QED
    BY <1>2, <2>1, DepthAt
<1>4. Level(s, n) = Level(s, t)
  BY <1>1 DEF Balanced
<1>5. k # t => k < t /\ Depth(s, k) < Depth(s, t)
  <2> SUFFICES ASSUME k # t PROVE k < t /\ Depth(s, k) < Depth(s, t)
    OBVIOUS
  <2>1. k < t /\ t \in (k + 1)..n
    BY <1>1, <1>2
  <2>2. Depth(s, t) > Depth(s, k)
    BY <1>2, <2>1
  <2> QED
    BY <1>3, <2>1, <2>2
<1> QED
  BY <1>1, <1>3, <1>4, <1>5

LEMMA OpenStays ==
  ASSUME NEW s, NEW n \in Nat, Balanced(s, n), ~Opens(s, n + 1), ~Closes(s, n + 1)
  PROVE  /\ OpenAt(s, n + 1) = OpenAt(s, n)
         /\ Around(s, n + 1) = Around(s, n)
         /\ Balanced(s, n + 1)
<1>1. /\ Depth(s, n + 1) = Level(s, n) /\ Level(s, n + 1) = Level(s, n)
      /\ Level(s, n) \in Int
  BY DepthAndLevel
<1>2. ASSUME NEW k \in OpenAt(s, n) PROVE k \in OpenAt(s, n + 1)
  <2>1. Depth(s, n + 1) > Depth(s, k)
    BY <1>1, Enclosing
  <2>2. k \in 1..(n + 1) /\ Opens(s, k)
    BY DEF OpenAt
  <2>3. \A j \in (k + 1)..(n + 1) : Depth(s, j) > Depth(s, k)
    <3>1. \A j \in (k + 1)..n : Depth(s, j) > Depth(s, k)
      BY DEF OpenAt
    <3>2. \A j \in (k + 1)..(n + 1) : j \in (k + 1)..n \/ j = n + 1
      BY <2>2
    <3> QED
      BY <2>1, <3>1, <3>2
  <2> QED
    BY <2>2, <2>3 DEF OpenAt
<1>3. ASSUME NEW k \in OpenAt(s, n + 1) PROVE k \in OpenAt(s, n)
  <2>1. k \in 1..(n + 1) /\ Opens(s, k) /\ \A j \in (k + 1)..(n + 1) : Depth(s, j) > Depth(s, k)
    BY DEF OpenAt
  <2>2. k \in 1..n /\ \A j \in (k + 1)..n : j \in (k + 1)..(n + 1)
    BY <2>1
  <2> QED
    BY <2>1, <2>2 DEF OpenAt
<1>4. OpenAt(s, n + 1) = OpenAt(s, n)
  BY <1>2, <1>3
<1>5. Around(s, n + 1) = Around(s, n)
  BY <1>4 DEF Around
<1> QED
  BY <1>1, <1>4, <1>5 DEF Balanced

LEMMA OpenNew ==
  ASSUME NEW s, NEW n \in Nat, Opens(s, n + 1)
  PROVE  Around(s, n + 1) = n + 1 /\ Balanced(s, n + 1) /\ OpenAt(s, n + 1) # {}
<1>1. n + 1 \in OpenAt(s, n + 1)
  BY DEF OpenAt
<1>2. Around(s, n + 1) \in 0..(n + 1) /\ n + 1 <= Around(s, n + 1)
  BY <1>1, AroundIs
<1>3. Around(s, n + 1) = n + 1
  BY <1>2
<1> QED
  BY <1>1, <1>3 DEF Balanced

\* What is closed is the innermost; then the one around it goes on.
LEMMA OpenEnds ==
  ASSUME NEW s, NEW n \in Nat, \A m \in 0..n : Balanced(s, m),
         Closes(s, n + 1), OpenAt(s, n) # {}, NEW t, t = Around(s, n)
  PROVE  /\ t \in 1..n /\ Opens(s, t)
         /\ \A j \in (t + 1)..n : Depth(s, j) > Depth(s, t)
         /\ Level(s, n + 1) = Level(s, t - 1) /\ Depth(s, n + 1) = Level(s, t - 1)
         /\ Depth(s, t) = Level(s, t - 1) /\ Level(s, t - 1) \in Int
         /\ OpenAt(s, n + 1) = OpenAt(s, t - 1)
         /\ Around(s, n + 1) = Around(s, t - 1)
         /\ Balanced(s, n + 1)
<1>1. /\ t \in 1..n /\ t \in OpenAt(s, n) /\ Opens(s, t) /\ t - 1 \in 0..n /\ t - 1 \in Nat
      /\ \A j \in (t + 1)..n : Depth(s, j) > Depth(s, t)
  BY AroundIs DEF OpenAt
<1>2. /\ Depth(s, t) = Level(s, t - 1) /\ Level(s, t) = Depth(s, t) + 1
      /\ Depth(s, t) \in Int /\ Level(s, t - 1) \in Int
  <2>1. t \in Nat \ {0}
    BY <1>1
  <2> QED
    BY <1>1, <2>1, DepthAt
<1>3. Balanced(s, n) /\ Balanced(s, t - 1)
  BY <1>1
<1>4. Level(s, n) = Depth(s, t) + 1
  BY <1>1, <1>2, <1>3 DEF Balanced
<1>5. Depth(s, n + 1) = Depth(s, t) /\ Level(s, n + 1) = Depth(s, t)
  BY <1>2, <1>4, DepthAndLevel
<1>6. ASSUME NEW k \in OpenAt(s, n + 1) PROVE k \in OpenAt(s, t - 1)
  <2>1. k \in 1..(n + 1) /\ Opens(s, k) /\ \A j \in (k + 1)..(n + 1) : Depth(s, j) > Depth(s, k)
    BY DEF OpenAt
  <2>2. k # n + 1
    BY <2>1, DepthAndLevel
  <2>3. k < t
    <3>1. k \in 1..n /\ n + 1 \in (k + 1)..(n + 1)
      BY <2>1, <2>2
    <3>2. Depth(s, t) > Depth(s, k)
      BY <1>5, <2>1, <3>1
    <3>3. Depth(s, k) \in Int
      BY <3>1, DepthAt
    <3>4. k # t
      BY <1>2, <3>2, <3>3
    <3>5. ~(k > t)
      <4> SUFFICES ASSUME k > t PROVE FALSE
        OBVIOUS
      <4>1. k \in (t + 1)..n
        BY <1>1, <3>1
      <4>2. Depth(s, k) > Depth(s, t)
        BY <1>1, <4>1
      <4> QED
        BY <1>2, <3>2, <3>3, <4>2
    <3> QED
      BY <1>1, <3>1, <3>4, <3>5
  <2>4. k \in 1..(t - 1) /\ \A j \in (k + 1)..(t - 1) : j \in (k + 1)..(n + 1)
    BY <1>1, <2>1, <2>3
  <2> QED
    BY <2>1, <2>4 DEF OpenAt
<1>7. ASSUME NEW k \in OpenAt(s, t - 1) PROVE k \in OpenAt(s, n + 1)
  <2>1. k \in 1..(t - 1) /\ Opens(s, k) /\ \A j \in (k + 1)..(t - 1) : Depth(s, j) > Depth(s, k)
    BY DEF OpenAt
  <2>2. Depth(s, t) > Depth(s, k) /\ Depth(s, k) \in Int
    BY <1>1, <1>2, <1>3, Enclosing
  <2>3. ASSUME NEW j \in (k + 1)..(n + 1) PROVE Depth(s, j) > Depth(s, k)
    <3>1. CASE j <= t - 1
      BY <1>1, <2>1, <3>1
    <3>2. CASE j = t \/ j = n + 1
      BY <1>5, <2>2, <3>2
    <3>3. CASE j \in (t + 1)..n
      <4>1. Depth(s, j) > Depth(s, t) /\ Depth(s, j) \in Int
        BY <1>1, <3>3, DepthAt
      <4> QED
        BY <1>2, <2>2, <4>1
    <3> QED
      BY <1>1, <2>1, <3>1, <3>2, <3>3
  <2>4. k \in 1..(n + 1)
    BY <1>1, <2>1
  <2> QED
    BY <2>1, <2>3, <2>4 DEF OpenAt
<1>8. OpenAt(s, n + 1) = OpenAt(s, t - 1)
  BY <1>6, <1>7
<1>9. Around(s, n + 1) = Around(s, t - 1)
  BY <1>8 DEF Around
<1>10. Balanced(s, n + 1)
  BY <1>2, <1>3, <1>5, <1>9 DEF Balanced
<1> QED
  BY <1>1, <1>2, <1>5, <1>8, <1>9, <1>10

\* Scripts of the grammar.
Fitting(s) == s \in Seq(Pieces) /\ \A i \in DOMAIN s : Fits(s, i)

LEMMA FittingIs ==
  ASSUME NEW s, Fitting(s)
  PROVE  s \in Seq(Pieces) /\ Len(s) \in Nat /\ DOMAIN s = 1..Len(s)
BY DEF Fitting

LEMMA ClosesOpen ==
  ASSUME NEW s, Fitting(s), NEW n \in Nat, n + 1 \in DOMAIN s, Closes(s, n + 1)
  PROVE  OpenAt(s, n) # {} /\ (s[n + 1] = "tick" <=> s[Around(s, n)] = "tick")
<1>1. Fits(s, n + 1) /\ ~InBody(s, n + 1) /\ (n + 1) - 1 = n
  BY DEF Fitting, Closes
<1>2. s[n + 1] = "close" \/ s[n + 1] = "tick"
  BY DEF Closes
<1>3. s[n + 1] = "close" => OpenAt(s, n) # {} /\ s[Max(OpenAt(s, n))] # "tick"
  BY <1>1 DEF Fits
<1>4. s[n + 1] = "tick" => OpenAt(s, n) # {} /\ s[Max(OpenAt(s, n))] = "tick"
  BY <1>1 DEF Fits
<1> QED
  BY <1>2, <1>3, <1>4 DEF Around

LEMMA AlwaysBalanced ==
  ASSUME NEW s, Fitting(s), NEW n \in 0..Len(s)
  PROVE  Balanced(s, n)
<1> DEFINE Good == {m \in Nat : \A l \in 0..m : Balanced(s, l)}
<1>1. Len(s) \in Nat /\ DOMAIN s = 1..Len(s)
  BY FittingIs
<1>2. 0 \in Good
  <2>1. Around(s, 0) = 0
    BY AroundIs
  <2>2. Balanced(s, 0)
    BY <2>1 DEF Balanced
  <2> QED
    BY <2>2
<1>3. ASSUME NEW m \in 1..Len(s), m - 1 \in Good PROVE m \in Good
  <2>1. PICK l \in Nat : l = m - 1 /\ m = l + 1 /\ l + 1 \in DOMAIN s /\ l \in Good
    BY <1>1, <1>3
  <2>2. \A k \in 0..l : Balanced(s, k)
    BY <2>1
  <2>3. Balanced(s, l)
    BY <2>2
  <2>4. Balanced(s, l + 1)
    <3>1. CASE Opens(s, l + 1)
      BY <2>1, <3>1, OpenNew
    <3>2. CASE Closes(s, l + 1)
      <4>1. OpenAt(s, l) # {}
        BY <2>1, <3>2, ClosesOpen
      <4> QED
        BY <2>2, <3>2, <4>1, OpenEnds
    <3>3. CASE ~Opens(s, l + 1) /\ ~Closes(s, l + 1)
      BY <2>3, <3>3, OpenStays
    <3> QED
      BY <3>1, <3>2, <3>3
  <2>5. \A k \in 0..m : k \in 0..l \/ k = l + 1
    BY <2>1
  <2> QED
    BY <2>2, <2>4, <2>5
<1>4. 0..Len(s) \subseteq Good
  <2>1. Good \in SUBSET Nat
    OBVIOUS
  <2> HIDE DEF Good
  <2> QED
    BY <1>1, <1>2, <1>3, <2>1, UpTo
<1>5. n \in Good /\ n \in 0..n
  BY <1>1, <1>4
<1> QED
  BY <1>5

-----------------------------------------------------------------------------
(* The simple command that goes on.                                        *)

\* Piece k does not end a command at depth d, and stands in it or deeper.
GoesOn(s, k, d) ==
  Depth(s, k) >= d /\ (Depth(s, k) = d => s[k] \notin {"sep", "newline"})

\* The pieces, among the first n, of the command that the next piece belongs to.
Here(s, n) == CommandAt(s, n + 1, Level(s, n))

LEMMA HereIs ==
  ASSUME NEW s, NEW n \in Nat, NEW j
  PROVE  j \in Here(s, n) <=>
           /\ j \in 1..n /\ Depth(s, j) = Level(s, n) /\ ~InBody(s, j)
           /\ \A k \in j..n : GoesOn(s, k, Level(s, n))
<1>1. (n + 1) - 1 = n
  OBVIOUS
<1>2. CommandAt(s, n + 1, Level(s, n)) =
        {i \in 1..n : /\ Depth(s, i) = Level(s, n) /\ ~InBody(s, i)
                      /\ \A k \in i..n : GoesOn(s, k, Level(s, n))}
  BY <1>1 DEF CommandAt, GoesOn
<1> QED
  BY <1>2 DEF Here

LEMMA HereGrows ==
  ASSUME NEW s, NEW n \in Nat, ~Opens(s, n + 1), ~Closes(s, n + 1),
         s[n + 1] \notin {"sep", "newline"}
  PROVE  Here(s, n + 1) = Here(s, n) \cup {j \in {n + 1} : ~InBody(s, j)}
<1>1. PICK d \in Int : d = Level(s, n) /\ d = Level(s, n + 1) /\ Depth(s, n + 1) = d
  BY DepthAndLevel
<1>2. GoesOn(s, n + 1, d)
  BY <1>1 DEF GoesOn
<1>3. ASSUME NEW j PROVE j \in Here(s, n + 1) <=>
                           j \in Here(s, n) \/ (j = n + 1 /\ ~InBody(s, j))
  <2>1. j \in Here(s, n + 1) <=>
           /\ j \in 1..(n + 1) /\ Depth(s, j) = d /\ ~InBody(s, j)
           /\ \A k \in j..(n + 1) : GoesOn(s, k, d)
    BY <1>1, HereIs
  <2>2. j \in Here(s, n) <=>
           /\ j \in 1..n /\ Depth(s, j) = d /\ ~InBody(s, j)
           /\ \A k \in j..n : GoesOn(s, k, d)
    <3>1. j \in Here(s, n) <=>
             /\ j \in 1..n /\ Depth(s, j) = Level(s, n) /\ ~InBody(s, j)
             /\ \A k \in j..n : GoesOn(s, k, Level(s, n))
      BY HereIs
    <3> QED
      BY <1>1, <3>1
  <2>3. CASE j \in 1..n
    <3>1. \A k : k \in j..(n + 1) <=> k \in j..n \/ k = n + 1
      BY <2>3
    <3> QED
      BY <1>2, <2>1, <2>2, <2>3, <3>1
  <2>4. CASE j = n + 1
    <3>1. j \notin 1..n /\ \A k \in j..(n + 1) : k = n + 1
      BY <2>4
    <3> QED
      BY <1>1, <1>2, <2>1, <2>2, <2>4, <3>1
  <2>5. CASE j \notin 1..n /\ j # n + 1
    <3>1. j \notin 1..(n + 1)
      BY <2>5
    <3> QED
      BY <2>1, <2>2, <2>5, <3>1
  <2> QED
    BY <2>3, <2>4, <2>5
<1> QED
  BY <1>3

LEMMA HereBegins ==
  ASSUME NEW s, NEW n \in Nat,
         \/ Opens(s, n + 1)
         \/ ~Opens(s, n + 1) /\ ~Closes(s, n + 1) /\ s[n + 1] \in {"sep", "newline"}
  PROVE  Here(s, n + 1) = {}
<1>1. ~GoesOn(s, n + 1, Level(s, n + 1))
  <2>1. CASE Opens(s, n + 1)
    <3>1. PICK d \in Int : d = Depth(s, n + 1) /\ Level(s, n + 1) = d + 1
      BY <2>1, DepthAndLevel
    <3>2. ~(d >= d + 1)
      OBVIOUS
    <3> QED
      BY <3>1, <3>2 DEF GoesOn
  <2>2. CASE ~Opens(s, n + 1) /\ ~Closes(s, n + 1) /\ s[n + 1] \in {"sep", "newline"}
    <3>1. Depth(s, n + 1) = Level(s, n + 1)
      BY <2>2, DepthAndLevel
    <3> QED
      BY <2>2, <3>1 DEF GoesOn
  <2> QED
    BY <2>1, <2>2
<1>2. ASSUME NEW j \in Here(s, n + 1) PROVE FALSE
  <2>1. j \in 1..(n + 1) /\ \A k \in j..(n + 1) : GoesOn(s, k, Level(s, n + 1))
    BY HereIs
  <2>2. n + 1 \in j..(n + 1)
    BY <2>1
  <2> QED
    BY <1>1, <2>1, <2>2
<1> QED
  BY <1>2

\* When a pair is closed, the command it stands in goes on, the pair in it.
LEMMA HereReturns ==
  ASSUME NEW s, Fitting(s), NEW n \in Nat, n + 1 \in DOMAIN s, Closes(s, n + 1),
         NEW t, t = Around(s, n)
  PROVE  /\ t \in 1..n /\ Opens(s, t)
         /\ Here(s, n + 1) = Here(s, t - 1) \cup {t, n + 1}
<1>1. \A m \in 0..n : Balanced(s, m)
  BY AlwaysBalanced, FittingIs
<1>2. OpenAt(s, n) # {}
  BY ClosesOpen
<1>3. /\ t \in 1..n /\ Opens(s, t) /\ t - 1 \in Nat
      /\ \A j \in (t + 1)..n : Depth(s, j) > Depth(s, t)
  BY <1>1, <1>2, OpenEnds
<1>4. PICK d \in Int : /\ d = Level(s, t - 1) /\ Level(s, n + 1) = d
                       /\ Depth(s, n + 1) = d /\ Depth(s, t) = d
  <2>1. /\ Level(s, n + 1) = Level(s, t - 1) /\ Depth(s, n + 1) = Level(s, t - 1)
        /\ Depth(s, t) = Level(s, t - 1) /\ Level(s, t - 1) \in Int
    BY <1>1, <1>2, OpenEnds
  <2> QED
    BY <2>1
<1>5. /\ ~InBody(s, t) /\ ~InBody(s, n + 1)
      /\ s[t] \notin {"sep", "newline"} /\ s[n + 1] \notin {"sep", "newline"}
  BY <1>3 DEF Opens, Closes
<1>6. \A k \in t..(n + 1) : GoesOn(s, k, d) /\ (Depth(s, k) = d => k \in {t, n + 1})
  <2> TAKE k \in t..(n + 1)
  <2>1. CASE k = t \/ k = n + 1
    BY <1>4, <1>5, <2>1 DEF GoesOn
  <2>2. CASE k \in (t + 1)..n
    <3>1. Depth(s, k) > d /\ Depth(s, k) \in Int
      BY <1>3, <1>4, <2>2, DepthAt
    <3> QED
      BY <3>1 DEF GoesOn
  <2> QED
    BY <1>3, <2>1, <2>2
<1>7. ASSUME NEW j PROVE j \in Here(s, n + 1) <=> j \in Here(s, t - 1) \/ j \in {t, n + 1}
  <2>1. j \in Here(s, n + 1) <=>
           /\ j \in 1..(n + 1) /\ Depth(s, j) = d /\ ~InBody(s, j)
           /\ \A k \in j..(n + 1) : GoesOn(s, k, d)
    BY <1>4, HereIs
  <2>2. j \in Here(s, t - 1) <=>
           /\ j \in 1..(t - 1) /\ Depth(s, j) = d /\ ~InBody(s, j)
           /\ \A k \in j..(t - 1) : GoesOn(s, k, d)
    BY <1>3, <1>4, HereIs
  <2>3. CASE j \in 1..(t - 1)
    <3>1. /\ \A k \in j..(n + 1) : k \in j..(t - 1) \/ k \in t..(n + 1)
          /\ \A k \in j..(t - 1) : k \in j..(n + 1)
          /\ j \in 1..(n + 1) /\ j # t /\ j # n + 1
      BY <1>3, <2>3
    <3> QED
      BY <1>6, <2>1, <2>2, <2>3, <3>1
  <2>4. CASE j \in t..(n + 1)
    <3>1. /\ j \notin 1..(t - 1) /\ j \in 1..(n + 1) /\ \A k \in j..(n + 1) : k \in t..(n + 1)
      BY <1>3, <2>4
    <3> QED
      BY <1>4, <1>5, <1>6, <2>1, <2>2, <2>4, <3>1
  <2>5. CASE j \notin 1..(n + 1)
    <3>1. j \notin 1..(t - 1) /\ j # t /\ j # n + 1
      BY <1>3, <2>5
    <3> QED
      BY <2>1, <2>2, <2>5, <3>1
  <2>6. j \in 1..(n + 1) => j \in 1..(t - 1) \/ j \in t..(n + 1)
    BY <1>3
  <2> QED
    BY <2>3, <2>4, <2>5, <2>6
<1> QED
  BY <1>3, <1>7

\* Nothing of the command so far but what may stand before its name.
Unnamed(s, j) == IsTarget(s, j) \/ s[j] \in Preceding
Clear(s, n) == \A j \in Here(s, n) : Unnamed(s, j)

LEMMA PlaceIsClear ==
  ASSUME NEW s, NEW n \in Nat, ~Closes(s, n + 1)
  PROVE  /\ Before(s, n + 1) = Here(s, n)
         /\ InCommandPlace(s, n + 1) <=> Clear(s, n)
<1>1. Depth(s, n + 1) = Level(s, n)
  BY DepthAndLevel
<1>2. Before(s, n + 1) = Here(s, n)
  BY <1>1 DEF Before, Here
<1> QED
  BY <1>2 DEF InCommandPlace, Clear, Unnamed

-----------------------------------------------------------------------------
(* The reader.                                                             *)

TokenWords == Words \cup {"fd", "delim", "empty", "eof"}
Toks  == {Sep, Redir, Open, Close} \cup {Word(w) : w \in TokenWords}
LexTypes == [toks : Seq(Toks), parens : Seq(BOOLEAN), tick : BOOLEAN,
             heredocs : Nat, bodies : Nat]

LEMMA TopFront ==
  ASSUME NEW stack \in Seq(BOOLEAN)
  PROVE  /\ Top(stack) \in BOOLEAN /\ Front(stack) \in Seq(BOOLEAN)
         /\ \A b \in BOOLEAN :
              Top(Append(stack, b)) = b /\ Front(Append(stack, b)) = stack
<1>1. Top(stack) \in BOOLEAN
  BY DEF Top, Last
<1>2. Front(stack) \in Seq(BOOLEAN)
  BY DEF Front
<1>3. ASSUME NEW b \in BOOLEAN
      PROVE  Top(Append(stack, b)) = b /\ Front(Append(stack, b)) = stack
  <2>1. /\ Append(stack, b) \in Seq(BOOLEAN) /\ Len(Append(stack, b)) = Len(stack) + 1
        /\ Append(stack, b)[Len(stack) + 1] = b /\ Append(stack, b) # <<>>
    OBVIOUS
  <2>2. Front(Append(stack, b)) = stack
    <3>1. /\ Front(Append(stack, b)) \in Seq(BOOLEAN)
          /\ Len(Front(Append(stack, b))) = Len(stack)
          /\ \A i \in 1..Len(stack) : Front(Append(stack, b))[i] = stack[i]
      BY <2>1 DEF Front
    <3> QED
      BY <3>1, SeqEqual
  <2>3. Top(Append(stack, b)) = b
    BY <2>1 DEF Top, Last
  <2> QED
    BY <2>2, <2>3
<1> QED
  BY <1>1, <1>2, <1>3

LEMMA WordIsToken ==
  ASSUME NEW w \in TokenWords
  PROVE  Word(w) \in Toks /\ Word(w).is = "word" /\ Word(w).word = w
BY DEF Toks, Word

LEMMA OtherTokens ==
  /\ {Sep, Redir, Open, Close} \subseteq Toks
  /\ Sep.is = "sep" /\ Redir.is = "redir" /\ Open.is = "open" /\ Close.is = "close"
BY DEF Toks, Sep, Redir, Open, Close

LEMMA ShortSeqs ==
  ASSUME NEW S, NEW a \in S, NEW b \in S
  PROVE  <<a>> \in Seq(S) /\ <<a, b>> \in Seq(S)
OBVIOUS

LEMMA LongerSeqs ==
  ASSUME NEW S, NEW a \in Seq(S), NEW b \in Seq(S)
  PROVE  a \o b \in Seq(S)
OBVIOUS

LEMMA AppendSeq ==
  ASSUME NEW S, NEW a \in Seq(S), NEW e \in S
  PROVE  Append(a, e) \in Seq(S)
OBVIOUS

LEMMA PieceTokens ==
  /\ <<Sep>> \in Seq(Toks) /\ <<Redir>> \in Seq(Toks)
  /\ <<Open>> \in Seq(Toks) /\ <<Close>> \in Seq(Toks)
  /\ <<Redir, Word("fd")>> \in Seq(Toks) /\ <<Redir, Word("delim")>> \in Seq(Toks)
  /\ <<Word("empty"), Open>> \in Seq(Toks) /\ <<Word("assign"), Open>> \in Seq(Toks)
<1>1. Sep \in Toks /\ Redir \in Toks /\ Open \in Toks /\ Close \in Toks
  BY OtherTokens
<1>2. "fd" \in TokenWords /\ "delim" \in TokenWords /\ "empty" \in TokenWords
        /\ "assign" \in TokenWords
  BY DEF TokenWords, Words
<1>3. Word("fd") \in Toks /\ Word("delim") \in Toks
  BY <1>2, WordIsToken
<1>4. Word("empty") \in Toks /\ Word("assign") \in Toks
  BY <1>2, WordIsToken
<1>5. /\ <<Sep>> \in Seq(Toks) /\ <<Redir>> \in Seq(Toks)
      /\ <<Open>> \in Seq(Toks) /\ <<Close>> \in Seq(Toks)
  BY <1>1, ShortSeqs
<1>6. <<Redir, Word("fd")>> \in Seq(Toks)
  BY <1>1, <1>3, ShortSeqs
<1>7. <<Redir, Word("delim")>> \in Seq(Toks)
  BY <1>1, <1>3, ShortSeqs
<1>8. <<Word("empty"), Open>> \in Seq(Toks)
  BY <1>1, <1>4, ShortSeqs
<1>9. <<Word("assign"), Open>> \in Seq(Toks)
  BY <1>1, <1>4, ShortSeqs
<1> QED
  BY <1>5, <1>6, <1>7, <1>8, <1>9

\* What a piece leaves of the reader's state, outside of a body.
LexNext(lex, now, toks, parens, tick, heredocs, bodies) ==
  /\ now \in LexTypes
  /\ now.toks = lex.toks \o toks /\ now.parens = parens /\ now.tick = tick
  /\ now.heredocs = heredocs /\ now.bodies = bodies

LEMMA LexFields ==
  ASSUME NEW lex \in LexTypes
  PROVE  /\ lex.toks \in Seq(Toks) /\ lex.parens \in Seq(BOOLEAN) /\ lex.tick \in BOOLEAN
         /\ lex.heredocs \in Nat /\ lex.bodies \in Nat
BY DEF LexTypes

LEMMA PushIs ==
  ASSUME NEW lex \in LexTypes, NEW toks \in Seq(Toks)
  PROVE  LexNext(lex, Push(lex, toks), toks, lex.parens, lex.tick, lex.heredocs, lex.bodies)
<1>1. PICK all \in Seq(Toks) : all = lex.toks \o toks
  <2>1. lex.toks \in Seq(Toks)
    BY LexFields
  <2> QED
    BY <2>1, LongerSeqs
<1>2. Push(lex, toks) = [lex EXCEPT !.toks = all]
  BY <1>1 DEF Push
<1>3. [lex EXCEPT !.toks = all] \in LexTypes
  BY DEF LexTypes
<1>4. /\ [lex EXCEPT !.toks = all].toks = all
      /\ [lex EXCEPT !.toks = all].parens = lex.parens
      /\ [lex EXCEPT !.toks = all].tick = lex.tick
      /\ [lex EXCEPT !.toks = all].heredocs = lex.heredocs
      /\ [lex EXCEPT !.toks = all].bodies = lex.bodies
  BY DEF LexTypes
<1> QED
  BY <1>1, <1>2, <1>3, <1>4 DEF LexNext

\* The reader's changes of one field.
LEMMA LexParens ==
  ASSUME NEW lex, NEW l \in LexTypes, NEW toks,
         LexNext(lex, l, toks, lex.parens, lex.tick, lex.heredocs, lex.bodies),
         NEW parens \in Seq(BOOLEAN), NEW now, now = [l EXCEPT !.parens = parens]
  PROVE  LexNext(lex, now, toks, parens, lex.tick, lex.heredocs, lex.bodies)
<1>1. now \in LexTypes
  BY DEF LexTypes
<1>2. /\ now.parens = parens /\ now.toks = l.toks /\ now.tick = l.tick
      /\ now.heredocs = l.heredocs /\ now.bodies = l.bodies
  BY DEF LexTypes
<1> QED
  BY <1>1, <1>2 DEF LexNext

LEMMA LexTick ==
  ASSUME NEW lex, NEW l \in LexTypes, NEW toks,
         LexNext(lex, l, toks, lex.parens, lex.tick, lex.heredocs, lex.bodies),
         NEW tick \in BOOLEAN, NEW now, now = [l EXCEPT !.tick = tick]
  PROVE  LexNext(lex, now, toks, lex.parens, tick, lex.heredocs, lex.bodies)
<1>1. now \in LexTypes
  BY DEF LexTypes
<1>2. /\ now.tick = tick /\ now.toks = l.toks /\ now.parens = l.parens
      /\ now.heredocs = l.heredocs /\ now.bodies = l.bodies
  BY DEF LexTypes
<1> QED
  BY <1>1, <1>2 DEF LexNext

LEMMA LexHeredocs ==
  ASSUME NEW lex, NEW l \in LexTypes, NEW toks,
         LexNext(lex, l, toks, lex.parens, lex.tick, lex.heredocs, lex.bodies),
         NEW h \in Nat, NEW now, now = [l EXCEPT !.heredocs = h]
  PROVE  LexNext(lex, now, toks, lex.parens, lex.tick, h, lex.bodies)
<1>1. now \in LexTypes
  BY DEF LexTypes
<1>2. /\ now.heredocs = h /\ now.toks = l.toks /\ now.parens = l.parens
      /\ now.tick = l.tick /\ now.bodies = l.bodies
  BY DEF LexTypes
<1> QED
  BY <1>1, <1>2 DEF LexNext

LEMMA LexBodies ==
  ASSUME NEW lex, NEW l \in LexTypes, NEW toks,
         LexNext(lex, l, toks, lex.parens, lex.tick, lex.heredocs, lex.bodies),
         NEW h \in Nat, NEW now, now = [l EXCEPT !.bodies = h, !.heredocs = 0]
  PROVE  LexNext(lex, now, toks, lex.parens, lex.tick, 0, h)
<1>1. now \in LexTypes
  BY DEF LexTypes
<1>2. /\ now.heredocs = 0 /\ now.toks = l.toks /\ now.parens = l.parens
      /\ now.tick = l.tick /\ now.bodies = h
  BY DEF LexTypes
<1> QED
  BY <1>1, <1>2 DEF LexNext

LEMMA LexInBody ==
  ASSUME NEW lex \in LexTypes, NEW p, lex.bodies > 0
  PROVE  /\ Lex(lex, p) \in LexTypes
         /\ Lex(lex, p).toks = lex.toks /\ Lex(lex, p).parens = lex.parens
         /\ Lex(lex, p).tick = lex.tick /\ Lex(lex, p).heredocs = lex.heredocs
         /\ p = "eof" => Lex(lex, p).bodies = lex.bodies - 1
         /\ p # "eof" => Lex(lex, p).bodies = lex.bodies
<1>1. Lex(lex, p) = IF p = "eof" THEN [lex EXCEPT !.bodies = @ - 1] ELSE lex
  BY DEF Lex, SkipBody
<1>2. lex.bodies - 1 \in Nat
  BY DEF LexTypes
<1> QED
  BY <1>1, <1>2 DEF LexTypes

LEMMA LexOutside ==
  ASSUME NEW lex \in LexTypes, NEW p \in Pieces, lex.bodies = 0
  PROVE  Lex(lex, p) = LexPiece(lex, p)
<1>1. ~(lex.bodies > 0)
  OBVIOUS
<1> QED
  BY <1>1 DEF Lex

LEMMA LexWord ==
  ASSUME NEW lex \in LexTypes, NEW p \in Words \cup {"eof"}, lex.bodies = 0
  PROVE  LexNext(lex, Lex(lex, p), <<Word(p)>>, lex.parens, lex.tick, lex.heredocs, 0)
<1>1. p \in Pieces /\ p \in TokenWords
  BY DEF Pieces, TokenWords
<1>2. <<Word(p)>> \in Seq(Toks)
  <2>1. Word(p) \in Toks
    BY <1>1, WordIsToken
  <2> QED
    BY <2>1
<1>3. Lex(lex, p) = Push(lex, <<Word(p)>>)
  <2>1. LexPiece(lex, p) = Push(lex, <<Word(p)>>)
    BY DEF LexPiece, Words
  <2> QED
    BY <1>1, <2>1, LexOutside
<1> QED
  BY <1>2, <1>3, PushIs

LEMMA LexSep ==
  ASSUME NEW lex \in LexTypes, lex.bodies = 0
  PROVE  LexNext(lex, Lex(lex, "sep"), <<Sep>>,
                 lex.parens, lex.tick, lex.heredocs, 0)
<1>1. PICK toks \in Seq(Toks) : toks = <<Sep>>
  BY PieceTokens
<1>2. PICK l \in LexTypes : l = Push(lex, toks)
  BY PushIs DEF LexNext
<1>3. LexNext(lex, l, toks, lex.parens, lex.tick, lex.heredocs, lex.bodies)
  BY <1>2, PushIs
<1>4. Lex(lex, "sep") = l
  <2>1. "sep" \in Pieces
    BY DEF Pieces
  <2>2. LexPiece(lex, "sep") = Push(lex, <<Sep>>)
    BY DEF LexPiece, Words
  <2> QED
    BY <1>1, <1>2, <2>1, <2>2, LexOutside
<1> QED
  BY <1>1, <1>3, <1>4

LEMMA LexNewline ==
  ASSUME NEW lex \in LexTypes, lex.bodies = 0
  PROVE  LexNext(lex, Lex(lex, "newline"), <<Sep>>,
                 lex.parens, lex.tick, 0, lex.heredocs)
<1>1. PICK toks \in Seq(Toks) : toks = <<Sep>>
  BY PieceTokens
<1>2. PICK l \in LexTypes : l = Push(lex, toks)
  BY PushIs DEF LexNext
<1>3. LexNext(lex, l, toks, lex.parens, lex.tick, lex.heredocs, lex.bodies)
  BY <1>2, PushIs
<1>4. Lex(lex, "newline") = [l EXCEPT !.bodies = lex.heredocs, !.heredocs = 0]
  <2>1. "newline" \in Pieces
    BY DEF Pieces
  <2>2. LexPiece(lex, "newline") = [Push(lex, <<Sep>>) EXCEPT !.bodies = lex.heredocs,
                                    !.heredocs = 0]
    BY DEF LexPiece, Words
  <2> QED
    BY <1>1, <1>2, <2>1, <2>2, LexOutside
<1>5. lex.heredocs \in Nat
  BY LexFields
<1>6. LexNext(lex, Lex(lex, "newline"), toks, lex.parens, lex.tick, 0, lex.heredocs)
  BY <1>3, <1>4, <1>5, LexBodies
<1> QED
  BY <1>1, <1>6

LEMMA LexRedirect ==
  ASSUME NEW lex \in LexTypes, lex.bodies = 0
  PROVE  LexNext(lex, Lex(lex, "redirect"), <<Redir>>,
                 lex.parens, lex.tick, lex.heredocs, 0)
<1>1. PICK toks \in Seq(Toks) : toks = <<Redir>>
  BY PieceTokens
<1>2. PICK l \in LexTypes : l = Push(lex, toks)
  BY PushIs DEF LexNext
<1>3. LexNext(lex, l, toks, lex.parens, lex.tick, lex.heredocs, lex.bodies)
  BY <1>2, PushIs
<1>4. Lex(lex, "redirect") = l
  <2>1. "redirect" \in Pieces
    BY DEF Pieces
  <2>2. LexPiece(lex, "redirect") = Push(lex, <<Redir>>)
    BY DEF LexPiece, Words
  <2> QED
    BY <1>1, <1>2, <2>1, <2>2, LexOutside
<1> QED
  BY <1>1, <1>3, <1>4

LEMMA LexDup ==
  ASSUME NEW lex \in LexTypes, lex.bodies = 0
  PROVE  LexNext(lex, Lex(lex, "dup"), <<Redir, Word("fd")>>,
                 lex.parens, lex.tick, lex.heredocs, 0)
<1>1. PICK toks \in Seq(Toks) : toks = <<Redir, Word("fd")>>
  BY PieceTokens
<1>2. PICK l \in LexTypes : l = Push(lex, toks)
  BY PushIs DEF LexNext
<1>3. LexNext(lex, l, toks, lex.parens, lex.tick, lex.heredocs, lex.bodies)
  BY <1>2, PushIs
<1>4. Lex(lex, "dup") = l
  <2>1. "dup" \in Pieces
    BY DEF Pieces
  <2>2. LexPiece(lex, "dup") = Push(lex, <<Redir, Word("fd")>>)
    BY DEF LexPiece, Words
  <2> QED
    BY <1>1, <1>2, <2>1, <2>2, LexOutside
<1> QED
  BY <1>1, <1>3, <1>4

LEMMA LexHeredoc ==
  ASSUME NEW lex \in LexTypes, lex.bodies = 0
  PROVE  LexNext(lex, Lex(lex, "heredoc"), <<Redir, Word("delim")>>,
                 lex.parens, lex.tick, lex.heredocs + 1, 0)
<1>1. PICK toks \in Seq(Toks) : toks = <<Redir, Word("delim")>>
  BY PieceTokens
<1>2. PICK l \in LexTypes : l = Push(lex, toks)
  BY PushIs DEF LexNext
<1>3. LexNext(lex, l, toks, lex.parens, lex.tick, lex.heredocs, lex.bodies)
  BY <1>2, PushIs
<1>4. Lex(lex, "heredoc") = [l EXCEPT !.heredocs = @ + 1]
  <2>1. "heredoc" \in Pieces
    BY DEF Pieces
  <2>2. LexPiece(lex, "heredoc") = [Push(lex, <<Redir, Word("delim")>>) EXCEPT !.heredocs =
                                    @ + 1]
    BY DEF LexPiece, Words
  <2> QED
    BY <1>1, <1>2, <2>1, <2>2, LexOutside
<1>5. l.heredocs = lex.heredocs /\ lex.heredocs + 1 \in Nat
  BY <1>3, LexFields, TopFront DEF LexNext
<1>6. Lex(lex, "heredoc") = [l EXCEPT !.heredocs = lex.heredocs + 1]
  BY <1>4, <1>5
<1>7. LexNext(lex, Lex(lex, "heredoc"), toks, lex.parens, lex.tick, lex.heredocs + 1,
              lex.bodies)
  BY <1>3, <1>5, <1>6, LexHeredocs
<1> QED
  BY <1>1, <1>7

LEMMA LexSubst ==
  ASSUME NEW lex \in LexTypes, lex.bodies = 0
  PROVE  LexNext(lex, Lex(lex, "subst"), <<Word("empty"), Open>>,
                 Append(lex.parens, TRUE), lex.tick, lex.heredocs, 0)
<1>1. PICK toks \in Seq(Toks) : toks = <<Word("empty"), Open>>
  BY PieceTokens
<1>2. PICK l \in LexTypes : l = Push(lex, toks)
  BY PushIs DEF LexNext
<1>3. LexNext(lex, l, toks, lex.parens, lex.tick, lex.heredocs, lex.bodies)
  BY <1>2, PushIs
<1>4. Lex(lex, "subst") = [l EXCEPT !.parens = Append(@, TRUE)]
  <2>1. "subst" \in Pieces
    BY DEF Pieces
  <2>2. LexPiece(lex, "subst") = [Push(lex, <<Word("empty"), Open>>) EXCEPT !.parens =
                                  Append(@, TRUE)]
    BY DEF LexPiece, Words
  <2> QED
    BY <1>1, <1>2, <2>1, <2>2, LexOutside
<1>5. l.parens = lex.parens /\ Append(lex.parens, TRUE) \in Seq(BOOLEAN)
  BY <1>3, LexFields, TopFront DEF LexNext
<1>6. Lex(lex, "subst") = [l EXCEPT !.parens = Append(lex.parens, TRUE)]
  BY <1>4, <1>5
<1>7. LexNext(lex, Lex(lex, "subst"), toks, Append(lex.parens, TRUE), lex.tick, lex.heredocs,
              lex.bodies)
  BY <1>3, <1>5, <1>6, LexParens
<1> QED
  BY <1>1, <1>7

LEMMA LexAssignSubst ==
  ASSUME NEW lex \in LexTypes, lex.bodies = 0
  PROVE  LexNext(lex, Lex(lex, "assignSubst"), <<Word("assign"), Open>>,
                 Append(lex.parens, TRUE), lex.tick, lex.heredocs, 0)
<1>1. PICK toks \in Seq(Toks) : toks = <<Word("assign"), Open>>
  BY PieceTokens
<1>2. PICK l \in LexTypes : l = Push(lex, toks)
  BY PushIs DEF LexNext
<1>3. LexNext(lex, l, toks, lex.parens, lex.tick, lex.heredocs, lex.bodies)
  BY <1>2, PushIs
<1>4. Lex(lex, "assignSubst") = [l EXCEPT !.parens = Append(@, TRUE)]
  <2>1. "assignSubst" \in Pieces
    BY DEF Pieces
  <2>2. LexPiece(lex, "assignSubst") = [Push(lex, <<Word("assign"), Open>>) EXCEPT !.parens =
                                        Append(@, TRUE)]
    BY DEF LexPiece, Words
  <2> QED
    BY <1>1, <1>2, <2>1, <2>2, LexOutside
<1>5. l.parens = lex.parens /\ Append(lex.parens, TRUE) \in Seq(BOOLEAN)
  BY <1>3, LexFields, TopFront DEF LexNext
<1>6. Lex(lex, "assignSubst") = [l EXCEPT !.parens = Append(lex.parens, TRUE)]
  BY <1>4, <1>5
<1>7. LexNext(lex, Lex(lex, "assignSubst"), toks, Append(lex.parens, TRUE), lex.tick,
              lex.heredocs, lex.bodies)
  BY <1>3, <1>5, <1>6, LexParens
<1> QED
  BY <1>1, <1>7

LEMMA LexGroup ==
  ASSUME NEW lex \in LexTypes, lex.bodies = 0
  PROVE  LexNext(lex, Lex(lex, "group"), <<Sep>>,
                 Append(lex.parens, FALSE), lex.tick, lex.heredocs, 0)
<1>1. PICK toks \in Seq(Toks) : toks = <<Sep>>
  BY PieceTokens
<1>2. PICK l \in LexTypes : l = Push(lex, toks)
  BY PushIs DEF LexNext
<1>3. LexNext(lex, l, toks, lex.parens, lex.tick, lex.heredocs, lex.bodies)
  BY <1>2, PushIs
<1>4. Lex(lex, "group") = [l EXCEPT !.parens = Append(@, FALSE)]
  <2>1. "group" \in Pieces
    BY DEF Pieces
  <2>2. LexPiece(lex, "group") = [Push(lex, <<Sep>>) EXCEPT !.parens = Append(@, FALSE)]
    BY DEF LexPiece, Words
  <2> QED
    BY <1>1, <1>2, <2>1, <2>2, LexOutside
<1>5. l.parens = lex.parens /\ Append(lex.parens, FALSE) \in Seq(BOOLEAN)
  BY <1>3, LexFields, TopFront DEF LexNext
<1>6. Lex(lex, "group") = [l EXCEPT !.parens = Append(lex.parens, FALSE)]
  BY <1>4, <1>5
<1>7. LexNext(lex, Lex(lex, "group"), toks, Append(lex.parens, FALSE), lex.tick,
              lex.heredocs, lex.bodies)
  BY <1>3, <1>5, <1>6, LexParens
<1> QED
  BY <1>1, <1>7

LEMMA LexClose ==
  ASSUME NEW lex \in LexTypes, lex.bodies = 0
  PROVE  LexNext(lex, Lex(lex, "close"), IF Top(lex.parens) THEN <<Close>> ELSE <<Sep>>,
                 Front(lex.parens), lex.tick, lex.heredocs, 0)
<1>1. PICK toks \in Seq(Toks) : toks = IF Top(lex.parens) THEN <<Close>> ELSE <<Sep>>
  BY PieceTokens
<1>2. PICK l \in LexTypes : l = Push(lex, toks)
  BY PushIs DEF LexNext
<1>3. LexNext(lex, l, toks, lex.parens, lex.tick, lex.heredocs, lex.bodies)
  BY <1>2, PushIs
<1>4. Lex(lex, "close") = [l EXCEPT !.parens = Front(@)]
  <2>1. "close" \in Pieces
    BY DEF Pieces
  <2>2. LexPiece(lex, "close") = [Push(lex, IF Top(lex.parens) THEN <<Close>> ELSE <<Sep>>)
                                  EXCEPT !.parens = Front(@)]
    BY DEF LexPiece, Words
  <2> QED
    BY <1>1, <1>2, <2>1, <2>2, LexOutside
<1>5. l.parens = lex.parens /\ Front(lex.parens) \in Seq(BOOLEAN)
  BY <1>3, LexFields, TopFront DEF LexNext
<1>6. Lex(lex, "close") = [l EXCEPT !.parens = Front(lex.parens)]
  BY <1>4, <1>5
<1>7. LexNext(lex, Lex(lex, "close"), toks, Front(lex.parens), lex.tick, lex.heredocs,
              lex.bodies)
  BY <1>3, <1>5, <1>6, LexParens
<1> QED
  BY <1>1, <1>7

LEMMA LexBackquote ==
  ASSUME NEW lex \in LexTypes, lex.bodies = 0
  PROVE  LexNext(lex, Lex(lex, "tick"), IF lex.tick THEN <<Close>> ELSE <<Open>>,
                 lex.parens, ~lex.tick, lex.heredocs, 0)
<1>1. PICK toks \in Seq(Toks) : toks = IF lex.tick THEN <<Close>> ELSE <<Open>>
  BY PieceTokens
<1>2. PICK l \in LexTypes : l = Push(lex, toks)
  BY PushIs DEF LexNext
<1>3. LexNext(lex, l, toks, lex.parens, lex.tick, lex.heredocs, lex.bodies)
  BY <1>2, PushIs
<1>4. Lex(lex, "tick") = [l EXCEPT !.tick = ~@]
  <2>1. "tick" \in Pieces
    BY DEF Pieces
  <2>2. LexPiece(lex, "tick") = [Push(lex, IF lex.tick THEN <<Close>> ELSE <<Open>>)
                                 EXCEPT !.tick = ~@]
    BY DEF LexPiece, Words
  <2> QED
    BY <1>1, <1>2, <2>1, <2>2, LexOutside
<1>5. l.tick = lex.tick /\ (~lex.tick) \in BOOLEAN
  <2>1. l.tick = lex.tick
    BY <1>3 DEF LexNext
  <2>2. lex.tick \in BOOLEAN
    BY LexFields
  <2> QED
    BY <2>1, <2>2
<1>6. Lex(lex, "tick") = [l EXCEPT !.tick = ~lex.tick]
  BY <1>4, <1>5
<1>7. LexNext(lex, Lex(lex, "tick"), toks, lex.parens, ~lex.tick, lex.heredocs, lex.bodies)
  BY <1>3, <1>5, <1>6, LexTick
<1> QED
  BY <1>1, <1>7

LEMMA LexTyped ==
  ASSUME NEW lex \in LexTypes, NEW p \in Pieces
  PROVE  Lex(lex, p) \in LexTypes
<1>1. CASE lex.bodies > 0
  BY <1>1, LexInBody
<1>2. CASE lex.bodies = 0
  <2>1. CASE p \in Words \cup {"eof"}
    BY <1>2, <2>1, LexWord DEF LexNext
  <2>2. CASE p \in {"sep", "newline", "redirect", "dup", "heredoc"}
    BY <1>2, <2>2, LexSep, LexNewline, LexRedirect, LexDup, LexHeredoc DEF LexNext
  <2>3. CASE p \in {"subst", "assignSubst", "group", "close", "tick"}
    BY <1>2, <2>3, LexSubst, LexAssignSubst, LexGroup, LexClose, LexBackquote DEF LexNext
  <2> QED
    BY <2>1, <2>2, <2>3 DEF Pieces
<1>3. lex.bodies \in Nat
  BY LexFields
<1> QED
  BY <1>1, <1>2, <1>3

LEMMA NoTokensTyped == NoTokens \in LexTypes
<1>1. <<>> \in Seq(Toks) /\ <<>> \in Seq(BOOLEAN)
  OBVIOUS
<1> QED
  BY <1>1 DEF NoTokens, LexTypes

\* The reader goes through a script piece by piece.
IsReading(g, s) ==
  g = [n \in 0..Len(s) |-> IF n = 0 THEN NoTokens ELSE Lex(g[n - 1], s[n])]

LEMMA ReadingExists ==
  ASSUME NEW s \in Seq(Pieces)
  PROVE  \E g : IsReading(g, s)
<1> DEFINE N == Len(s)
           goOn == [x \in LexTypes \X (1..N) |-> Lex(x[1], s[x[2]])]
<1>1. N \in Nat /\ \A n \in 1..N : s[n] \in Pieces
  OBVIOUS
<1>2. goOn \in [LexTypes \X (1..N) -> LexTypes]
  BY <1>1, LexTyped
<1>3. \A x \in LexTypes, n \in 1..N : goOn[<<x, n>>] = Lex(x, s[n])
  OBVIOUS
<1> HIDE DEF goOn
<1>4. PICK f \in [0..N -> LexTypes] :
        f[0] = NoTokens /\ \A n \in 1..N : f[n] = goOn[<<f[n - 1], n>>]
  <2>1. N \in Nat
    OBVIOUS
  <2> HIDE DEF N
  <2>2. \E f \in [0..N -> LexTypes] : Recurs(f, N, NoTokens, goOn)
    BY <1>2, <2>1, NoTokensTyped, Recursion
  <2> QED
    BY <2>2 DEF Recurs
<1>5. \A n \in 1..N : f[n - 1] \in LexTypes
  BY <1>1
<1> DEFINE h == [n \in 0..N |-> IF n = 0 THEN NoTokens ELSE Lex(f[n - 1], s[n])]
<1>6. \A n \in 0..N : f[n] = h[n]
  <2> TAKE n \in 0..N
  <2>1. CASE n = 0
    BY <1>4, <2>1
  <2>2. CASE n # 0
    <3>1. n \in 1..N
      BY <1>1, <2>2
    <3> QED
      BY <1>3, <1>4, <1>5, <2>2, <3>1
  <2> QED
    BY <2>1, <2>2
<1>7. f = h
  BY <1>6
<1> QED
  BY <1>7 DEF IsReading

LEMMA ReaderIs ==
  ASSUME NEW s \in Seq(Pieces)
  PROVE  /\ Reader(s)[0] = NoTokens
         /\ \A n \in 1..Len(s) : Reader(s)[n] = Lex(Reader(s)[n - 1], s[n])
         /\ \A n \in 0..Len(s) : Reader(s)[n] \in LexTypes
<1>0. Len(s) \in Nat /\ \A n \in 1..Len(s) : s[n] \in Pieces
  OBVIOUS
<1>1. Reader(s) = [n \in 0..Len(s) |-> IF n = 0 THEN NoTokens ELSE Lex(Reader(s)[n - 1], s[n])]
  <2>1. \E g : g = [n \in 0..Len(s) |-> IF n = 0 THEN NoTokens ELSE Lex(g[n - 1], s[n])]
    BY ReadingExists DEF IsReading
  <2> QED
    BY <2>1 DEF Reader
<1>2. PICK g : g = Reader(s)
  OBVIOUS
<1>3. g = [n \in 0..Len(s) |-> IF n = 0 THEN NoTokens ELSE Lex(g[n - 1], s[n])]
  BY <1>1, <1>2
<1>4. g[0] = NoTokens /\ \A n \in 1..Len(s) : g[n] = Lex(g[n - 1], s[n])
  BY <1>0, <1>3
<1>5. \A n \in 0..Len(s) : g[n] \in LexTypes
  <2> DEFINE Good == {n \in Nat : n \in 0..Len(s) => g[n] \in LexTypes}
  <2>1. 0 \in Good
    BY <1>4, NoTokensTyped
  <2>2. ASSUME NEW n \in 1..Len(s), n - 1 \in Good PROVE n \in Good
    <3>1. n - 1 \in 0..Len(s) /\ n \in Nat
      BY <1>0
    <3>2. g[n - 1] \in LexTypes
      BY <2>2, <3>1
    <3>3. Lex(g[n - 1], s[n]) \in LexTypes
      BY <1>0, <3>2, LexTyped
    <3> QED
      BY <1>4, <3>1, <3>3
  <2>3. 0..Len(s) \subseteq Good
    <3>1. Good \in SUBSET Nat
      OBVIOUS
    <3> HIDE DEF Good
    <3> QED
      BY <1>0, <2>1, <2>2, <3>1, UpTo
  <2> QED
    BY <2>3
<1> QED
  BY <1>2, <1>4, <1>5

-----------------------------------------------------------------------------
(* The second pass.                                                        *)

PassTypes == [start : BOOLEAN, skip : BOOLEAN, saved : Seq(BOOLEAN), words : Seq(TokenWords)]

PassNext(now, start, skip, saved, words) ==
  /\ now \in PassTypes
  /\ now.start = start /\ now.skip = skip /\ now.saved = saved /\ now.words = words

LEMMA PassFields ==
  ASSUME NEW st \in PassTypes
  PROVE  /\ st.start \in BOOLEAN /\ st.skip \in BOOLEAN
         /\ st.saved \in Seq(BOOLEAN) /\ st.words \in Seq(TokenWords)
BY DEF PassTypes

LEMMA TakeSep ==
  ASSUME NEW st \in PassTypes
  PROVE  PassNext(TakeToken(st, Sep), TRUE, st.skip, st.saved, st.words)
<1>1. TakeToken(st, Sep) = [st EXCEPT !.start = TRUE]
  BY OtherTokens DEF TakeToken
<1>2. PassNext([st EXCEPT !.start = TRUE], TRUE, st.skip, st.saved, st.words)
  BY DEF PassNext, PassTypes
<1> QED
  BY <1>1, <1>2

LEMMA TakeRedir ==
  ASSUME NEW st \in PassTypes
  PROVE  PassNext(TakeToken(st, Redir), st.start, TRUE, st.saved, st.words)
<1>1. TakeToken(st, Redir) = [st EXCEPT !.skip = TRUE]
  BY OtherTokens DEF TakeToken
<1>2. PassNext([st EXCEPT !.skip = TRUE], st.start, TRUE, st.saved, st.words)
  BY DEF PassNext, PassTypes
<1> QED
  BY <1>1, <1>2

LEMMA TakeOpen ==
  ASSUME NEW st \in PassTypes
  PROVE  PassNext(TakeToken(st, Open), TRUE, st.skip, Append(st.saved, st.start), st.words)
<1>1. TakeToken(st, Open) = [st EXCEPT !.saved = Append(@, st.start), !.start = TRUE]
  BY OtherTokens DEF TakeToken, OpenSubst
<1>2. Append(st.saved, st.start) \in Seq(BOOLEAN)
  BY PassFields
<1>3. PICK saved \in Seq(BOOLEAN) : saved = Append(st.saved, st.start)
  BY <1>2
<1>4. TakeToken(st, Open) = [st EXCEPT !.saved = saved, !.start = TRUE]
  BY <1>1, <1>3
<1>5. PassNext([st EXCEPT !.saved = saved, !.start = TRUE], TRUE, st.skip, saved, st.words)
  BY DEF PassNext, PassTypes
<1> QED
  BY <1>3, <1>4, <1>5

LEMMA TakeClose ==
  ASSUME NEW st \in PassTypes
  PROVE  PassNext(TakeToken(st, Close), Top(st.saved), st.skip, Front(st.saved), st.words)
<1>1. TakeToken(st, Close) = [st EXCEPT !.start = Top(st.saved), !.saved = Front(@)]
  BY OtherTokens DEF TakeToken, CloseSubst
<1>2. Top(st.saved) \in BOOLEAN /\ Front(st.saved) \in Seq(BOOLEAN)
  BY PassFields, TopFront
<1>3. PICK start \in BOOLEAN : start = Top(st.saved)
  BY <1>2
<1>4. PICK saved \in Seq(BOOLEAN) : saved = Front(st.saved)
  BY <1>2
<1>5. TakeToken(st, Close) = [st EXCEPT !.start = start, !.saved = saved]
  BY <1>1, <1>3, <1>4
<1>6. PassNext([st EXCEPT !.start = start, !.saved = saved], start, st.skip, saved, st.words)
  BY DEF PassNext, PassTypes
<1> QED
  BY <1>3, <1>4, <1>5, <1>6

\* A word is a target, an argument, a prefix of a command, or a command.
LEMMA TakeAWord ==
  ASSUME NEW st \in PassTypes, NEW w \in TokenWords
  PROVE  /\ st.skip => PassNext(TakeToken(st, Word(w)), st.start, FALSE, st.saved, st.words)
         /\ ~st.skip /\ (~st.start \/ w \in {"assign", "keyword"}) =>
              PassNext(TakeToken(st, Word(w)), st.start, FALSE, st.saved, st.words)
         /\ ~st.skip /\ st.start /\ w \notin {"assign", "keyword"} =>
              PassNext(TakeToken(st, Word(w)), FALSE, FALSE, st.saved, Append(st.words, w))
<1>1. TakeToken(st, Word(w)) = TakeWord(st, w)
  BY WordIsToken DEF TakeToken
<1>2. ASSUME st.skip
      PROVE  PassNext(TakeToken(st, Word(w)), st.start, FALSE, st.saved, st.words)
  <2>1. TakeWord(st, w) = [st EXCEPT !.skip = FALSE]
    BY <1>2 DEF TakeWord
  <2>2. PassNext([st EXCEPT !.skip = FALSE], st.start, FALSE, st.saved, st.words)
    BY DEF PassNext, PassTypes
  <2> QED
    BY <1>1, <2>1, <2>2
<1>3. ASSUME ~st.skip, ~st.start \/ w \in {"assign", "keyword"}
      PROVE  PassNext(TakeToken(st, Word(w)), st.start, FALSE, st.saved, st.words)
  <2>1. TakeWord(st, w) = st
    BY <1>3 DEF TakeWord
  <2>2. PassNext(st, st.start, FALSE, st.saved, st.words)
    BY <1>3 DEF PassNext, PassTypes
  <2> QED
    BY <1>1, <2>1, <2>2
<1>4. ASSUME ~st.skip, st.start, w \notin {"assign", "keyword"}
      PROVE  PassNext(TakeToken(st, Word(w)), FALSE, FALSE, st.saved, Append(st.words, w))
  <2>0. st.words \in Seq(TokenWords)
    BY PassFields
  <2>1. PICK words \in Seq(TokenWords) : words = Append(st.words, w)
    BY <2>0, AppendSeq
  <2>2. TakeWord(st, w) = [st EXCEPT !.start = FALSE, !.words = words]
    BY <1>4, <2>1 DEF TakeWord
  <2>3. PassNext([st EXCEPT !.start = FALSE, !.words = words], FALSE, FALSE, st.saved, words)
    <3>1. st.skip = FALSE
      BY <1>4, PassFields
    <3> QED
      BY <3>1 DEF PassNext, PassTypes
  <2> QED
    BY <1>1, <2>1, <2>2, <2>3
<1> QED
  BY <1>2, <1>3, <1>4

LEMMA TokenCases ==
  ASSUME NEW tok \in Toks
  PROVE  tok \in {Sep, Redir, Open, Close} \/ \E w \in TokenWords : tok = Word(w)
BY DEF Toks

LEMMA TakeTyped ==
  ASSUME NEW st \in PassTypes, NEW tok \in Toks
  PROVE  TakeToken(st, tok) \in PassTypes
<1>1. CASE tok \in {Sep, Redir, Open, Close}
  BY <1>1, TakeSep, TakeRedir, TakeOpen, TakeClose DEF PassNext
<1>2. CASE \E w \in TokenWords : tok = Word(w)
  <2>1. PICK w \in TokenWords : tok = Word(w)
    BY <1>2
  <2>2. st.skip \in BOOLEAN /\ st.start \in BOOLEAN
    BY PassFields
  <2> QED
    BY <2>1, <2>2, TakeAWord DEF PassNext
<1> QED
  BY <1>1, <1>2, TokenCases

LEMMA AtStartTyped == PassNext(AtStart, TRUE, FALSE, <<>>, <<>>)
<1>1. <<>> \in Seq(TokenWords) /\ <<>> \in Seq(BOOLEAN)
  OBVIOUS
<1> QED
  BY <1>1 DEF AtStart, PassTypes, PassNext

IsPass(f, toks) ==
  f = [n \in 0..Len(toks) |-> IF n = 0 THEN AtStart ELSE TakeToken(f[n - 1], toks[n])]

LEMMA PassExists ==
  ASSUME NEW toks \in Seq(Toks)
  PROVE  \E g : IsPass(g, toks)
<1> DEFINE N == Len(toks)
           goOn == [x \in PassTypes \X (1..N) |-> TakeToken(x[1], toks[x[2]])]
<1>1. N \in Nat /\ \A n \in 1..N : toks[n] \in Toks
  OBVIOUS
<1>2. goOn \in [PassTypes \X (1..N) -> PassTypes]
  BY <1>1, TakeTyped
<1>3. \A x \in PassTypes, n \in 1..N : goOn[<<x, n>>] = TakeToken(x, toks[n])
  OBVIOUS
<1> HIDE DEF goOn
<1>4. PICK f \in [0..N -> PassTypes] :
        f[0] = AtStart /\ \A n \in 1..N : f[n] = goOn[<<f[n - 1], n>>]
  <2>1. N \in Nat /\ AtStart \in PassTypes
    BY AtStartTyped DEF PassNext
  <2> HIDE DEF N
  <2>2. \E f \in [0..N -> PassTypes] : Recurs(f, N, AtStart, goOn)
    BY <1>2, <2>1, Recursion
  <2> QED
    BY <2>2 DEF Recurs
<1>5. \A n \in 1..N : f[n - 1] \in PassTypes
  BY <1>1
<1> DEFINE h == [n \in 0..N |-> IF n = 0 THEN AtStart ELSE TakeToken(f[n - 1], toks[n])]
<1>6. \A n \in 0..N : f[n] = h[n]
  <2> TAKE n \in 0..N
  <2>1. CASE n = 0
    BY <1>4, <2>1
  <2>2. CASE n # 0
    <3>1. n \in 1..N
      BY <1>1, <2>2
    <3> QED
      BY <1>3, <1>4, <1>5, <2>2, <3>1
  <2> QED
    BY <2>1, <2>2
<1>7. f = h
  BY <1>6
<1> QED
  BY <1>7 DEF IsPass

LEMMA PassIs ==
  ASSUME NEW toks \in Seq(Toks)
  PROVE  /\ Pass(toks)[0] = AtStart
         /\ \A n \in 1..Len(toks) : Pass(toks)[n] = TakeToken(Pass(toks)[n - 1], toks[n])
         /\ \A n \in 0..Len(toks) : Pass(toks)[n] \in PassTypes
<1>0. Len(toks) \in Nat /\ \A n \in 1..Len(toks) : toks[n] \in Toks
  OBVIOUS
<1>1. Pass(toks) = [n \in 0..Len(toks) |->
                      IF n = 0 THEN AtStart ELSE TakeToken(Pass(toks)[n - 1], toks[n])]
  <2>1. \E g : g = [n \in 0..Len(toks) |->
                      IF n = 0 THEN AtStart ELSE TakeToken(g[n - 1], toks[n])]
    BY PassExists DEF IsPass
  <2> QED
    BY <2>1 DEF Pass
<1>2. PICK g : g = Pass(toks)
  OBVIOUS
<1>3. g = [n \in 0..Len(toks) |-> IF n = 0 THEN AtStart ELSE TakeToken(g[n - 1], toks[n])]
  BY <1>1, <1>2
<1>4. g[0] = AtStart /\ \A n \in 1..Len(toks) : g[n] = TakeToken(g[n - 1], toks[n])
  BY <1>0, <1>3
<1>5. \A n \in 0..Len(toks) : g[n] \in PassTypes
  <2> DEFINE Good == {n \in Nat : n \in 0..Len(toks) => g[n] \in PassTypes}
  <2>1. 0 \in Good
    BY <1>4, AtStartTyped DEF PassNext
  <2>2. ASSUME NEW n \in 1..Len(toks), n - 1 \in Good PROVE n \in Good
    <3>1. n - 1 \in 0..Len(toks) /\ n \in Nat
      BY <1>0
    <3>2. g[n - 1] \in PassTypes
      BY <2>2, <3>1
    <3>3. TakeToken(g[n - 1], toks[n]) \in PassTypes
      BY <1>0, <3>2, TakeTyped
    <3> QED
      BY <1>4, <3>1, <3>3
  <2>3. 0..Len(toks) \subseteq Good
    <3>1. Good \in SUBSET Nat
      OBVIOUS
    <3> HIDE DEF Good
    <3> QED
      BY <1>0, <2>1, <2>2, <3>1, UpTo
  <2> QED
    BY <2>3
<1> QED
  BY <1>2, <1>4, <1>5

\* What pieces outside of a body leave alone.
LexKeeping(lex, p) ==
  /\ p # "newline" => Lex(lex, p).bodies = 0
  /\ p \notin {"newline", "heredoc"} => Lex(lex, p).heredocs = lex.heredocs
  /\ p # "tick" => Lex(lex, p).tick = lex.tick
  /\ p \notin {"subst", "assignSubst", "group", "close"} => Lex(lex, p).parens = lex.parens

LEMMA LexKeeps ==
  ASSUME NEW lex \in LexTypes, NEW p \in Pieces, lex.bodies = 0
  PROVE  LexKeeping(lex, p)
<1>1. CASE p \in Words \cup {"eof"}
  BY <1>1, LexWord DEF LexNext, LexKeeping, Words
<1>2. CASE p = "sep"
  BY <1>2, LexSep DEF LexNext, LexKeeping
<1>3. CASE p = "newline"
  BY <1>3, LexNewline DEF LexNext, LexKeeping
<1>4. CASE p = "redirect"
  BY <1>4, LexRedirect DEF LexNext, LexKeeping
<1>5. CASE p = "dup"
  BY <1>5, LexDup DEF LexNext, LexKeeping
<1>6. CASE p = "heredoc"
  BY <1>6, LexHeredoc DEF LexNext, LexKeeping
<1>7. CASE p = "subst"
  BY <1>7, LexSubst DEF LexNext, LexKeeping
<1>8. CASE p = "assignSubst"
  BY <1>8, LexAssignSubst DEF LexNext, LexKeeping
<1>9. CASE p = "group"
  BY <1>9, LexGroup DEF LexNext, LexKeeping
<1>10. CASE p = "close"
  BY <1>10, LexClose DEF LexNext, LexKeeping
<1>11. CASE p = "tick"
  BY <1>11, LexBackquote DEF LexNext, LexKeeping
<1> QED
  BY <1>1, <1>2, <1>3, <1>4, <1>5, <1>6, <1>7, <1>8, <1>9, <1>10, <1>11 DEF Pieces

LEMMA LexAdds ==
  ASSUME NEW lex \in LexTypes, NEW p \in Pieces
  PROVE  \E t \in Seq(Toks) : Lex(lex, p).toks = lex.toks \o t
<1>1. CASE lex.bodies > 0
  <2>1. Lex(lex, p).toks = lex.toks
    BY <1>1, LexInBody
  <2>2. lex.toks \in Seq(Toks) /\ <<>> \in Seq(Toks)
    BY LexFields
  <2>3. lex.toks = lex.toks \o <<>>
    BY <2>2
  <2> QED
    BY <2>1, <2>2, <2>3
<1>2. CASE lex.bodies = 0
  <2>1. CASE p \in Words \cup {"eof"}
    <3>1. Word(p) \in Toks
      BY <2>1, WordIsToken DEF TokenWords
    <3>2. <<Word(p)>> \in Seq(Toks)
      BY <3>1, ShortSeqs
    <3>3. Lex(lex, p).toks = lex.toks \o <<Word(p)>>
      BY <1>2, <2>1, LexWord DEF LexNext
    <3> QED
      BY <3>2, <3>3
  <2>2. CASE p = "sep" \/ p = "newline" \/ p = "group"
    <3>1. Lex(lex, p).toks = lex.toks \o <<Sep>>
      <4>1. CASE p = "sep"
        BY <1>2, <4>1, LexSep DEF LexNext
      <4>2. CASE p = "newline"
        BY <1>2, <4>2, LexNewline DEF LexNext
      <4>3. CASE p = "group"
        BY <1>2, <4>3, LexGroup DEF LexNext
      <4> QED
        BY <2>2, <4>1, <4>2, <4>3
    <3> QED
      BY <3>1, PieceTokens
  <2>3. CASE p = "redirect"
    BY <1>2, <2>3, LexRedirect, PieceTokens DEF LexNext
  <2>4. CASE p = "dup"
    BY <1>2, <2>4, LexDup, PieceTokens DEF LexNext
  <2>5. CASE p = "heredoc"
    BY <1>2, <2>5, LexHeredoc, PieceTokens DEF LexNext
  <2>6. CASE p = "subst"
    BY <1>2, <2>6, LexSubst, PieceTokens DEF LexNext
  <2>7. CASE p = "assignSubst"
    BY <1>2, <2>7, LexAssignSubst, PieceTokens DEF LexNext
  <2>8. CASE p = "close"
    <3>1. Lex(lex, p).toks = lex.toks \o (IF Top(lex.parens) THEN <<Close>> ELSE <<Sep>>)
      BY <1>2, <2>8, LexClose DEF LexNext
    <3>2. (IF Top(lex.parens) THEN <<Close>> ELSE <<Sep>>) \in Seq(Toks)
      BY PieceTokens
    <3> QED
      BY <3>1, <3>2
  <2>9. CASE p = "tick"
    <3>1. Lex(lex, p).toks = lex.toks \o (IF lex.tick THEN <<Close>> ELSE <<Open>>)
      BY <1>2, <2>9, LexBackquote DEF LexNext
    <3>2. (IF lex.tick THEN <<Close>> ELSE <<Open>>) \in Seq(Toks)
      BY PieceTokens
    <3> QED
      BY <3>1, <3>2
  <2> QED
    BY <2>1, <2>2, <2>3, <2>4, <2>5, <2>6, <2>7, <2>8, <2>9 DEF Pieces
<1>3. lex.bodies \in Nat
  BY LexFields
<1> QED
  BY <1>1, <1>2, <1>3

Begins(a, b) == Len(a) <= Len(b) /\ \A k \in 1..Len(a) : a[k] = b[k]

LEMMA BeginsLonger ==
  ASSUME NEW S, NEW a \in Seq(S), NEW b \in Seq(S), NEW t \in Seq(S), Begins(a, b)
  PROVE  Begins(a, b \o t)
<1>1. Len(b \o t) = Len(b) + Len(t) /\ \A k \in 1..Len(b) : (b \o t)[k] = b[k]
  OBVIOUS
<1>2. Len(a) \in Nat /\ Len(b) \in Nat /\ Len(t) \in Nat
  OBVIOUS
<1> QED
  BY <1>1, <1>2 DEF Begins

LEMMA TokensGrow ==
  ASSUME NEW s \in Seq(Pieces), NEW n \in 0..Len(s)
  PROVE  Begins(Reader(s)[n].toks, Tokens(s))
<1> DEFINE Good == {m \in Nat : m \in n..Len(s) => Begins(Reader(s)[n].toks, Reader(s)[m].toks)}
<1>0. Len(s) \in Nat /\ n \in Nat /\ \A k \in 1..Len(s) : s[k] \in Pieces
  OBVIOUS
<1>1. \A m \in 0..Len(s) : Reader(s)[m] \in LexTypes /\ Reader(s)[m].toks \in Seq(Toks)
  BY ReaderIs, LexFields
<1>2. ASSUME NEW m \in 1..Len(s), m - 1 \in Good PROVE m \in Good
  <2>1. CASE m < n
    BY <1>0, <2>1
  <2>2. CASE m = n
    BY <1>0, <2>2 DEF Begins
  <2>3. CASE m > n
    <3>1. m - 1 \in n..Len(s) /\ m - 1 \in 0..Len(s) /\ s[m] \in Pieces
      BY <1>0, <2>3
    <3>2. Begins(Reader(s)[n].toks, Reader(s)[m - 1].toks)
      BY <1>2, <3>1
    <3>3. Reader(s)[m] = Lex(Reader(s)[m - 1], s[m])
      BY ReaderIs
    <3>4. PICK t \in Seq(Toks) : Reader(s)[m].toks = Reader(s)[m - 1].toks \o t
      BY <1>1, <3>1, <3>3, LexAdds
    <3>5. Reader(s)[m - 1].toks \in Seq(Toks) /\ Reader(s)[n].toks \in Seq(Toks)
      BY <1>1, <3>1
    <3>6. Begins(Reader(s)[n].toks, Reader(s)[m].toks)
      BY <3>2, <3>4, <3>5, BeginsLonger
    <3> QED
      BY <3>6
  <2> QED
    BY <1>0, <2>1, <2>2, <2>3
<1>3. 0 \in Good
  <2>1. CASE n = 0
    BY <2>1 DEF Begins
  <2>2. CASE n # 0
    BY <1>0, <2>2
  <2> QED
    BY <2>1, <2>2
<1>4. 0..Len(s) \subseteq Good
  <2>1. Good \in SUBSET Nat
    OBVIOUS
  <2> HIDE DEF Good
  <2> QED
    BY <1>0, <1>2, <1>3, <2>1, UpTo
<1>5. Len(s) \in Good /\ Len(s) \in n..Len(s)
  BY <1>0, <1>4
<1> QED
  BY <1>5 DEF Tokens

\* The second pass behind the tokens of the first n pieces.
After(s, n) == Pass(Tokens(s))[Len(Reader(s)[n].toks)]

LEMMA AfterTyped ==
  ASSUME NEW s \in Seq(Pieces), NEW n \in 0..Len(s)
  PROVE  After(s, n) \in PassTypes
<1>1. Tokens(s) \in Seq(Toks) /\ Reader(s)[n].toks \in Seq(Toks)
  <2>1. Len(s) \in 0..Len(s)
    OBVIOUS
  <2> QED
    BY <2>1, ReaderIs, LexFields DEF Tokens
<1>2. Len(Reader(s)[n].toks) \in 0..Len(Tokens(s))
  <2>1. Begins(Reader(s)[n].toks, Tokens(s))
    BY TokensGrow
  <2> QED
    BY <1>1, <2>1 DEF Begins
<1> QED
  BY <1>1, <1>2, PassIs DEF After

LEMMA AfterFirst ==
  ASSUME NEW s \in Seq(Pieces)
  PROVE  After(s, 0) = AtStart
<1>1. Tokens(s) \in Seq(Toks)
  <2>1. Len(s) \in 0..Len(s)
    OBVIOUS
  <2> QED
    BY <2>1, ReaderIs, LexFields DEF Tokens
<1>2. Len(Reader(s)[0].toks) = 0
  BY ReaderIs DEF NoTokens
<1> QED
  BY <1>1, <1>2, PassIs DEF After

LEMMA AfterTakes ==
  ASSUME NEW s \in Seq(Pieces), NEW n \in Nat, n + 1 \in DOMAIN s
  PROVE  /\ Reader(s)[n + 1].toks = Reader(s)[n].toks => After(s, n + 1) = After(s, n)
         /\ \A a \in Toks :
              Reader(s)[n + 1].toks = Reader(s)[n].toks \o <<a>> =>
                After(s, n + 1) = TakeToken(After(s, n), a)
         /\ \A a \in Toks, b \in Toks :
              Reader(s)[n + 1].toks = Reader(s)[n].toks \o <<a, b>> =>
                After(s, n + 1) = TakeToken(TakeToken(After(s, n), a), b)
<1>0. Len(s) \in Nat /\ Len(s) \in 0..Len(s) /\ n \in 0..Len(s) /\ n + 1 \in 0..Len(s)
  OBVIOUS
<1>1. PICK all \in Seq(Toks) : all = Tokens(s)
  BY <1>0, ReaderIs, LexFields DEF Tokens
<1>2. PICK x \in Seq(Toks) : x = Reader(s)[n].toks
  BY <1>0, ReaderIs, LexFields
<1>3. PICK y \in Seq(Toks) : y = Reader(s)[n + 1].toks
  BY <1>0, ReaderIs, LexFields
<1>4. PICK l \in Nat : l = Len(x)
  OBVIOUS
<1>5. Len(y) <= Len(all) /\ \A k \in 1..Len(y) : y[k] = all[k]
  <2>1. Begins(y, all)
    BY <1>0, <1>1, <1>3, TokensGrow
  <2> QED
    BY <2>1 DEF Begins
<1>6. After(s, n) = Pass(all)[l] /\ After(s, n + 1) = Pass(all)[Len(y)]
  BY <1>1, <1>2, <1>3, <1>4 DEF After
<1>7. \A k \in 1..Len(all) : Pass(all)[k] = TakeToken(Pass(all)[k - 1], all[k])
  BY PassIs
<1>8. ASSUME NEW a \in Toks, y = x \o <<a>>
      PROVE  After(s, n + 1) = TakeToken(After(s, n), a)
  <2>1. Len(y) = l + 1 /\ y[l + 1] = a
    BY <1>4, <1>8
  <2>2. l + 1 \in 1..Len(y) /\ l + 1 \in 1..Len(all) /\ (l + 1) - 1 = l
    BY <1>5, <2>1
  <2>3. all[l + 1] = a
    BY <1>5, <2>1, <2>2
  <2>4. Pass(all)[l + 1] = TakeToken(Pass(all)[l], a)
    BY <1>7, <2>2, <2>3
  <2> QED
    BY <1>6, <2>1, <2>4
<1>9. ASSUME NEW a \in Toks, NEW b \in Toks, y = x \o <<a, b>>
      PROVE  After(s, n + 1) = TakeToken(TakeToken(After(s, n), a), b)
  <2>1. Len(y) = l + 2 /\ y[l + 1] = a /\ y[l + 2] = b
    BY <1>4, <1>9
  <2>2. /\ l + 1 \in 1..Len(y) /\ l + 1 \in 1..Len(all) /\ (l + 1) - 1 = l
        /\ l + 2 \in 1..Len(y) /\ l + 2 \in 1..Len(all) /\ (l + 2) - 1 = l + 1
    BY <1>5, <2>1
  <2>3. all[l + 1] = a /\ all[l + 2] = b
    BY <1>5, <2>1, <2>2
  <2>4. Pass(all)[l + 1] = TakeToken(Pass(all)[l], a)
    BY <1>7, <2>2, <2>3
  <2>5. Pass(all)[l + 2] = TakeToken(Pass(all)[l + 1], b)
    BY <1>7, <2>2, <2>3
  <2> QED
    BY <1>6, <2>1, <2>4, <2>5
<1>10. y = x => After(s, n + 1) = After(s, n)
  BY <1>4, <1>6
<1> QED
  BY <1>2, <1>3, <1>8, <1>9, <1>10

-----------------------------------------------------------------------------
(* The bodies of heredocs.                                                 *)

\* How many bodies of the heredocs of the line that m ends are not ended by n.
LeftBodies(s, m, n) ==
  Cardinality(HeredocsOfLine(s, m)) - Cardinality({k \in (m + 1)..n : s[k] = "eof"})

LEMMA BodiesLeft ==
  ASSUME NEW s, NEW m \in Nat, NEW n \in Nat, m <= n
  PROVE  /\ Cardinality(HeredocsOfLine(s, m)) \in Nat
         /\ LeftBodies(s, m, n) \in Int
         /\ LeftBodies(s, m, m) = Cardinality(HeredocsOfLine(s, m))
         /\ s[n + 1] = "eof" => LeftBodies(s, m, n + 1) = LeftBodies(s, m, n) - 1
         /\ s[n + 1] # "eof" => LeftBodies(s, m, n + 1) = LeftBodies(s, m, n)
<1>1. Cardinality(HeredocsOfLine(s, m)) \in Nat
  <2>1. HeredocsOfLine(s, m) \subseteq 1..m /\ IsFiniteSet(1..m)
    BY FS_Interval DEF HeredocsOfLine
  <2>2. IsFiniteSet(HeredocsOfLine(s, m))
    BY <2>1, FS_Subset
  <2> QED
    BY <2>2, FS_CardinalityType
<1> DEFINE S == {k \in Nat : k > m /\ s[k] = "eof"}
<1>2. S \in SUBSET Nat /\ n + 1 \in Nat /\ (n + 1 \in S <=> s[n + 1] = "eof")
  OBVIOUS
<1>3. /\ {k \in (m + 1)..n : s[k] = "eof"} = S \cap (1..n)
      /\ {k \in (m + 1)..(n + 1) : s[k] = "eof"} = S \cap (1..(n + 1))
  OBVIOUS
<1>4. {k \in (m + 1)..m : s[k] = "eof"} = {} /\ Cardinality({}) = 0
  BY FS_EmptySet
<1> HIDE DEF S
<1>5. /\ Cardinality(S \cap (1..n)) \in Nat
      /\ n + 1 \in S => Cardinality(S \cap (1..(n + 1))) = Cardinality(S \cap (1..n)) + 1
      /\ n + 1 \notin S => Cardinality(S \cap (1..(n + 1))) = Cardinality(S \cap (1..n))
  BY <1>2, CountTo
<1>6. PICK h \in Nat : h = Cardinality(HeredocsOfLine(s, m))
  BY <1>1
<1>7. LeftBodies(s, m, m) = h
  <2>1. LeftBodies(s, m, m) = h - Cardinality({k \in (m + 1)..m : s[k] = "eof"})
    BY <1>6 DEF LeftBodies
  <2>2. PICK S0 : S0 = {k \in (m + 1)..m : s[k] = "eof"}
    OBVIOUS
  <2>3. S0 = {}
    BY <1>4, <2>2
  <2>4. Cardinality(S0) = 0
    BY <1>4, <2>3
  <2> QED
    BY <1>6, <2>1, <2>2, <2>4
<1>8. /\ LeftBodies(s, m, n) = h - Cardinality(S \cap (1..n))
      /\ LeftBodies(s, m, n + 1) = h - Cardinality(S \cap (1..(n + 1)))
  BY <1>3, <1>6 DEF LeftBodies
<1> QED
  BY <1>2, <1>5, <1>6, <1>7, <1>8

LEMMA AnnouncedGrows ==
  ASSUME NEW s, NEW n \in Nat
  PROVE  /\ IsFiniteSet(Announced(s, n)) /\ n + 1 \notin Announced(s, n)
         /\ s[n + 1] = "newline" =>
              Announced(s, n + 1) = {} /\ HeredocsOfLine(s, n + 1) = Announced(s, n)
         /\ s[n + 1] = "heredoc" => Announced(s, n + 1) = Announced(s, n) \cup {n + 1}
         /\ s[n + 1] \notin {"newline", "heredoc"} => Announced(s, n + 1) = Announced(s, n)
<1>1. IsFiniteSet(Announced(s, n)) /\ n + 1 \notin Announced(s, n)
  <2>1. Announced(s, n) \subseteq 1..n /\ IsFiniteSet(1..n)
    BY FS_Interval DEF Announced
  <2> QED
    BY <2>1, FS_Subset
<1>2. \A h, k \in Nat : h <= n => (k \in h..(n + 1) <=> k \in h..n \/ k = n + 1)
  OBVIOUS
<1>3. ASSUME s[n + 1] = "newline"
      PROVE  Announced(s, n + 1) = {} /\ HeredocsOfLine(s, n + 1) = Announced(s, n)
  <2>1. \A h \in 1..(n + 1) : n + 1 \in h..(n + 1)
    OBVIOUS
  <2>2. Announced(s, n + 1) = {}
    BY <1>3, <2>1 DEF Announced
  <2>3. ASSUME NEW h PROVE h \in HeredocsOfLine(s, n + 1) <=> h \in Announced(s, n)
    <3>1. (n + 1) - 1 = n /\ (h \in 1..(n + 1) <=> h \in 1..n \/ h = n + 1)
      OBVIOUS
    <3> QED
      BY <1>3, <3>1 DEF Announced, HeredocsOfLine
  <2> QED
    BY <2>2, <2>3
<1>4. ASSUME s[n + 1] # "newline", NEW h \in 1..n
      PROVE  h \in Announced(s, n + 1) <=> h \in Announced(s, n)
  <2>1. \A k : k \in h..(n + 1) <=> k \in h..n \/ k = n + 1
    OBVIOUS
  <2>2. "newline" \in {s[k] : k \in h..(n + 1)} <=> "newline" \in {s[k] : k \in h..n}
    BY <1>4, <2>1
  <2> QED
    BY <2>2 DEF Announced
<1>5. \A h : h \in 1..(n + 1) <=> h \in 1..n \/ h = n + 1
  OBVIOUS
<1>6. Announced(s, n + 1) \subseteq 1..(n + 1) /\ Announced(s, n) \subseteq 1..n
  BY DEF Announced
<1>7. s[n + 1] = "heredoc" => n + 1 \in Announced(s, n + 1)
  <2>1. \A k \in (n + 1)..(n + 1) : k = n + 1
    OBVIOUS
  <2> QED
    BY <2>1 DEF Announced
<1>8. s[n + 1] # "heredoc" => n + 1 \notin Announced(s, n + 1)
  BY DEF Announced
<1> QED
  BY <1>1, <1>3, <1>4, <1>5, <1>6, <1>7, <1>8

BodiesOf(s, n, lex) ==
  /\ lex.heredocs = Cardinality(Announced(s, n))
  /\ \A m \in 1..n : s[m] = "newline" => LeftBodies(s, m, n) <= lex.bodies
  /\ lex.bodies > 0 => \E m \in 1..n : s[m] = "newline" /\ LeftBodies(s, m, n) = lex.bodies

LEMMA InBodyIs ==
  ASSUME NEW s, NEW n \in Nat, NEW lex \in LexTypes, BodiesOf(s, n, lex)
  PROVE  InBody(s, n + 1) <=> lex.bodies > 0
<1>1. (n + 1) - 1 = n /\ lex.bodies \in Nat
  BY LexFields
<1>2. ASSUME NEW m \in 1..n
      PROVE  /\ LeftBodies(s, m, n) \in Int
             /\ Cardinality({k \in (m + 1)..n : s[k] = "eof"})
                  < Cardinality(HeredocsOfLine(s, m)) <=> LeftBodies(s, m, n) > 0
  <2> DEFINE S == {k \in Nat : k > m /\ s[k] = "eof"}
  <2>1. S \in SUBSET Nat /\ {k \in (m + 1)..n : s[k] = "eof"} = S \cap (1..n)
    OBVIOUS
  <2>2. Cardinality({k \in (m + 1)..n : s[k] = "eof"}) \in Nat
    <3>1. Cardinality(S \cap (1..n)) \in Nat
      <4> HIDE DEF S
      <4> QED
        BY <2>1, CountTo
    <3> QED
      BY <2>1, <3>1
  <2>3. Cardinality(HeredocsOfLine(s, m)) \in Nat
    BY BodiesLeft
  <2> QED
    BY <2>2, <2>3 DEF LeftBodies
<1>3. InBody(s, n + 1) <=> \E m \in 1..n : s[m] = "newline" /\ LeftBodies(s, m, n) > 0
  BY <1>1, <1>2 DEF InBody
<1>4. \A m \in 1..n : s[m] = "newline" => LeftBodies(s, m, n) <= lex.bodies
  BY DEF BodiesOf
<1>5. lex.bodies > 0 => \E m \in 1..n : s[m] = "newline" /\ LeftBodies(s, m, n) = lex.bodies
  BY DEF BodiesOf
<1>6. ASSUME NEW m \in 1..n, s[m] = "newline", LeftBodies(s, m, n) > 0 PROVE lex.bodies > 0
  <2>1. LeftBodies(s, m, n) \in Int /\ LeftBodies(s, m, n) <= lex.bodies
    BY <1>2, <1>4, <1>6
  <2> QED
    BY <1>1, <1>6, <2>1
<1> QED
  BY <1>3, <1>5, <1>6

\* What a piece that fits does not do.
LEMMA PieceFits ==
  ASSUME NEW s, Fitting(s), NEW n \in Nat, n + 1 \in DOMAIN s
  PROVE  /\ s[n + 1] \in Pieces /\ n \in 0..Len(s) /\ n + 1 \in 0..Len(s) /\ n + 1 \in 1..Len(s)
         /\ InBody(s, n + 1) => s[n + 1] \in {"other", "tick", "eof"}
         /\ ~InBody(s, n + 1) => s[n + 1] # "eof"
<1>1. s \in Seq(Pieces) /\ Fits(s, n + 1)
  BY DEF Fitting
<1>2. s[n + 1] \in Pieces /\ n \in 0..Len(s) /\ n + 1 \in 0..Len(s) /\ n + 1 \in 1..Len(s)
  BY <1>1
<1> QED
  BY <1>1, <1>2 DEF Fits

LEMMA BodiesKept ==
  ASSUME NEW s, Fitting(s), NEW n \in Nat, n + 1 \in DOMAIN s,
         BodiesOf(s, n, Reader(s)[n])
  PROVE  BodiesOf(s, n + 1, Reader(s)[n + 1])
<1>1. s \in Seq(Pieces) /\ s[n + 1] \in Pieces
  BY PieceFits, FittingIs
<1>2. /\ Reader(s)[n] \in LexTypes /\ Reader(s)[n + 1] \in LexTypes
      /\ Reader(s)[n + 1] = Lex(Reader(s)[n], s[n + 1])
  <2>1. n \in 0..Len(s) /\ n + 1 \in 0..Len(s) /\ n + 1 \in 1..Len(s) /\ (n + 1) - 1 = n
    BY PieceFits
  <2> QED
    BY <1>1, <2>1, ReaderIs
<1>3. PICK x \in LexTypes : x = Reader(s)[n]
  BY <1>2
<1>4. PICK y \in LexTypes : y = Reader(s)[n + 1] /\ y = Lex(x, s[n + 1])
  BY <1>2, <1>3
<1>5. /\ x.heredocs = Cardinality(Announced(s, n))
      /\ \A m \in 1..n : s[m] = "newline" => LeftBodies(s, m, n) <= x.bodies
      /\ x.bodies > 0 => \E m \in 1..n : s[m] = "newline" /\ LeftBodies(s, m, n) = x.bodies
      /\ BodiesOf(s, n, x)
  BY <1>3 DEF BodiesOf
<1>6. InBody(s, n + 1) <=> x.bodies > 0
  BY <1>5, InBodyIs
<1>7. x.bodies \in Nat /\ x.heredocs \in Nat /\ y.bodies \in Nat
  BY LexFields
<1>8. \A m \in 1..n : /\ LeftBodies(s, m, n) \in Int
                      /\ s[n + 1] = "eof" => LeftBodies(s, m, n + 1) = LeftBodies(s, m, n) - 1
                      /\ s[n + 1] # "eof" => LeftBodies(s, m, n + 1) = LeftBodies(s, m, n)
  <2> TAKE m \in 1..n
  <2>1. m \in Nat /\ m <= n
    OBVIOUS
  <2> QED
    BY <2>1, BodiesLeft
<1>9. \A m \in 1..(n + 1) : m \in 1..n \/ m = n + 1
  OBVIOUS
<1>10. 1..n \subseteq 1..(n + 1) /\ n + 1 \in 1..(n + 1)
  OBVIOUS
<1>11. CASE InBody(s, n + 1)
  <2>1. s[n + 1] \in {"other", "tick", "eof"}
    BY <1>11, PieceFits
  <2>2. /\ y.heredocs = x.heredocs
        /\ s[n + 1] = "eof" => y.bodies = x.bodies - 1
        /\ s[n + 1] # "eof" => y.bodies = x.bodies
    BY <1>4, <1>6, <1>11, LexInBody
  <2>3. Announced(s, n + 1) = Announced(s, n)
    BY <2>1, AnnouncedGrows
  <2>4. s[n + 1] # "newline"
    BY <2>1
  <2>5. \A m \in 1..(n + 1) : s[m] = "newline" => LeftBodies(s, m, n + 1) <= y.bodies
    BY <1>5, <1>7, <1>8, <1>9, <2>2, <2>4
  <2>6. \E m \in 1..(n + 1) : s[m] = "newline" /\ LeftBodies(s, m, n + 1) = y.bodies
    <3>1. PICK m \in 1..n : s[m] = "newline" /\ LeftBodies(s, m, n) = x.bodies
      BY <1>5, <1>6, <1>11
    <3>2. LeftBodies(s, m, n + 1) = y.bodies
      BY <1>8, <2>2, <3>1
    <3> QED
      BY <1>10, <3>1, <3>2
  <2> QED
    BY <1>4, <1>5, <2>2, <2>3, <2>5, <2>6 DEF BodiesOf
<1>12. CASE ~InBody(s, n + 1) /\ s[n + 1] = "newline"
  <2>1. x.bodies = 0
    BY <1>6, <1>7, <1>12
  <2>2. y.heredocs = 0 /\ y.bodies = x.heredocs
    BY <1>4, <1>12, <2>1, LexNewline DEF LexNext
  <2>3. Announced(s, n + 1) = {} /\ HeredocsOfLine(s, n + 1) = Announced(s, n)
    BY <1>12, AnnouncedGrows
  <2>4. LeftBodies(s, n + 1, n + 1) = y.bodies
    <3>1. LeftBodies(s, n + 1, n + 1) = Cardinality(HeredocsOfLine(s, n + 1))
      <4>1. n + 1 \in Nat /\ n + 1 <= n + 1
        OBVIOUS
      <4> QED
        BY <4>1, BodiesLeft
    <3> QED
      BY <1>5, <2>2, <2>3, <3>1
  <2>5. \A m \in 1..(n + 1) : s[m] = "newline" => LeftBodies(s, m, n + 1) <= y.bodies
    BY <1>5, <1>7, <1>8, <1>9, <1>12, <2>1, <2>4
  <2>6. y.heredocs = Cardinality(Announced(s, n + 1))
    BY <2>2, <2>3, FS_EmptySet
  <2> QED
    BY <1>4, <1>10, <1>12, <2>4, <2>5, <2>6 DEF BodiesOf
<1>13. CASE ~InBody(s, n + 1) /\ s[n + 1] # "newline"
  <2>1. x.bodies = 0 /\ s[n + 1] # "eof"
    BY <1>6, <1>7, <1>13, PieceFits
  <2>2. y.bodies = 0 /\ y.heredocs = Cardinality(Announced(s, n + 1))
    <3>1. CASE s[n + 1] = "heredoc"
      <4>1. y.bodies = 0 /\ y.heredocs = x.heredocs + 1
        BY <1>4, <2>1, <3>1, LexHeredoc DEF LexNext
      <4>2. Announced(s, n + 1) = Announced(s, n) \cup {n + 1}
        BY <3>1, AnnouncedGrows
      <4>3. Cardinality(Announced(s, n) \cup {n + 1}) = Cardinality(Announced(s, n)) + 1
        BY AnnouncedGrows, FS_AddElement
      <4> QED
        BY <1>5, <4>1, <4>2, <4>3
    <3>2. CASE s[n + 1] # "heredoc"
      <4>1. Announced(s, n + 1) = Announced(s, n)
        BY <1>13, <3>2, AnnouncedGrows
      <4>2. y.bodies = 0 /\ y.heredocs = x.heredocs
        BY <1>1, <1>4, <1>13, <2>1, <3>2, LexKeeps DEF LexKeeping
      <4> QED
        BY <1>5, <4>1, <4>2
    <3> QED
      BY <3>1, <3>2
  <2>3. \A m \in 1..(n + 1) : s[m] = "newline" => LeftBodies(s, m, n + 1) <= y.bodies
    BY <1>5, <1>8, <1>9, <1>13, <2>1, <2>2
  <2> QED
    BY <1>4, <2>2, <2>3 DEF BodiesOf
<1> QED
  BY <1>11, <1>12, <1>13

\* The reader skips what is in a body, and nothing else.
LEMMA BodiesAre ==
  ASSUME NEW s, Fitting(s), NEW n \in 0..Len(s)
  PROVE  InBody(s, n + 1) <=> Reader(s)[n].bodies > 0
<1> DEFINE Good == {m \in Nat : m \in 0..Len(s) => BodiesOf(s, m, Reader(s)[m])}
<1>1. s \in Seq(Pieces) /\ Len(s) \in Nat /\ DOMAIN s = 1..Len(s)
  BY FittingIs
<1>2. 0 \in Good
  <2>1. Reader(s)[0] = NoTokens /\ NoTokens.heredocs = 0 /\ NoTokens.bodies = 0
    BY <1>1, ReaderIs DEF NoTokens
  <2>2. Announced(s, 0) = {} /\ 1..0 = {}
    BY DEF Announced
  <2>3. Cardinality(Announced(s, 0)) = 0
    BY <2>2, FS_EmptySet
  <2>4. PICK x : x = Reader(s)[0] /\ x.heredocs = 0 /\ x.bodies = 0
    BY <2>1
  <2>5. BodiesOf(s, 0, x)
    BY <2>2, <2>3, <2>4 DEF BodiesOf
  <2> QED
    BY <2>4, <2>5
<1>3. ASSUME NEW m \in 1..Len(s), m - 1 \in Good PROVE m \in Good
  <2>1. PICK l \in Nat : l = m - 1 /\ m = l + 1 /\ l + 1 \in DOMAIN s /\ l \in 0..Len(s)
    BY <1>1
  <2>2. BodiesOf(s, l, Reader(s)[l])
    BY <1>3, <2>1
  <2>3. BodiesOf(s, l + 1, Reader(s)[l + 1])
    BY <2>1, <2>2, BodiesKept
  <2> QED
    BY <2>1, <2>3
<1>4. 0..Len(s) \subseteq Good
  <2>1. Good \in SUBSET Nat
    OBVIOUS
  <2> HIDE DEF Good
  <2> QED
    BY <1>1, <1>2, <1>3, <2>1, UpTo
<1>5. BodiesOf(s, n, Reader(s)[n]) /\ n \in Nat
  BY <1>1, <1>4
<1>6. Reader(s)[n] \in LexTypes
  BY <1>1, ReaderIs
<1> QED
  BY <1>5, <1>6, InBodyIs

\* What the reader makes of a piece.
LEMMA Reads ==
  ASSUME NEW s, Fitting(s), NEW n \in Nat, n + 1 \in DOMAIN s
  PROVE  /\ Reader(s)[n] \in LexTypes
         /\ Reader(s)[n + 1] = Lex(Reader(s)[n], s[n + 1])
         /\ InBody(s, n + 1) => Reader(s)[n].bodies > 0
         /\ ~InBody(s, n + 1) => Reader(s)[n].bodies = 0
<1>1. s \in Seq(Pieces)
  BY FittingIs
<1>2. n \in 0..Len(s) /\ n + 1 \in 1..Len(s) /\ (n + 1) - 1 = n
  BY PieceFits
<1>3. Reader(s)[n] \in LexTypes /\ Reader(s)[n + 1] = Lex(Reader(s)[n], s[n + 1])
  BY <1>1, <1>2, ReaderIs
<1>4. Reader(s)[n].bodies \in Nat
  BY <1>3, LexFields
<1> QED
  BY <1>2, <1>3, <1>4, BodiesAre

\* The reader knows whether it stands between backquotes.
LEMMA TickIs ==
  ASSUME NEW s, Fitting(s), NEW n \in 0..Len(s)
  PROVE  Reader(s)[n].tick <=> TicksTo(s, n) % 2 = 1
<1> DEFINE Good == {m \in Nat : m \in 0..Len(s) => (Reader(s)[m].tick <=> TicksTo(s, m) % 2 =
                                                    1)}
<1>1. s \in Seq(Pieces) /\ Len(s) \in Nat /\ DOMAIN s = 1..Len(s)
  BY FittingIs
<1>2. 0 \in Good
  <2>1. Reader(s)[0].tick = FALSE /\ TicksTo(s, 0) = 0
    BY <1>1, ReaderIs, NoneYet DEF NoTokens
  <2> QED
    BY <2>1
<1>3. ASSUME NEW m \in 1..Len(s), m - 1 \in Good PROVE m \in Good
  <2>1. PICK l \in Nat : l = m - 1 /\ m = l + 1 /\ l + 1 \in DOMAIN s /\ l \in 0..Len(s)
    BY <1>1
  <2>2. Reader(s)[l].tick <=> TicksTo(s, l) % 2 = 1
    BY <1>3, <2>1
  <2>3. PICK x \in LexTypes : x = Reader(s)[l] /\ Reader(s)[l + 1] = Lex(x, s[l + 1])
    BY <2>1, Reads
  <2>4. x.tick \in BOOLEAN /\ TicksTo(s, l) \in Nat
    BY LexFields, TicksGrow
  <2>5. CASE InBody(s, l + 1)
    <3>1. Lex(x, s[l + 1]).tick = x.tick
      BY <2>1, <2>3, <2>5, Reads, LexInBody
    <3>2. TicksTo(s, l + 1) = TicksTo(s, l)
      BY <2>5, TicksGrow
    <3> QED
      BY <2>1, <2>2, <2>3, <3>1, <3>2
  <2>6. CASE ~InBody(s, l + 1) /\ s[l + 1] = "tick"
    <3>1. x.bodies = 0
      BY <2>1, <2>3, <2>6, Reads
    <3>2. Lex(x, s[l + 1]).tick = ~x.tick
      BY <2>6, <3>1, LexBackquote DEF LexNext
    <3>3. TicksTo(s, l + 1) = TicksTo(s, l) + 1
      BY <2>6, TicksGrow
    <3>4. (TicksTo(s, l) + 1) % 2 = 1 <=> ~(TicksTo(s, l) % 2 = 1)
      BY <2>4
    <3>5. Reader(s)[m].tick = ~x.tick /\ TicksTo(s, m) = TicksTo(s, l) + 1
      BY <2>1, <2>3, <3>2, <3>3
    <3>6. x.tick <=> TicksTo(s, l) % 2 = 1
      BY <2>2, <2>3
    <3>7. TicksTo(s, m) % 2 = 1 <=> ~(TicksTo(s, l) % 2 = 1)
      BY <3>4, <3>5
    <3>8. Reader(s)[m].tick <=> ~x.tick
      BY <3>5, Zenon
    <3>9. Reader(s)[m].tick <=> TicksTo(s, m) % 2 = 1
      BY <3>6, <3>7, <3>8, Zenon
    <3>10. m \in Nat
      OBVIOUS
    <3> QED
      BY <3>9, <3>10, Zenon
  <2>7. CASE ~InBody(s, l + 1) /\ s[l + 1] # "tick"
    <3>1. x.bodies = 0 /\ s[l + 1] \in Pieces
      BY <2>1, <2>3, <2>7, Reads, PieceFits
    <3>2. Lex(x, s[l + 1]).tick = x.tick
      BY <2>7, <3>1, LexKeeps DEF LexKeeping
    <3>3. TicksTo(s, l + 1) = TicksTo(s, l)
      BY <2>7, TicksGrow
    <3> QED
      BY <2>1, <2>2, <2>3, <3>2, <3>3
  <2> QED
    BY <2>5, <2>6, <2>7
<1>4. 0..Len(s) \subseteq Good
  <2>1. Good \in SUBSET Nat
    OBVIOUS
  <2> HIDE DEF Good
  <2> QED
    BY <1>1, <1>2, <1>3, <2>1, UpTo
<1> QED
  BY <1>4

-----------------------------------------------------------------------------
(* What a piece changes: the reader's parentheses and the second pass.     *)

Behind(s, n, start, skip, saved, words, parens) ==
  PassNext(After(s, n), start, skip, saved, words) /\ Reader(s)[n].parens = parens

LEMMA AfterFields ==
  ASSUME NEW s, Fitting(s), NEW n \in Nat, n + 1 \in DOMAIN s
  PROVE  /\ After(s, n) \in PassTypes
         /\ After(s, n).start \in BOOLEAN /\ After(s, n).skip \in BOOLEAN
         /\ After(s, n).saved \in Seq(BOOLEAN) /\ After(s, n).words \in Seq(TokenWords)
<1>1. After(s, n) \in PassTypes
  BY PieceFits, FittingIs, AfterTyped
<1> QED
  BY <1>1, PassFields

LEMMA BehindBody ==
  ASSUME NEW s, Fitting(s), NEW n \in Nat, n + 1 \in DOMAIN s, InBody(s, n + 1)
  PROVE  After(s, n + 1) = After(s, n) /\ Reader(s)[n + 1].parens = Reader(s)[n].parens
<1>1. PICK x \in LexTypes : x = Reader(s)[n] /\ Reader(s)[n + 1] = Lex(x, s[n + 1])
        /\ x.bodies > 0
  BY Reads
<1>2. Lex(x, s[n + 1]).toks = x.toks /\ Lex(x, s[n + 1]).parens = x.parens
  BY <1>1, LexInBody
<1>3. After(s, n + 1) = After(s, n)
  BY <1>1, <1>2, FittingIs, AfterTakes
<1> QED
  BY <1>1, <1>2, <1>3

\* Outside of a body.
Piece(s, n) == Fitting(s) /\ n \in Nat /\ n + 1 \in DOMAIN s /\ ~InBody(s, n + 1)

LEMMA PieceIs ==
  ASSUME NEW s, NEW n, Piece(s, n)
  PROVE  /\ s \in Seq(Pieces) /\ n \in Nat /\ n + 1 \in DOMAIN s
         /\ After(s, n) \in PassTypes
         /\ Reader(s)[n] \in LexTypes /\ Reader(s)[n].bodies = 0
         /\ Reader(s)[n + 1] = Lex(Reader(s)[n], s[n + 1])
BY FittingIs, AfterFields, Reads DEF Piece

LEMMA TakesOne ==
  ASSUME NEW s, NEW n, Piece(s, n), NEW a \in Toks,
         Lex(Reader(s)[n], s[n + 1]).toks = Reader(s)[n].toks \o <<a>>
  PROVE  After(s, n + 1) = TakeToken(After(s, n), a)
<1>1. s \in Seq(Pieces) /\ n \in Nat /\ n + 1 \in DOMAIN s
  BY PieceIs
<1>2. Reader(s)[n + 1].toks = Reader(s)[n].toks \o <<a>>
  BY PieceIs
<1> QED
  BY <1>1, <1>2, AfterTakes

AddsTwo(s, n, a, b) == Lex(Reader(s)[n], s[n + 1]).toks = Reader(s)[n].toks \o <<a, b>>

LEMMA TakesTwo ==
  ASSUME NEW s, NEW n, Piece(s, n), NEW a \in Toks, NEW b \in Toks, AddsTwo(s, n, a, b)
  PROVE  After(s, n + 1) = TakeToken(TakeToken(After(s, n), a), b)
<1>1. s \in Seq(Pieces) /\ n \in Nat /\ n + 1 \in DOMAIN s
  BY PieceIs
<1>2. Reader(s)[n + 1].toks = Reader(s)[n].toks \o <<a, b>>
  BY PieceIs DEF AddsTwo
<1> QED
  BY <1>1, <1>2, AfterTakes

LEMMA BehindWord ==
  ASSUME NEW s, NEW n, Piece(s, n), s[n + 1] \in Words
  PROVE  /\ After(s, n + 1) = TakeToken(After(s, n), Word(s[n + 1]))
         /\ Reader(s)[n + 1].parens = Reader(s)[n].parens
<1>1. LexNext(Reader(s)[n], Reader(s)[n + 1], <<Word(s[n + 1])>>, Reader(s)[n].parens,
              Reader(s)[n].tick, Reader(s)[n].heredocs, 0)
  BY PieceIs, LexWord
<1>2. Word(s[n + 1]) \in Toks
  BY WordIsToken DEF TokenWords
<1>3. Reader(s)[n + 1].toks = Reader(s)[n].toks \o <<Word(s[n + 1])>>
  BY <1>1 DEF LexNext
<1>4. After(s, n + 1) = TakeToken(After(s, n), Word(s[n + 1]))
  BY <1>2, <1>3, PieceIs, AfterTakes
<1> QED
  BY <1>1, <1>4 DEF LexNext

LEMMA BehindSep ==
  ASSUME NEW s, NEW n, Piece(s, n), s[n + 1] \in {"sep", "newline"}
  PROVE  Behind(s, n + 1, TRUE, After(s, n).skip, After(s, n).saved, After(s, n).words,
                Reader(s)[n].parens)
<1>1. PICK x \in LexTypes : /\ x = Reader(s)[n] /\ Reader(s)[n + 1] = Lex(x, s[n + 1])
                             /\ x.bodies = 0
  BY PieceIs
<1>2. Lex(x, s[n + 1]).toks = x.toks \o <<Sep>> /\ Lex(x, s[n + 1]).parens = x.parens
  <2>1. CASE s[n + 1] = "sep"
    <3>1. LexNext(x, Lex(x, "sep"), <<Sep>>, x.parens, x.tick, x.heredocs, 0)
      BY <1>1, LexSep
    <3> QED
      BY <1>1, <2>1, <3>1 DEF LexNext
  <2>2. CASE s[n + 1] = "newline"
    <3>1. LexNext(x, Lex(x, "newline"), <<Sep>>, x.parens, x.tick, 0, x.heredocs)
      BY <1>1, LexNewline
    <3> QED
      BY <1>1, <2>2, <3>1 DEF LexNext
  <2> QED
    BY <2>1, <2>2
<1>3. After(s, n + 1) = TakeToken(After(s, n), Sep)
  <2>1. Sep \in Toks
    BY OtherTokens
  <2> QED
    BY <1>1, <1>2, <2>1, TakesOne
<1>4. PassNext(After(s, n + 1), TRUE, After(s, n).skip, After(s, n).saved, After(s, n).words)
  BY <1>3, PieceIs, TakeSep
<1> QED
  BY <1>1, <1>2, <1>4 DEF Behind

LEMMA BehindRedirect ==
  ASSUME NEW s, NEW n, Piece(s, n), s[n + 1] = "redirect"
  PROVE  Behind(s, n + 1, After(s, n).start, TRUE, After(s, n).saved, After(s, n).words,
                Reader(s)[n].parens)
<1>1. PICK x \in LexTypes : /\ x = Reader(s)[n] /\ Reader(s)[n + 1] = Lex(x, s[n + 1])
                             /\ x.bodies = 0
  BY PieceIs
<1>2. Lex(x, s[n + 1]).toks = x.toks \o <<Redir>> /\ Lex(x, s[n + 1]).parens = x.parens
  <2>1. LexNext(x, Lex(x, "redirect"), <<Redir>>,
                x.parens, x.tick, x.heredocs, 0)
    BY <1>1, LexRedirect
  <2> QED
    BY <1>1, <2>1 DEF LexNext
<1>3. After(s, n + 1) = TakeToken(After(s, n), Redir)
  <2>1. Redir \in Toks
    BY OtherTokens
  <2> QED
    BY <1>1, <1>2, <2>1, TakesOne
<1>4. PassNext(After(s, n + 1), After(s, n).start, TRUE, After(s, n).saved, After(s, n).words)
  BY <1>3, PieceIs, TakeRedir
<1> QED
  BY <1>1, <1>2, <1>4 DEF Behind

LEMMA BehindGroup ==
  ASSUME NEW s, NEW n, Piece(s, n), s[n + 1] = "group"
  PROVE  Behind(s, n + 1, TRUE, After(s, n).skip, After(s, n).saved, After(s, n).words,
                Append(Reader(s)[n].parens, FALSE))
<1>1. PICK x \in LexTypes : /\ x = Reader(s)[n] /\ Reader(s)[n + 1] = Lex(x, s[n + 1])
                             /\ x.bodies = 0
  BY PieceIs
<1>2. /\ Lex(x, s[n + 1]).toks = x.toks \o <<Sep>>
      /\ Lex(x, s[n + 1]).parens = Append(x.parens, FALSE)
  <2>1. LexNext(x, Lex(x, "group"), <<Sep>>,
                Append(x.parens, FALSE), x.tick, x.heredocs, 0)
    BY <1>1, LexGroup
  <2> QED
    BY <1>1, <2>1 DEF LexNext
<1>3. After(s, n + 1) = TakeToken(After(s, n), Sep)
  <2>1. Sep \in Toks
    BY OtherTokens
  <2> QED
    BY <1>1, <1>2, <2>1, TakesOne
<1>4. PassNext(After(s, n + 1), TRUE, After(s, n).skip, After(s, n).saved, After(s, n).words)
  BY <1>3, PieceIs, TakeSep
<1> QED
  BY <1>1, <1>2, <1>4 DEF Behind

LEMMA BehindTickOpens ==
  ASSUME NEW s, NEW n, Piece(s, n), s[n + 1] = "tick", ~Reader(s)[n].tick
  PROVE  Behind(s, n + 1, TRUE, After(s, n).skip,
                Append(After(s, n).saved, After(s, n).start), After(s, n).words,
                Reader(s)[n].parens)
<1>1. PICK x \in LexTypes : /\ x = Reader(s)[n] /\ Reader(s)[n + 1] = Lex(x, s[n + 1])
                             /\ x.bodies = 0
  BY PieceIs
<1>2. Lex(x, s[n + 1]).toks = x.toks \o <<Open>> /\ Lex(x, s[n + 1]).parens = x.parens
  <2>1. LexNext(x, Lex(x, "tick"), IF x.tick THEN <<Close>> ELSE <<Open>>,
                x.parens, ~x.tick, x.heredocs, 0)
    BY <1>1, LexBackquote
  <2> QED
    BY <1>1, <2>1 DEF LexNext
<1>3. After(s, n + 1) = TakeToken(After(s, n), Open)
  <2>1. Open \in Toks
    BY OtherTokens
  <2> QED
    BY <1>1, <1>2, <2>1, TakesOne
<1>4. PassNext(After(s, n + 1), TRUE, After(s, n).skip,
               Append(After(s, n).saved, After(s, n).start), After(s, n).words)
  BY <1>3, PieceIs, TakeOpen
<1> QED
  BY <1>1, <1>2, <1>4 DEF Behind

LEMMA BehindTickCloses ==
  ASSUME NEW s, NEW n, Piece(s, n), s[n + 1] = "tick", Reader(s)[n].tick
  PROVE  Behind(s, n + 1, Top(After(s, n).saved), After(s, n).skip, Front(After(s, n).saved),
                After(s, n).words,
                Reader(s)[n].parens)
<1>1. PICK x \in LexTypes : /\ x = Reader(s)[n] /\ Reader(s)[n + 1] = Lex(x, s[n + 1])
                             /\ x.bodies = 0
  BY PieceIs
<1>2. Lex(x, s[n + 1]).toks = x.toks \o <<Close>> /\ Lex(x, s[n + 1]).parens = x.parens
  <2>1. LexNext(x, Lex(x, "tick"), IF x.tick THEN <<Close>> ELSE <<Open>>,
                x.parens, ~x.tick, x.heredocs, 0)
    BY <1>1, LexBackquote
  <2> QED
    BY <1>1, <2>1 DEF LexNext
<1>3. After(s, n + 1) = TakeToken(After(s, n), Close)
  <2>1. Close \in Toks
    BY OtherTokens
  <2> QED
    BY <1>1, <1>2, <2>1, TakesOne
<1>4. PassNext(After(s, n + 1), Top(After(s, n).saved), After(s, n).skip,
               Front(After(s, n).saved), After(s, n).words)
  BY <1>3, PieceIs, TakeClose
<1> QED
  BY <1>1, <1>2, <1>4 DEF Behind

LEMMA BehindClose ==
  ASSUME NEW s, NEW n, Piece(s, n), s[n + 1] = "close", Top(Reader(s)[n].parens)
  PROVE  Behind(s, n + 1, Top(After(s, n).saved), After(s, n).skip, Front(After(s, n).saved),
                After(s, n).words,
                Front(Reader(s)[n].parens))
<1>1. PICK x \in LexTypes : /\ x = Reader(s)[n] /\ Reader(s)[n + 1] = Lex(x, s[n + 1])
                             /\ x.bodies = 0
  BY PieceIs
<1>2. Lex(x, s[n + 1]).toks = x.toks \o <<Close>> /\ Lex(x, s[n + 1]).parens = Front(x.parens)
  <2>1. LexNext(x, Lex(x, "close"), IF Top(x.parens) THEN <<Close>> ELSE <<Sep>>,
                Front(x.parens), x.tick, x.heredocs, 0)
    BY <1>1, LexClose
  <2> QED
    BY <1>1, <2>1 DEF LexNext
<1>3. After(s, n + 1) = TakeToken(After(s, n), Close)
  <2>1. Close \in Toks
    BY OtherTokens
  <2> QED
    BY <1>1, <1>2, <2>1, TakesOne
<1>4. PassNext(After(s, n + 1), Top(After(s, n).saved), After(s, n).skip,
               Front(After(s, n).saved), After(s, n).words)
  BY <1>3, PieceIs, TakeClose
<1> QED
  BY <1>1, <1>2, <1>4 DEF Behind

LEMMA BehindGroupEnd ==
  ASSUME NEW s, NEW n, Piece(s, n), s[n + 1] = "close", ~Top(Reader(s)[n].parens)
  PROVE  Behind(s, n + 1, TRUE, After(s, n).skip, After(s, n).saved, After(s, n).words,
                Front(Reader(s)[n].parens))
<1>1. PICK x \in LexTypes : /\ x = Reader(s)[n] /\ Reader(s)[n + 1] = Lex(x, s[n + 1])
                             /\ x.bodies = 0
  BY PieceIs
<1>2. Lex(x, s[n + 1]).toks = x.toks \o <<Sep>> /\ Lex(x, s[n + 1]).parens = Front(x.parens)
  <2>1. LexNext(x, Lex(x, "close"), IF Top(x.parens) THEN <<Close>> ELSE <<Sep>>,
                Front(x.parens), x.tick, x.heredocs, 0)
    BY <1>1, LexClose
  <2> QED
    BY <1>1, <2>1 DEF LexNext
<1>3. After(s, n + 1) = TakeToken(After(s, n), Sep)
  <2>1. Sep \in Toks
    BY OtherTokens
  <2> QED
    BY <1>1, <1>2, <2>1, TakesOne
<1>4. PassNext(After(s, n + 1), TRUE, After(s, n).skip, After(s, n).saved, After(s, n).words)
  BY <1>3, PieceIs, TakeSep
<1> QED
  BY <1>1, <1>2, <1>4 DEF Behind

\* A number or a delimiter after a redirection is its target.
LEMMA TakeTarget ==
  ASSUME NEW st \in PassTypes, NEW w \in TokenWords
  PROVE  PassNext(TakeToken(TakeToken(st, Redir), Word(w)), st.start, FALSE, st.saved, st.words)
<1>1. PICK u \in PassTypes : u = TakeToken(st, Redir)
  BY TakeRedir DEF PassNext
<1>2. u.start = st.start /\ u.skip = TRUE /\ u.saved = st.saved /\ u.words = st.words
  BY <1>1, TakeRedir DEF PassNext
<1>3. PassNext(TakeToken(u, Word(w)), u.start, FALSE, u.saved, u.words)
  BY <1>2, TakeAWord
<1> QED
  BY <1>1, <1>2, <1>3

LEMMA BehindDup ==
  ASSUME NEW s, NEW n, Piece(s, n), s[n + 1] \in {"dup", "heredoc"}
  PROVE  Behind(s, n + 1, After(s, n).start, FALSE, After(s, n).saved, After(s, n).words,
                Reader(s)[n].parens)
<1>1. PICK x \in LexTypes : /\ x = Reader(s)[n] /\ Reader(s)[n + 1] = Lex(x, s[n + 1])
                             /\ x.bodies = 0
  BY PieceIs
<1> DEFINE Targets(w) == /\ Lex(x, s[n + 1]).toks = x.toks \o <<Redir, Word(w)>>
                         /\ Lex(x, s[n + 1]).parens = x.parens
<1>2. PICK w \in TokenWords : Targets(w)
  <2>1. "fd" \in TokenWords /\ "delim" \in TokenWords
    BY DEF TokenWords
  <2>2. CASE s[n + 1] = "dup"
    <3>1. LexNext(x, Lex(x, "dup"), <<Redir, Word("fd")>>, x.parens, x.tick, x.heredocs, 0)
      BY <1>1, LexDup
    <3>2. Targets("fd")
      BY <3>1, <2>2 DEF LexNext
    <3> QED
      BY <2>1, <3>2
  <2>3. CASE s[n + 1] = "heredoc"
    <3>1. LexNext(x, Lex(x, "heredoc"), <<Redir, Word("delim")>>, x.parens, x.tick,
                  x.heredocs + 1, 0)
      BY <1>1, LexHeredoc
    <3>2. Targets("delim")
      BY <3>1, <2>3 DEF LexNext
    <3> QED
      BY <2>1, <3>2
  <2> QED
    BY <2>2, <2>3
<1>3. Redir \in Toks /\ Word(w) \in Toks
  BY OtherTokens, WordIsToken
<1>4. After(s, n + 1) = TakeToken(TakeToken(After(s, n), Redir), Word(w))
  <2>1. Lex(Reader(s)[n], s[n + 1]).toks = Reader(s)[n].toks \o <<Redir, Word(w)>>
    BY <1>1, <1>2
  <2>2. AddsTwo(s, n, Redir, Word(w))
    BY <2>1 DEF AddsTwo
  <2>3. After(s, n + 1) = TakeToken(TakeToken(After(s, n), Redir), Word(w))
    BY <1>3, <2>2, TakesTwo
  <2> QED
    BY <2>3
<1>5. PassNext(After(s, n + 1), After(s, n).start, FALSE, After(s, n).saved, After(s, n).words)
  BY <1>4, PieceIs, TakeTarget
<1> QED
  BY <1>1, <1>2, <1>5 DEF Behind

\* A word and the opening of a substitution behind it.
LEMMA TakeWordOpen ==
  ASSUME NEW st \in PassTypes, NEW w \in TokenWords, NEW start, NEW words,
         PassNext(TakeToken(st, Word(w)), start, FALSE, st.saved, words)
  PROVE  PassNext(TakeToken(TakeToken(st, Word(w)), Open), TRUE, FALSE,
                  Append(st.saved, start), words)
<1>1. PICK u \in PassTypes : u = TakeToken(st, Word(w))
  BY DEF PassNext
<1>2. u.start = start /\ u.skip = FALSE /\ u.saved = st.saved /\ u.words = words
  BY <1>1 DEF PassNext
<1>3. PassNext(TakeToken(u, Open), TRUE, u.skip, Append(u.saved, u.start), u.words)
  BY TakeOpen
<1> QED
  BY <1>1, <1>2, <1>3

LEMMA BehindAssignSubst ==
  ASSUME NEW s, NEW n, Piece(s, n), s[n + 1] = "assignSubst"
  PROVE  Behind(s, n + 1, TRUE, FALSE, Append(After(s, n).saved, After(s, n).start),
                After(s, n).words, Append(Reader(s)[n].parens, TRUE))
<1>1. PICK x \in LexTypes : /\ x = Reader(s)[n] /\ Reader(s)[n + 1] = Lex(x, s[n + 1])
                             /\ x.bodies = 0
  BY PieceIs
<1>2. /\ Lex(x, s[n + 1]).toks = x.toks \o <<Word("assign"), Open>>
      /\ Lex(x, s[n + 1]).parens = Append(x.parens, TRUE)
  <2>1. LexNext(x, Lex(x, "assignSubst"), <<Word("assign"), Open>>,
                Append(x.parens, TRUE), x.tick, x.heredocs, 0)
    BY <1>1, LexAssignSubst
  <2> QED
    BY <1>1, <2>1 DEF LexNext
<1>3. PICK st \in PassTypes : st = After(s, n)
  BY PieceIs
<1>4. "assign" \in TokenWords /\ Open \in Toks /\ Word("assign") \in Toks
  BY OtherTokens, WordIsToken DEF TokenWords, Words
<1>5. After(s, n + 1) = TakeToken(TakeToken(st, Word("assign")), Open)
  <2>1. Lex(Reader(s)[n], s[n + 1]).toks = Reader(s)[n].toks \o <<Word("assign"), Open>>
    BY <1>1, <1>2
  <2>2. AddsTwo(s, n, Word("assign"), Open)
    BY <2>1 DEF AddsTwo
  <2>3. After(s, n + 1) = TakeToken(TakeToken(After(s, n), Word("assign")), Open)
    BY <1>4, <2>2, TakesTwo
  <2> QED
    BY <2>3, <1>3
<1>6. PassNext(TakeToken(st, Word("assign")), st.start, FALSE, st.saved, st.words)
  <2>1. st.skip \in BOOLEAN
    BY PassFields
  <2> QED
    BY <1>4, <2>1, TakeAWord
<1>7. PassNext(After(s, n + 1), TRUE, FALSE, Append(st.saved, st.start), st.words)
  BY <1>4, <1>5, <1>6, TakeWordOpen
<1> QED
  BY <1>1, <1>2, <1>3, <1>7 DEF Behind

LEMMA BehindSubst ==
  ASSUME NEW s, NEW n, Piece(s, n), s[n + 1] = "subst"
  PROVE  /\ After(s, n).skip =>
              Behind(s, n + 1, TRUE, FALSE, Append(After(s, n).saved, After(s, n).start),
                     After(s, n).words, Append(Reader(s)[n].parens, TRUE))
         /\ ~After(s, n).skip /\ ~After(s, n).start =>
              Behind(s, n + 1, TRUE, FALSE, Append(After(s, n).saved, FALSE),
                     After(s, n).words, Append(Reader(s)[n].parens, TRUE))
         /\ ~After(s, n).skip /\ After(s, n).start =>
              Behind(s, n + 1, TRUE, FALSE, Append(After(s, n).saved, FALSE),
                     Append(After(s, n).words, "empty"), Append(Reader(s)[n].parens, TRUE))
<1>1. PICK x \in LexTypes : /\ x = Reader(s)[n] /\ Reader(s)[n + 1] = Lex(x, s[n + 1])
                             /\ x.bodies = 0
  BY PieceIs
<1>2. /\ Lex(x, s[n + 1]).toks = x.toks \o <<Word("empty"), Open>>
      /\ Lex(x, s[n + 1]).parens = Append(x.parens, TRUE)
  <2>1. LexNext(x, Lex(x, "subst"), <<Word("empty"), Open>>,
                Append(x.parens, TRUE), x.tick, x.heredocs, 0)
    BY <1>1, LexSubst
  <2> QED
    BY <1>1, <2>1 DEF LexNext
<1>3. PICK st \in PassTypes : st = After(s, n)
  BY PieceIs
<1>4. "empty" \in TokenWords /\ Open \in Toks /\ Word("empty") \in Toks
  BY OtherTokens, WordIsToken DEF TokenWords
<1>5. After(s, n + 1) = TakeToken(TakeToken(st, Word("empty")), Open)
  <2>1. Lex(Reader(s)[n], s[n + 1]).toks = Reader(s)[n].toks \o <<Word("empty"), Open>>
    BY <1>1, <1>2
  <2>2. AddsTwo(s, n, Word("empty"), Open)
    BY <2>1 DEF AddsTwo
  <2>3. After(s, n + 1) = TakeToken(TakeToken(After(s, n), Word("empty")), Open)
    BY <1>4, <2>2, TakesTwo
  <2> QED
    BY <2>3, <1>3
<1>6. ASSUME st.skip
      PROVE  Behind(s, n + 1, TRUE, FALSE, Append(st.saved, st.start), st.words,
                    Append(x.parens, TRUE))
  <2>1. PassNext(TakeToken(st, Word("empty")), st.start, FALSE, st.saved, st.words)
    BY <1>4, <1>6, TakeAWord
  <2>2. PassNext(After(s, n + 1), TRUE, FALSE, Append(st.saved, st.start), st.words)
    BY <1>4, <1>5, <2>1, TakeWordOpen
  <2> QED
    BY <1>1, <1>2, <2>2 DEF Behind
<1>7. ASSUME ~st.skip, ~st.start
      PROVE  Behind(s, n + 1, TRUE, FALSE, Append(st.saved, FALSE), st.words,
                    Append(x.parens, TRUE))
  <2>1. PassNext(TakeToken(st, Word("empty")), st.start, FALSE, st.saved, st.words)
    BY <1>4, <1>7, TakeAWord
  <2>2. st.start = FALSE
    BY <1>7, PassFields
  <2>3. PassNext(TakeToken(st, Word("empty")), FALSE, FALSE, st.saved, st.words)
    BY <2>1, <2>2
  <2>4. PassNext(After(s, n + 1), TRUE, FALSE, Append(st.saved, FALSE), st.words)
    BY <1>4, <1>5, <2>3, TakeWordOpen
  <2> QED
    BY <1>1, <1>2, <2>4 DEF Behind
<1>8. ASSUME ~st.skip, st.start
      PROVE  Behind(s, n + 1, TRUE, FALSE, Append(st.saved, FALSE),
                    Append(st.words, "empty"), Append(x.parens, TRUE))
  <2>1. "empty" \notin {"assign", "keyword"}
    OBVIOUS
  <2>2. PassNext(TakeToken(st, Word("empty")), FALSE, FALSE, st.saved,
                Append(st.words, "empty"))
    BY <1>4, <1>8, <2>1, TakeAWord
  <2>3. PassNext(After(s, n + 1), TRUE, FALSE, Append(st.saved, FALSE),
                Append(st.words, "empty"))
    BY <1>4, <1>5, <2>2, TakeWordOpen
  <2> QED
    BY <1>1, <1>2, <2>3 DEF Behind
<1> QED
  BY <1>1, <1>3, <1>6, <1>7, <1>8

-----------------------------------------------------------------------------
(* The second pass knows the targets of redirections.                      *)

LEMMA TargetIs ==
  ASSUME NEW s, NEW n \in Nat
  PROVE  IsTarget(s, n + 1) <=> n > 0 /\ s[n] = "redirect"
<1>1. (n + 1) - 1 = n /\ (n + 1 > 1 <=> n > 0)
  OBVIOUS
<1> QED
  BY <1>1 DEF IsTarget

LEMMA TargetFits ==
  ASSUME NEW s, NEW n, Piece(s, n), IsTarget(s, n + 1)
  PROVE  s[n + 1] \in Words \cup {"subst"}
BY DEF Piece, Fitting, Fits

LEMMA NoBodyForTarget ==
  ASSUME NEW s, Fitting(s), NEW n \in Nat, n + 1 \in DOMAIN s, IsTarget(s, n + 1)
  PROVE  ~InBody(s, n + 1)
<1>1. PICK m \in Nat : n = m + 1 /\ s[m + 1] = "redirect"
  <2>1. n > 0 /\ s[n] = "redirect"
    BY TargetIs
  <2>2. n - 1 \in Nat /\ n = (n - 1) + 1
    BY <2>1
  <2> QED
    BY <2>1, <2>2
<1>2. m + 1 \in DOMAIN s /\ m + 1 \in 0..Len(s)
  <2>1. DOMAIN s = 1..Len(s) /\ Len(s) \in Nat
    BY FittingIs
  <2> QED
    BY <1>1, <2>1
<1>3. ~InBody(s, m + 1)
  BY <1>1, <1>2, PieceFits
<1>4. PICK x \in LexTypes : /\ x = Reader(s)[m] /\ x.bodies = 0
                            /\ Reader(s)[m + 1] = Lex(x, s[m + 1])
  BY <1>2, <1>3, Reads
<1>5. "redirect" \in Pieces /\ "redirect" # "newline"
  BY DEF Pieces
<1>6. Lex(x, "redirect").bodies = 0
  BY <1>4, <1>5, LexKeeps DEF LexKeeping
<1>7. Reader(s)[m + 1].bodies = 0
  BY <1>1, <1>4, <1>6
<1>8. ~InBody(s, (m + 1) + 1)
  <2>1. InBody(s, (m + 1) + 1) <=> Reader(s)[m + 1].bodies > 0
    BY <1>2, BodiesAre
  <2>2. ~(0 > 0)
    OBVIOUS
  <2> QED
    BY <1>7, <2>1, <2>2
<1> QED
  BY <1>1, <1>8

SkipKnown(s, n) == After(s, n).skip <=> IsTarget(s, n + 1)

LEMMA SkipKept ==
  ASSUME NEW s, Fitting(s), NEW n \in Nat, n + 1 \in DOMAIN s, SkipKnown(s, n)
  PROVE  SkipKnown(s, n + 1)
<1>1. After(s, n).skip \in BOOLEAN
  BY AfterFields
<1>2. IsTarget(s, (n + 1) + 1) <=> s[n + 1] = "redirect"
  <2>1. n + 1 \in Nat /\ n + 1 > 0
    OBVIOUS
  <2> QED
    BY <2>1, TargetIs
<1>3. s[n + 1] \in Pieces
  BY PieceFits
<1> SUFFICES After(s, n + 1).skip <=> s[n + 1] = "redirect"
  BY <1>2 DEF SkipKnown
<1>4. CASE InBody(s, n + 1)
  <2>1. ~After(s, n).skip
    BY <1>4, NoBodyForTarget DEF SkipKnown
  <2>2. s[n + 1] # "redirect"
    BY <1>4, PieceFits
  <2> QED
    BY <1>4, <2>1, <2>2, BehindBody
<1>5. CASE ~InBody(s, n + 1)
  <2>0. Piece(s, n)
    BY <1>5 DEF Piece
  <2>1. CASE s[n + 1] \in Words
    <3>1. PICK st \in PassTypes : st = After(s, n)
      BY AfterFields
    <3>2. TakeToken(st, Word(s[n + 1])).skip = FALSE
      <4>1. s[n + 1] \in TokenWords /\ st.skip \in BOOLEAN /\ st.start \in BOOLEAN
        BY <2>1, PassFields DEF TokenWords
      <4>2. CASE st.skip
        BY <4>1, <4>2, TakeAWord DEF PassNext
      <4>3. CASE ~st.skip /\ (~st.start \/ s[n + 1] \in {"assign", "keyword"})
        BY <4>1, <4>3, TakeAWord DEF PassNext
      <4>4. CASE ~st.skip /\ st.start /\ s[n + 1] \notin {"assign", "keyword"}
        BY <4>1, <4>4, TakeAWord DEF PassNext
      <4> QED
        BY <4>1, <4>2, <4>3, <4>4
    <3>3. s[n + 1] # "redirect"
      BY <2>1 DEF Words
    <3> QED
      BY <2>0, <2>1, <3>1, <3>2, <3>3, BehindWord
  <2>2. CASE s[n + 1] = "redirect"
    <3>1. After(s, n + 1).skip = TRUE
      BY <2>0, <2>2, BehindRedirect DEF Behind, PassNext
    <3> QED
      BY <2>2, <3>1
  <2>3. CASE s[n + 1] \in {"dup", "heredoc"}
    <3>1. After(s, n + 1).skip = FALSE
      BY <2>0, <2>3, BehindDup DEF Behind, PassNext
    <3> QED
      BY <2>3, <3>1
  <2>4. CASE s[n + 1] = "assignSubst"
    <3>1. After(s, n + 1).skip = FALSE
      BY <2>0, <2>4, BehindAssignSubst DEF Behind, PassNext
    <3> QED
      BY <2>4, <3>1
  <2>5. CASE s[n + 1] = "subst"
    <3>1. CASE After(s, n).skip
      <4>1. After(s, n + 1).skip = FALSE
        BY <2>0, <2>5, <3>1, BehindSubst DEF Behind, PassNext
      <4> QED
        BY <2>5, <4>1
    <3>2. CASE ~After(s, n).skip /\ ~After(s, n).start
      <4>0. Behind(s, n + 1, TRUE, FALSE, Append(After(s, n).saved, FALSE),
                   After(s, n).words, Append(Reader(s)[n].parens, TRUE))
        BY <2>0, <2>5, <3>2, BehindSubst
      <4>1. After(s, n + 1).skip = FALSE
        BY <4>0 DEF Behind, PassNext
      <4> QED
        BY <2>5, <4>1
    <3>3. CASE ~After(s, n).skip /\ After(s, n).start
      <4>1. After(s, n + 1).skip = FALSE
        BY <2>0, <2>5, <3>3, BehindSubst DEF Behind, PassNext
      <4> QED
        BY <2>5, <4>1
    <3> QED
      BY <3>1, <3>2, <3>3
  <2>6. CASE s[n + 1] \in {"sep", "newline", "group", "close", "tick"}
    <3>1. ~After(s, n).skip /\ s[n + 1] # "redirect"
      <4>1. s[n + 1] \notin Words \cup {"subst"}
        BY <2>6 DEF Words
      <4> QED
        BY <2>0, <2>6, <4>1, TargetFits DEF SkipKnown
    <3>2. CASE s[n + 1] \in {"sep", "newline"}
      BY <2>0, <3>1, <3>2, BehindSep DEF Behind, PassNext
    <3>3. CASE s[n + 1] = "group"
      BY <2>0, <3>1, <3>3, BehindGroup DEF Behind, PassNext
    <3>4. CASE s[n + 1] = "close"
      <4>1. CASE Top(Reader(s)[n].parens)
        BY <2>0, <3>1, <3>4, <4>1, BehindClose DEF Behind, PassNext
      <4>2. CASE ~Top(Reader(s)[n].parens)
        BY <2>0, <3>1, <3>4, <4>2, BehindGroupEnd DEF Behind, PassNext
      <4> QED
        BY <4>1, <4>2
    <3>5. CASE s[n + 1] = "tick"
      <4>1. CASE Reader(s)[n].tick
        BY <2>0, <3>1, <3>5, <4>1, BehindTickCloses DEF Behind, PassNext
      <4>2. CASE ~Reader(s)[n].tick
        BY <2>0, <3>1, <3>5, <4>2, BehindTickOpens DEF Behind, PassNext
      <4> QED
        BY <4>1, <4>2
    <3> QED
      BY <2>6, <3>2, <3>3, <3>4, <3>5
  <2>7. s[n + 1] # "eof"
    BY <1>5, PieceFits
  <2> QED
    BY <1>3, <2>1, <2>2, <2>3, <2>4, <2>5, <2>6, <2>7 DEF Pieces
<1> QED
  BY <1>4, <1>5

LEMMA SkipIs ==
  ASSUME NEW s, Fitting(s), NEW n \in 0..Len(s)
  PROVE  SkipKnown(s, n)
<1> DEFINE Good == {m \in Nat : m \in 0..Len(s) => SkipKnown(s, m)}
<1>1. s \in Seq(Pieces) /\ Len(s) \in Nat /\ DOMAIN s = 1..Len(s)
  BY FittingIs
<1>2. 0 \in Good
  <2>1. After(s, 0).skip = FALSE
    BY <1>1, AfterFirst, AtStartTyped DEF PassNext
  <2>2. ~IsTarget(s, 0 + 1)
    BY TargetIs
  <2> QED
    BY <2>1, <2>2 DEF SkipKnown
<1>3. ASSUME NEW m \in 1..Len(s), m - 1 \in Good PROVE m \in Good
  <2>1. PICK l \in Nat : l = m - 1 /\ m = l + 1 /\ l + 1 \in DOMAIN s /\ l \in 0..Len(s)
    BY <1>1
  <2>2. SkipKnown(s, l)
    BY <1>3, <2>1
  <2>3. SkipKnown(s, l + 1)
    BY <2>1, <2>2, SkipKept
  <2> QED
    BY <2>1, <2>3
<1>4. 0..Len(s) \subseteq Good
  <2>1. Good \in SUBSET Nat
    OBVIOUS
  <2> HIDE DEF Good
  <2> QED
    BY <1>1, <1>2, <1>3, <2>1, UpTo
<1> QED
  BY <1>4

-----------------------------------------------------------------------------
(* What a pair saves and gives back.                                       *)

\* Whether the command that t stands in waits for its name again behind t's end.
Resumes(s, t) ==
  IF s[t] = "subst" /\ ~IsTarget(s, t) THEN FALSE ELSE After(s, t - 1).start

\* What is on the stacks behind an opening piece.
OpenLeaves(s, n) ==
  LET a == After(s, n)
      b == After(s, n + 1)
      x == Reader(s)[n].parens
      y == Reader(s)[n + 1].parens
  IN /\ b.start = TRUE
     /\ s[n + 1] = "group" => b.saved = a.saved /\ y = Append(x, FALSE)
     /\ s[n + 1] = "tick" => b.saved = Append(a.saved, Resumes(s, n + 1)) /\ y = x
     /\ s[n + 1] \in {"subst", "assignSubst"} =>
          b.saved = Append(a.saved, Resumes(s, n + 1)) /\ y = Append(x, TRUE)
     /\ \/ b.words = a.words
        \/ /\ b.words = Append(a.words, "empty")
           /\ s[n + 1] = "subst" /\ ~IsTarget(s, n + 1) /\ a.start

LEMMA OpeningPieces ==
  ASSUME NEW s, Fitting(s), NEW n \in Nat, n + 1 \in DOMAIN s, Opens(s, n + 1)
  PROVE  /\ Piece(s, n) /\ s[n + 1] \in {"subst", "assignSubst", "group", "tick"}
         /\ s[n + 1] = "tick" => ~Reader(s)[n].tick
<1>1. ~InBody(s, n + 1)
  BY DEF Opens
<1>2. s[n + 1] = "tick" => ~Reader(s)[n].tick
  <2> SUFFICES ASSUME s[n + 1] = "tick" PROVE ~Reader(s)[n].tick
    OBVIOUS
  <2>1. TicksTo(s, n + 1) % 2 = 1 /\ TicksTo(s, n + 1) = TicksTo(s, n) + 1
    BY <1>1, TicksGrow DEF Opens
  <2>2. TicksTo(s, n) \in Nat
    BY TicksGrow
  <2>3. ~(TicksTo(s, n) % 2 = 1)
    BY <2>1, <2>2
  <2> QED
    BY <2>3, PieceFits, TickIs
<1> QED
  BY <1>1, <1>2 DEF Piece, Opens

LEMMA ClosingPieces ==
  ASSUME NEW s, Fitting(s), NEW n \in Nat, n + 1 \in DOMAIN s, Closes(s, n + 1)
  PROVE  /\ Piece(s, n) /\ s[n + 1] \in {"close", "tick"} /\ ~IsTarget(s, n + 1)
         /\ s[n + 1] = "tick" => Reader(s)[n].tick
<1>1. ~InBody(s, n + 1) /\ s[n + 1] \in {"close", "tick"}
  BY DEF Closes
<1>2. s[n + 1] = "tick" => Reader(s)[n].tick
  <2> SUFFICES ASSUME s[n + 1] = "tick" PROVE Reader(s)[n].tick
    OBVIOUS
  <2>1. TicksTo(s, n + 1) % 2 = 0 /\ TicksTo(s, n + 1) = TicksTo(s, n) + 1
    BY <1>1, TicksGrow DEF Closes
  <2>2. TicksTo(s, n) \in Nat
    BY TicksGrow
  <2>3. TicksTo(s, n) % 2 = 1
    BY <2>1, <2>2
  <2> QED
    BY <2>3, PieceFits, TickIs
<1>3. Piece(s, n)
  BY <1>1 DEF Piece
<1>4. s[n + 1] \notin Words \cup {"subst"}
  BY <1>1 DEF Words
<1> QED
  BY <1>1, <1>2, <1>3, <1>4, TargetFits

LEMMA WhatOpens ==
  ASSUME NEW s, Fitting(s), NEW n \in Nat, n + 1 \in DOMAIN s, Opens(s, n + 1)
  PROVE  OpenLeaves(s, n)
<1>0. Piece(s, n) /\ n \in 0..Len(s) /\ (n + 1) - 1 = n
  BY OpeningPieces, PieceFits
<1>1. CASE s[n + 1] = "group"
  <2>1. Behind(s, n + 1, TRUE, After(s, n).skip, After(s, n).saved, After(s, n).words,
               Append(Reader(s)[n].parens, FALSE))
    BY <1>0, <1>1, BehindGroup
  <2> QED
    BY <1>1, <2>1 DEF Behind, PassNext, OpenLeaves
<1>2. CASE s[n + 1] = "tick"
  <2>1. Behind(s, n + 1, TRUE, After(s, n).skip, Append(After(s, n).saved, After(s, n).start),
                After(s, n).words, Reader(s)[n].parens)
    BY <1>0, <1>2, OpeningPieces, BehindTickOpens
  <2>2. Resumes(s, n + 1) = After(s, n).start
    BY <1>0, <1>2 DEF Resumes
  <2> QED
    BY <1>2, <2>1, <2>2 DEF Behind, PassNext, OpenLeaves
<1>3. CASE s[n + 1] = "assignSubst"
  <2>1. Behind(s, n + 1, TRUE, FALSE, Append(After(s, n).saved, After(s, n).start),
               After(s, n).words, Append(Reader(s)[n].parens, TRUE))
    BY <1>0, <1>3, BehindAssignSubst
  <2>2. Resumes(s, n + 1) = After(s, n).start
    BY <1>0, <1>3 DEF Resumes
  <2> QED
    BY <1>3, <2>1, <2>2 DEF Behind, PassNext, OpenLeaves
<1>4. CASE s[n + 1] = "subst"
  <2>1. After(s, n).skip <=> IsTarget(s, n + 1)
    BY <1>0, SkipIs DEF SkipKnown
  <2>2. CASE IsTarget(s, n + 1)
    <3>1. Behind(s, n + 1, TRUE, FALSE, Append(After(s, n).saved, After(s, n).start),
                 After(s, n).words, Append(Reader(s)[n].parens, TRUE))
      BY <1>0, <1>4, <2>1, <2>2, BehindSubst
    <3>2. Resumes(s, n + 1) = After(s, n).start
      BY <1>0, <2>2 DEF Resumes
    <3> QED
      BY <1>4, <3>1, <3>2 DEF Behind, PassNext, OpenLeaves
  <2>3. CASE ~IsTarget(s, n + 1)
    <3>1. Resumes(s, n + 1) = FALSE
      BY <1>4, <2>3 DEF Resumes
    <3>2. CASE After(s, n).start
      <4>1. Behind(s, n + 1, TRUE, FALSE, Append(After(s, n).saved, FALSE),
                   Append(After(s, n).words, "empty"), Append(Reader(s)[n].parens, TRUE))
        BY <1>0, <1>4, <2>1, <2>3, <3>2, BehindSubst
      <4> QED
        BY <1>4, <2>3, <3>1, <3>2, <4>1 DEF Behind, PassNext, OpenLeaves
    <3>3. CASE ~After(s, n).start
      <4>1. Behind(s, n + 1, TRUE, FALSE, Append(After(s, n).saved, FALSE),
                   After(s, n).words, Append(Reader(s)[n].parens, TRUE))
        BY <1>0, <1>4, <2>1, <2>3, <3>3, BehindSubst
      <4> QED
        BY <1>4, <3>1, <4>1 DEF Behind, PassNext, OpenLeaves
    <3> QED
      BY <3>2, <3>3
  <2> QED
    BY <2>2, <2>3
<1> QED
  BY <1>1, <1>2, <1>3, <1>4, OpeningPieces

\* The stacks are those the innermost open piece left.
Stacks(s, n) ==
  /\ Reader(s)[n].parens = Reader(s)[Around(s, n)].parens
  /\ After(s, n).saved = After(s, Around(s, n)).saved

\* What is behind the piece that closes t.
CloseLeaves(s, n, t) ==
  /\ s[t] = "group" => After(s, n + 1).start = TRUE
  /\ s[t] # "group" => After(s, n + 1).start = Resumes(s, t)
  /\ After(s, n + 1).words = After(s, n).words
  /\ After(s, n + 1).saved = After(s, t - 1).saved
  /\ Reader(s)[n + 1].parens = Reader(s)[t - 1].parens

LEMMA WhatCloses ==
  ASSUME NEW s, Fitting(s), NEW n \in Nat, n + 1 \in DOMAIN s, Closes(s, n + 1),
         Stacks(s, n), NEW t, t = Around(s, n)
  PROVE  t \in 1..n /\ Opens(s, t) /\ CloseLeaves(s, n, t)
<1>1. t \in 1..n /\ Opens(s, t)
  BY HereReturns
<1>2. PICK m \in Nat : t = m + 1 /\ m + 1 \in DOMAIN s /\ t - 1 = m
  <2>1. t - 1 \in Nat /\ t = (t - 1) + 1
    BY <1>1
  <2>2. t \in DOMAIN s
    BY <1>1, PieceFits, FittingIs
  <2> QED
    BY <2>1, <2>2
<1>3. Opens(s, m + 1) /\ OpenLeaves(s, m) /\ s[m + 1] \in {"subst", "assignSubst", "group",
        "tick"}
  BY <1>1, <1>2, WhatOpens, OpeningPieces
<1>4. /\ Reader(s)[n].parens = Reader(s)[m + 1].parens
      /\ After(s, n).saved = After(s, m + 1).saved
  BY <1>2 DEF Stacks
<1>5. Piece(s, n) /\ s[n + 1] \in {"close", "tick"} /\ (s[n + 1] = "tick" => Reader(s)[n].tick)
  BY ClosingPieces
<1>6. s[n + 1] = "tick" <=> s[m + 1] = "tick"
  BY <1>2, ClosesOpen
<1>7. PICK saved \in Seq(BOOLEAN) : saved = After(s, m).saved
  BY <1>2, AfterFields
<1>8. PICK start \in BOOLEAN : start = Resumes(s, m + 1)
  BY <1>2, AfterFields DEF Resumes
<1>9. PICK words : words = After(s, n).words
  OBVIOUS
<1>10. PICK parens \in Seq(BOOLEAN) : parens = Reader(s)[m].parens
  <2>1. Reader(s)[m] \in LexTypes
    BY <1>2, Reads
  <2> QED
    BY <2>1, LexFields
<1>11. CASE s[m + 1] = "tick"
  <2>1. After(s, n).saved = Append(saved, start) /\ Reader(s)[n].parens = parens
    BY <1>3, <1>4, <1>7, <1>8, <1>9, <1>10, <1>11 DEF OpenLeaves
  <2>2. Behind(s, n + 1, Top(After(s, n).saved), After(s, n).skip, Front(After(s, n).saved),
               After(s, n).words, Reader(s)[n].parens)
    BY <1>5, <1>6, <1>11, BehindTickCloses
  <2>3. Top(Append(saved, start)) = start /\ Front(Append(saved, start)) = saved
    BY TopFront
  <2>4. /\ After(s, n + 1).start = start /\ After(s, n + 1).saved = saved
        /\ After(s, n + 1).words = words /\ Reader(s)[n + 1].parens = parens
    BY <1>7, <1>8, <1>9, <2>1, <2>2, <2>3 DEF Behind, PassNext
  <2> QED
    BY <1>1, <1>2, <1>7, <1>8, <1>9, <1>10, <1>11, <2>4 DEF CloseLeaves
<1>12. CASE s[m + 1] \in {"subst", "assignSubst"}
  <2>1. After(s, n).saved = Append(saved, start) /\ Reader(s)[n].parens = Append(parens, TRUE)
    BY <1>3, <1>4, <1>7, <1>8, <1>9, <1>10, <1>12 DEF OpenLeaves
  <2>2. Top(Append(parens, TRUE)) = TRUE /\ Front(Append(parens, TRUE)) = parens
    BY TopFront
  <2>3. s[n + 1] = "close" /\ Top(Reader(s)[n].parens)
    BY <1>5, <1>6, <1>12, <2>1, <2>2
  <2>4. Behind(s, n + 1, Top(After(s, n).saved), After(s, n).skip, Front(After(s, n).saved),
               After(s, n).words, Front(Reader(s)[n].parens))
    BY <1>5, <2>3, BehindClose
  <2>5. Top(Append(saved, start)) = start /\ Front(Append(saved, start)) = saved
    BY TopFront
  <2>6. /\ After(s, n + 1).start = start /\ After(s, n + 1).saved = saved
        /\ After(s, n + 1).words = words /\ Reader(s)[n + 1].parens = parens
    BY <1>7, <1>8, <1>9, <2>1, <2>2, <2>4, <2>5 DEF Behind, PassNext
  <2>7. s[m + 1] # "group"
    BY <1>12
  <2> QED
    BY <1>1, <1>2, <1>7, <1>8, <1>9, <1>10, <2>6, <2>7 DEF CloseLeaves
<1>13. CASE s[m + 1] = "group"
  <2>1. After(s, n).saved = saved /\ Reader(s)[n].parens = Append(parens, FALSE)
    BY <1>3, <1>4, <1>7, <1>8, <1>9, <1>10, <1>13 DEF OpenLeaves
  <2>2. Top(Append(parens, FALSE)) = FALSE /\ Front(Append(parens, FALSE)) = parens
    BY TopFront
  <2>3. s[n + 1] = "close" /\ ~Top(Reader(s)[n].parens)
    BY <1>5, <1>6, <1>13, <2>1, <2>2
  <2>4. Behind(s, n + 1, TRUE, After(s, n).skip, After(s, n).saved,
               After(s, n).words, Front(Reader(s)[n].parens))
    BY <1>5, <2>3, BehindGroupEnd
  <2>5. /\ After(s, n + 1).start = TRUE /\ After(s, n + 1).saved = saved
        /\ After(s, n + 1).words = words /\ Reader(s)[n + 1].parens = parens
    BY <1>7, <1>8, <1>9, <2>1, <2>2, <2>4 DEF Behind, PassNext
  <2> QED
    BY <1>1, <1>2, <1>7, <1>8, <1>9, <1>10, <1>13, <2>5 DEF CloseLeaves
<1> QED
  BY <1>3, <1>11, <1>12, <1>13

\* What neither opens nor closes leaves the stacks alone.
LEMMA PlainPieces ==
  ASSUME NEW s, NEW n, Piece(s, n), ~Opens(s, n + 1), ~Closes(s, n + 1)
  PROVE  s[n + 1] \in Words \cup {"sep", "newline", "redirect", "dup", "heredoc"}
<1>1. ~InBody(s, n + 1) /\ s[n + 1] \in Pieces /\ s[n + 1] # "eof"
  BY PieceFits DEF Piece
<1>2. s[n + 1] # "tick"
  <2>1. TicksTo(s, n + 1) \in Nat
    <3>1. n + 1 \in Nat
      BY DEF Piece
    <3> QED
      BY <3>1, TicksGrow
  <2>2. TicksTo(s, n + 1) % 2 = 0 \/ TicksTo(s, n + 1) % 2 = 1
    BY <2>1
  <2> QED
    BY <1>1, <2>2 DEF Opens, Closes
<1>3. s[n + 1] \notin {"subst", "assignSubst", "group", "close"}
  BY <1>1 DEF Opens, Closes
<1> QED
  BY <1>1, <1>2, <1>3 DEF Pieces

LEMMA WhatStays ==
  ASSUME NEW s, Fitting(s), NEW n \in Nat, n + 1 \in DOMAIN s,
         ~Opens(s, n + 1), ~Closes(s, n + 1)
  PROVE  /\ After(s, n + 1).saved = After(s, n).saved
         /\ Reader(s)[n + 1].parens = Reader(s)[n].parens
<1>1. CASE InBody(s, n + 1)
  BY <1>1, BehindBody
<1>2. CASE ~InBody(s, n + 1)
  <2>0. Piece(s, n)
    BY <1>2 DEF Piece
  <2>1. CASE s[n + 1] \in Words
    <3>1. PICK st \in PassTypes : st = After(s, n)
      BY AfterFields
    <3>2. TakeToken(st, Word(s[n + 1])).saved = st.saved
      <4>1. s[n + 1] \in TokenWords /\ st.skip \in BOOLEAN /\ st.start \in BOOLEAN
        BY <2>1, PassFields DEF TokenWords
      <4>2. CASE st.skip
        BY <4>1, <4>2, TakeAWord DEF PassNext
      <4>3. CASE ~st.skip /\ (~st.start \/ s[n + 1] \in {"assign", "keyword"})
        BY <4>1, <4>3, TakeAWord DEF PassNext
      <4>4. CASE ~st.skip /\ st.start /\ s[n + 1] \notin {"assign", "keyword"}
        BY <4>1, <4>4, TakeAWord DEF PassNext
      <4> QED
        BY <4>1, <4>2, <4>3, <4>4
    <3> QED
      BY <2>0, <2>1, <3>1, <3>2, BehindWord
  <2>2. CASE s[n + 1] \in {"sep", "newline"}
    BY <2>0, <2>2, BehindSep DEF Behind, PassNext
  <2>3. CASE s[n + 1] = "redirect"
    BY <2>0, <2>3, BehindRedirect DEF Behind, PassNext
  <2>4. CASE s[n + 1] \in {"dup", "heredoc"}
    BY <2>0, <2>4, BehindDup DEF Behind, PassNext
  <2> QED
    BY <2>0, <2>1, <2>2, <2>3, <2>4, PlainPieces
<1> QED
  BY <1>1, <1>2

LEMMA AlwaysStacks ==
  ASSUME NEW s, Fitting(s), NEW n \in 0..Len(s)
  PROVE  Stacks(s, n)
<1> DEFINE Good == {m \in Nat : \A l \in 0..m : Stacks(s, l)}
<1>1. Len(s) \in Nat /\ DOMAIN s = 1..Len(s)
  BY FittingIs
<1>2. 0 \in Good
  <2>1. Around(s, 0) = 0
    BY AroundIs
  <2>2. Stacks(s, 0)
    BY <2>1 DEF Stacks
  <2> QED
    BY <2>2
<1>3. ASSUME NEW m \in 1..Len(s), m - 1 \in Good PROVE m \in Good
  <2>1. PICK l \in Nat : l = m - 1 /\ m = l + 1 /\ l + 1 \in DOMAIN s /\ l \in Good
    BY <1>1, <1>3
  <2>2. (\A k \in 0..l : Stacks(s, k)) /\ Stacks(s, l)
    BY <2>1
  <2>3. \A k \in 0..l : Balanced(s, k)
    BY <1>1, <2>1, AlwaysBalanced
  <2>4. Stacks(s, l + 1)
    <3>1. CASE Opens(s, l + 1)
      <4>1. Around(s, l + 1) = l + 1
        BY <3>1, OpenNew
      <4> QED
        BY <4>1 DEF Stacks
    <3>2. CASE Closes(s, l + 1)
      <4>1. PICK t : t = Around(s, l)
        OBVIOUS
      <4>2. t \in 1..l /\ CloseLeaves(s, l, t)
        BY <2>1, <2>2, <3>2, <4>1, WhatCloses
      <4>3. Around(s, l + 1) = Around(s, t - 1)
        BY <2>1, <2>3, <3>2, <4>1, ClosesOpen, OpenEnds
      <4>4. Stacks(s, t - 1)
        <5>1. t - 1 \in 0..l
          BY <4>2
        <5> QED
          BY <2>2, <5>1
      <4> QED
        BY <4>2, <4>3, <4>4 DEF Stacks, CloseLeaves
    <3>3. CASE ~Opens(s, l + 1) /\ ~Closes(s, l + 1)
      <4>1. Balanced(s, l)
        BY <2>3
      <4>2. Around(s, l + 1) = Around(s, l)
        BY <3>3, <4>1, OpenStays
      <4> QED
        BY <2>1, <2>2, <3>3, <4>2, WhatStays DEF Stacks
    <3> QED
      BY <3>1, <3>2, <3>3
  <2>5. \A k \in 0..m : k \in 0..l \/ k = l + 1
    BY <2>1
  <2> QED
    BY <2>2, <2>4, <2>5
<1>4. 0..Len(s) \subseteq Good
  <2>1. Good \in SUBSET Nat
    OBVIOUS
  <2> HIDE DEF Good
  <2> QED
    BY <1>1, <1>2, <1>3, <2>1, UpTo
<1>5. n \in Good /\ n \in 0..n
  BY <1>1, <1>4
<1> QED
  BY <1>5

-----------------------------------------------------------------------------
(* The place of a command, and the commands found.                         *)

HasGroup(s, n) == \E j \in Here(s, n) : s[j] = "group"

\* The second pass knows where a name may come.
PlaceKnown(s, n) ==
  /\ Clear(s, n) => After(s, n).start
  /\ ~HasComputed(s) /\ After(s, n).start /\ ~Clear(s, n) => HasGroup(s, n)

Finds(f, s) ==
  /\ f[0] = <<>>
  /\ \A n \in 1..Len(s) : /\ IsCommand(s, n) => f[n] = Append(f[n - 1], s[n])
                          /\ ~IsCommand(s, n) => f[n] = f[n - 1]

\* Every command is among the words, and where none is computed, they are the words.
Found(s, f, n) ==
  /\ \A i \in 1..n : IsCommand(s, i) =>
       \E k \in 1..Len(After(s, n).words) : After(s, n).words[k] = s[i]
  /\ ~HasComputed(s) => After(s, n).words = f[n]

LEMMA CommandsAre ==
  ASSUME NEW s \in Seq(Pieces)
  PROVE  \E f : Finds(f, s) /\ CommandsOf(s) = f[Len(s)]
<1> DEFINE N == Len(s)
           goOn == [x \in Seq(Pieces) \X (1..N) |->
                      IF IsCommand(s, x[2]) THEN Append(x[1], s[x[2]]) ELSE x[1]]
           IsF(f) == f = [n \in 0..N |-> IF n = 0 THEN <<>>
                                         ELSE IF IsCommand(s, n) THEN Append(f[n - 1], s[n])
                                              ELSE f[n - 1]]
<1>1. N \in Nat /\ \A n \in 1..N : s[n] \in Pieces
  OBVIOUS
<1>2. goOn \in [Seq(Pieces) \X (1..N) -> Seq(Pieces)]
  <2>1. ASSUME NEW was \in Seq(Pieces), NEW n \in 1..N PROVE Append(was, s[n]) \in Seq(Pieces)
    BY <1>1, AppendSeq
  <2>2. ASSUME NEW x \in Seq(Pieces) \X (1..N)
        PROVE  (IF IsCommand(s, x[2]) THEN Append(x[1], s[x[2]]) ELSE x[1]) \in Seq(Pieces)
    <3>1. x[1] \in Seq(Pieces) /\ x[2] \in 1..N
      OBVIOUS
    <3>2. Append(x[1], s[x[2]]) \in Seq(Pieces)
      BY <2>1, <3>1
    <3> QED
      BY <3>1, <3>2
  <2> QED
    BY <2>2
<1>3. \A was \in Seq(Pieces), n \in 1..N :
        goOn[<<was, n>>] = IF IsCommand(s, n) THEN Append(was, s[n]) ELSE was
  OBVIOUS
<1> HIDE DEF goOn
<1>4. PICK f \in [0..N -> Seq(Pieces)] :
        f[0] = <<>> /\ \A n \in 1..N : f[n] = goOn[<<f[n - 1], n>>]
  <2>1. N \in Nat /\ <<>> \in Seq(Pieces)
    OBVIOUS
  <2> HIDE DEF N
  <2>2. \E f \in [0..N -> Seq(Pieces)] : Recurs(f, N, <<>>, goOn)
    BY <1>2, <2>1, Recursion
  <2> QED
    BY <2>2 DEF Recurs
<1>5. \A n \in 1..N : f[n - 1] \in Seq(Pieces)
  BY <1>1
<1> DEFINE h == [n \in 0..N |-> IF n = 0 THEN <<>>
                                ELSE IF IsCommand(s, n) THEN Append(f[n - 1], s[n])
                                     ELSE f[n - 1]]
<1>6. \A n \in 0..N : f[n] = h[n]
  <2> TAKE n \in 0..N
  <2>1. CASE n = 0
    BY <1>4, <2>1
  <2>2. CASE n # 0
    <3>1. n \in 1..N
      BY <1>1, <2>2
    <3> QED
      BY <1>3, <1>4, <1>5, <2>2, <3>1
  <2> QED
    BY <2>1, <2>2
<1>7. f = h
  BY <1>6
<1>8. IsF(f)
  BY <1>7
<1>9. \E g : IsF(g) /\ CommandsOf(s) = g[N]
  <2>1. PICK g : /\ g = CHOOSE e : IsF(e)
                 /\ CommandsOf(s) = g[N]
    BY DEF CommandsOf
  <2>2. IsF(g)
    <3> HIDE DEF IsF
    <3> QED
      BY <1>8, <2>1
  <2> HIDE DEF IsF
  <2> QED
    BY <2>1, <2>2
<1>10. PICK g : IsF(g) /\ CommandsOf(s) = g[N]
  BY <1>9
<1>11. Finds(g, s)
  <2>1. g = [n \in 0..N |-> IF n = 0 THEN <<>>
                            ELSE IF IsCommand(s, n) THEN Append(g[n - 1], s[n])
                                 ELSE g[n - 1]]
    BY <1>10
  <2>2. g[0] = <<>>
    BY <1>1, <2>1
  <2>3. ASSUME NEW n \in 1..N
        PROVE  /\ IsCommand(s, n) => g[n] = Append(g[n - 1], s[n])
               /\ ~IsCommand(s, n) => g[n] = g[n - 1]
    <3>1. n \in 0..N /\ n # 0
      BY <1>1
    <3>2. g[n] = IF IsCommand(s, n) THEN Append(g[n - 1], s[n]) ELSE g[n - 1]
      BY <2>1, <3>1
    <3> QED
      BY <3>2
  <2> QED
    BY <2>2, <2>3 DEF Finds
<1> QED
  BY <1>10, <1>11

LEMMA FindsNext ==
  ASSUME NEW s, NEW f, Finds(f, s), NEW n \in Nat, n + 1 \in 1..Len(s)
  PROVE  /\ IsCommand(s, n + 1) => f[n + 1] = Append(f[n], s[n + 1])
         /\ ~IsCommand(s, n + 1) => f[n + 1] = f[n]
<1>1. (n + 1) - 1 = n
  OBVIOUS
<1> QED
  BY <1>1 DEF Finds

LEMMA FoundSame ==
  ASSUME NEW s, Fitting(s), NEW n \in Nat, n + 1 \in DOMAIN s, NEW f, Finds(f, s),
         Found(s, f, n), ~IsCommand(s, n + 1), After(s, n + 1).words = After(s, n).words
  PROVE  Found(s, f, n + 1)
<1>1. n + 1 \in 1..Len(s)
  BY PieceFits
<1>2. f[n + 1] = f[n]
  BY <1>1, FindsNext
<1>3. \A i \in 1..(n + 1) : i \in 1..n \/ i = n + 1
  OBVIOUS
<1> QED
  BY <1>2, <1>3 DEF Found

LEMMA FoundMore ==
  ASSUME NEW s, Fitting(s), NEW n \in Nat, n + 1 \in DOMAIN s, NEW f, Finds(f, s),
         Found(s, f, n), NEW w \in TokenWords,
         After(s, n + 1).words = Append(After(s, n).words, w),
         IsCommand(s, n + 1) => w = s[n + 1],
         ~HasComputed(s) => IsCommand(s, n + 1)
  PROVE  Found(s, f, n + 1)
<1>1. n + 1 \in 1..Len(s)
  BY PieceFits
<1>2. PICK old \in Seq(TokenWords) : old = After(s, n).words
  BY AfterFields
<1>3. PICK new \in Seq(TokenWords) : new = Append(old, w) /\ new = After(s, n + 1).words
  BY <1>2, AppendSeq
<1>4. /\ Len(new) = Len(old) + 1 /\ Len(old) \in Nat
      /\ \A i \in 1..Len(old) : new[i] = old[i]
      /\ new[Len(old) + 1] = w
  <2>1. /\ Len(Append(old, w)) = Len(old) + 1
        /\ \A i \in 1..Len(old) : Append(old, w)[i] = old[i]
        /\ Append(old, w)[Len(old) + 1] = w
    BY Longer
  <2> QED
    BY <1>3, <2>1
<1>5. ASSUME NEW i \in 1..(n + 1), IsCommand(s, i)
      PROVE  \E k \in 1..Len(new) : new[k] = s[i]
  <2>1. CASE i = n + 1
    <3>1. new[Len(old) + 1] = s[i] /\ Len(old) + 1 \in 1..Len(new)
      BY <1>4, <1>5, <2>1
    <3> QED
      BY <3>1
  <2>2. CASE i \in 1..n
    <3>1. PICK k \in 1..Len(old) : old[k] = s[i]
      BY <1>2, <1>5, <2>2 DEF Found
    <3>2. k \in 1..Len(new) /\ new[k] = s[i]
      BY <1>4, <3>1
    <3> QED
      BY <3>2
  <2> QED
    BY <2>1, <2>2
<1>6. ~HasComputed(s) => new = f[n + 1]
  <2> SUFFICES ASSUME ~HasComputed(s) PROVE new = f[n + 1]
    OBVIOUS
  <2>1. old = f[n] /\ IsCommand(s, n + 1) /\ w = s[n + 1]
    BY <1>2 DEF Found
  <2>2. f[n + 1] = Append(f[n], s[n + 1])
    BY <1>1, <2>1, FindsNext
  <2> QED
    BY <1>3, <2>1, <2>2
<1> QED
  BY <1>3, <1>5, <1>6 DEF Found

LEMMA PlaceSame ==
  ASSUME NEW s, NEW n \in Nat, PlaceKnown(s, n), ~Opens(s, n + 1), ~Closes(s, n + 1),
         s[n + 1] \notin {"sep", "newline"}, InBody(s, n + 1) \/ Unnamed(s, n + 1),
         After(s, n + 1).start = After(s, n).start
  PROVE  PlaceKnown(s, n + 1)
<1>1. Here(s, n + 1) = Here(s, n) \cup {j \in {n + 1} : ~InBody(s, j)}
  BY HereGrows
<1>2. Clear(s, n + 1) <=> Clear(s, n)
  BY <1>1 DEF Clear
<1>3. HasGroup(s, n) => HasGroup(s, n + 1)
  BY <1>1 DEF HasGroup
<1> QED
  BY <1>2, <1>3 DEF PlaceKnown

\* Behind the name of a command no other is expected.
LEMMA PlaceTaken ==
  ASSUME NEW s, NEW n \in Nat, ~Opens(s, n + 1), ~Closes(s, n + 1), ~InBody(s, n + 1),
         s[n + 1] \notin {"sep", "newline"}, ~Unnamed(s, n + 1), ~After(s, n + 1).start
  PROVE  PlaceKnown(s, n + 1)
<1>1. n + 1 \in Here(s, n + 1)
  BY HereGrows
<1>2. ~Clear(s, n + 1)
  BY <1>1 DEF Clear
<1> QED
  BY <1>2 DEF PlaceKnown

LEMMA PlaceBegins ==
  ASSUME NEW s, NEW n \in Nat,
         \/ Opens(s, n + 1)
         \/ ~Opens(s, n + 1) /\ ~Closes(s, n + 1) /\ s[n + 1] \in {"sep", "newline"},
         After(s, n + 1).start
  PROVE  PlaceKnown(s, n + 1)
<1>1. Here(s, n + 1) = {}
  BY HereBegins
<1>2. Clear(s, n + 1)
  BY <1>1 DEF Clear
<1> QED
  BY <1>2 DEF PlaceKnown

\* Behind a group only a few pieces go on with its command.
LEMMA GroupFits ==
  ASSUME NEW s, NEW n, Piece(s, n), ~IsTarget(s, n + 1), ~Closes(s, n + 1), HasGroup(s, n)
  PROVE  s[n + 1] \in {"sep", "newline", "redirect", "dup", "close", "tick"}
<1>1. Fits(s, n + 1) /\ ~InBody(s, n + 1) /\ n \in Nat
  BY DEF Piece, Fitting
<1>2. Before(s, n + 1) = Here(s, n)
  BY <1>1, PlaceIsClear
<1>3. "group" \in {s[j] : j \in Before(s, n + 1)}
  BY <1>2 DEF HasGroup
<1> QED
  BY <1>1, <1>3 DEF Fits

LEMMA NotComputed ==
  ASSUME NEW s, Fitting(s), NEW n \in Nat, n + 1 \in DOMAIN s, ~HasComputed(s),
         s[n + 1] \in {"subst", "tick"}, Opens(s, n + 1), ~IsTarget(s, n + 1)
  PROVE  ~Clear(s, n)
<1>1. ~Closes(s, n + 1)
  BY DepthAndLevel
<1>2. InCommandPlace(s, n + 1) <=> Clear(s, n)
  BY <1>1, PlaceIsClear
<1> QED
  BY <1>2 DEF HasComputed

-----------------------------------------------------------------------------
(* The steps.                                                              *)

LEMMA BodyStep ==
  ASSUME NEW s, Fitting(s), NEW n \in Nat, n + 1 \in DOMAIN s, InBody(s, n + 1),
         NEW f, Finds(f, s), PlaceKnown(s, n), Found(s, f, n)
  PROVE  PlaceKnown(s, n + 1) /\ Found(s, f, n + 1)
<1>1. ~Opens(s, n + 1) /\ ~Closes(s, n + 1) /\ ~IsCommand(s, n + 1)
  BY DEF Opens, Closes, IsCommand
<1>2. s[n + 1] \notin {"sep", "newline"}
  BY PieceFits
<1>3. After(s, n + 1) = After(s, n)
  BY BehindBody
<1> QED
  BY <1>1, <1>2, <1>3, PlaceSame, FoundSame

LEMMA WordStep ==
  ASSUME NEW s, NEW n, Piece(s, n), s[n + 1] \in Words \ {"glued"},
         NEW f, Finds(f, s), PlaceKnown(s, n), Found(s, f, n)
  PROVE  PlaceKnown(s, n + 1) /\ Found(s, f, n + 1)
<1>0. Fitting(s) /\ n \in Nat /\ n + 1 \in DOMAIN s /\ ~InBody(s, n + 1)
  BY DEF Piece
<1>1. ~Opens(s, n + 1) /\ ~Closes(s, n + 1) /\ s[n + 1] \notin {"sep", "newline"}
  BY DEF Opens, Closes, Words
<1>2. PICK st \in PassTypes : /\ st = After(s, n)
                              /\ After(s, n + 1) = TakeToken(st, Word(s[n + 1]))
  BY <1>0, AfterFields, BehindWord
<1>3. s[n + 1] \in TokenWords /\ st.skip \in BOOLEAN /\ st.start \in BOOLEAN
  BY PassFields DEF TokenWords
<1>4. st.skip <=> IsTarget(s, n + 1)
  <2>1. n \in 0..Len(s)
    BY <1>0, PieceFits
  <2> QED
    BY <1>0, <1>2, <2>1, SkipIs DEF SkipKnown
<1>5. IsCommand(s, n + 1) <=> /\ s[n + 1] \in {"tool", "other"}
                              /\ ~IsTarget(s, n + 1) /\ Clear(s, n)
  BY <1>0, <1>1, PlaceIsClear DEF IsCommand
<1>6. CASE st.skip
  <2>1. After(s, n + 1).start = After(s, n).start /\ After(s, n + 1).words = After(s, n).words
    <3>1. PassNext(TakeToken(st, Word(s[n + 1])), st.start, FALSE, st.saved, st.words)
      BY <1>3, <1>6, TakeAWord
    <3> QED
      BY <1>2, <3>1 DEF PassNext
  <2>2. Unnamed(s, n + 1) /\ ~IsCommand(s, n + 1)
    BY <1>4, <1>5, <1>6 DEF Unnamed
  <2> QED
    BY <1>0, <1>1, <2>1, <2>2, PlaceSame, FoundSame
<1>7. CASE ~st.skip /\ s[n + 1] \in {"assign", "keyword"}
  <2>1. After(s, n + 1).start = After(s, n).start /\ After(s, n + 1).words = After(s, n).words
    <3>1. PassNext(TakeToken(st, Word(s[n + 1])), st.start, FALSE, st.saved, st.words)
      BY <1>3, <1>7, TakeAWord
    <3> QED
      BY <1>2, <3>1 DEF PassNext
  <2>2. Unnamed(s, n + 1) /\ ~IsCommand(s, n + 1)
    BY <1>5, <1>7 DEF Unnamed, Preceding
  <2> QED
    BY <1>0, <1>1, <2>1, <2>2, PlaceSame, FoundSame
<1>8. CASE ~st.skip /\ s[n + 1] \notin {"assign", "keyword"} /\ ~st.start
  <2>1. After(s, n + 1).start = FALSE /\ After(s, n + 1).words = After(s, n).words
    <3>1. PassNext(TakeToken(st, Word(s[n + 1])), st.start, FALSE, st.saved, st.words)
      BY <1>3, <1>8, TakeAWord
    <3>2. st.start = FALSE
      BY <1>3, <1>8
    <3> QED
      BY <1>2, <3>1, <3>2 DEF PassNext
  <2>2. ~Unnamed(s, n + 1)
    BY <1>4, <1>8, Zenon DEF Unnamed, Preceding, Words
  <2>3. ~IsCommand(s, n + 1)
    BY <1>2, <1>5, <1>8 DEF PlaceKnown
  <2> QED
    BY <1>0, <1>1, <2>1, <2>2, <2>3, PlaceTaken, FoundSame
<1>9. CASE ~st.skip /\ s[n + 1] \notin {"assign", "keyword"} /\ st.start
  <2>1. /\ After(s, n + 1).start = FALSE
        /\ After(s, n + 1).words = Append(After(s, n).words, s[n + 1])
    <3>1. PassNext(TakeToken(st, Word(s[n + 1])), FALSE, FALSE, st.saved,
                   Append(st.words, s[n + 1]))
      BY <1>3, <1>9, TakeAWord
    <3> QED
      BY <1>2, <3>1 DEF PassNext
  <2>2. ~Unnamed(s, n + 1)
    BY <1>4, <1>9 DEF Unnamed, Preceding, Words
  <2>3. ~HasComputed(s) => IsCommand(s, n + 1)
    <3>1. s[n + 1] \in {"tool", "other"} /\ ~IsTarget(s, n + 1)
      BY <1>4, <1>9 DEF Words
    <3>2. ~HasGroup(s, n)
      BY <1>1, <3>1, GroupFits
    <3> QED
      BY <1>2, <1>5, <1>9, <3>1, <3>2 DEF PlaceKnown
  <2>4. PlaceKnown(s, n + 1)
    BY <1>0, <1>1, <2>1, <2>2, PlaceTaken
  <2>5. Found(s, f, n + 1)
    BY <1>0, <1>3, <2>1, <2>3, FoundMore
  <2> QED
    BY <2>4, <2>5
<1> QED
  BY <1>3, <1>6, <1>7, <1>8, <1>9

\* Text behind a substitution is no command, and only where a command is computed
\* is it taken for one.
LEMMA GluedStep ==
  ASSUME NEW s, NEW n, Piece(s, n), s[n + 1] = "glued", ~HasGlued(s),
         NEW f, Finds(f, s), PlaceKnown(s, n), Found(s, f, n)
  PROVE  PlaceKnown(s, n + 1) /\ Found(s, f, n + 1)
<1>0. Fitting(s) /\ n \in Nat /\ n + 1 \in DOMAIN s /\ ~InBody(s, n + 1)
  BY DEF Piece
<1>1. ~Opens(s, n + 1) /\ ~Closes(s, n + 1) /\ s[n + 1] \notin {"sep", "newline"}
  BY DEF Opens, Closes
<1>2. PICK st \in PassTypes : /\ st = After(s, n)
                              /\ After(s, n + 1) = TakeToken(st, Word(s[n + 1]))
  BY <1>0, AfterFields, BehindWord DEF Words
<1>3. s[n + 1] \in TokenWords /\ st.skip \in BOOLEAN /\ st.start \in BOOLEAN
  BY PassFields DEF TokenWords, Words
<1>4. st.skip <=> IsTarget(s, n + 1)
  <2>1. n \in 0..Len(s)
    BY <1>0, PieceFits
  <2> QED
    BY <1>0, <1>2, <2>1, SkipIs DEF SkipKnown
<1>5. ~IsCommand(s, n + 1) /\ Unnamed(s, n + 1)
  BY DEF IsCommand, Unnamed, Preceding
<1>6. ~Clear(s, n)
  BY <1>0, <1>1, PlaceIsClear DEF HasGlued
<1>7. CASE st.skip \/ ~st.start
  <2>1. PassNext(TakeToken(st, Word(s[n + 1])), st.start, FALSE, st.saved, st.words)
    BY <1>3, <1>7, TakeAWord
  <2>2. After(s, n + 1).start = After(s, n).start /\ After(s, n + 1).words = After(s, n).words
    BY <1>2, <2>1 DEF PassNext
  <2> QED
    BY <1>0, <1>1, <1>5, <2>2, PlaceSame, FoundSame
<1>8. CASE ~st.skip /\ st.start
  <2>1. PassNext(TakeToken(st, Word(s[n + 1])), FALSE, FALSE, st.saved,
                 Append(st.words, s[n + 1]))
    BY <1>3, <1>8, TakeAWord
  <2>2. After(s, n + 1).words = Append(After(s, n).words, s[n + 1])
    BY <1>2, <2>1 DEF PassNext
  <2>3. ~HasGroup(s, n)
    BY <1>1, <1>4, <1>8, GroupFits
  <2>4. HasComputed(s)
    BY <1>2, <1>6, <1>8, <2>3 DEF PlaceKnown
  <2>5. PlaceKnown(s, n + 1)
    <3>1. Here(s, n + 1) = Here(s, n) \cup {j \in {n + 1} : ~InBody(s, j)}
      BY <1>0, <1>1, HereGrows
    <3>2. ~Clear(s, n + 1)
      BY <1>6, <3>1 DEF Clear
    <3> QED
      BY <2>4, <3>2 DEF PlaceKnown
  <2>6. Found(s, f, n + 1)
    BY <1>0, <1>3, <1>5, <2>2, <2>4, FoundMore
  <2> QED
    BY <2>5, <2>6
<1> QED
  BY <1>3, <1>7, <1>8

LEMMA PlainStep ==
  ASSUME NEW s, NEW n, Piece(s, n), ~Opens(s, n + 1), ~Closes(s, n + 1),
         s[n + 1] \notin Words, NEW f, Finds(f, s), PlaceKnown(s, n), Found(s, f, n)
  PROVE  PlaceKnown(s, n + 1) /\ Found(s, f, n + 1)
<1>0. Fitting(s) /\ n \in Nat /\ n + 1 \in DOMAIN s /\ ~InBody(s, n + 1)
  BY DEF Piece
<1>1. ~IsCommand(s, n + 1)
  BY DEF IsCommand, Words
<1>2. CASE s[n + 1] \in {"sep", "newline"}
  <2>1. After(s, n + 1).start = TRUE /\ After(s, n + 1).words = After(s, n).words
    BY <1>2, BehindSep DEF Behind, PassNext
  <2> QED
    BY <1>0, <1>1, <1>2, <2>1, PlaceBegins, FoundSame
<1>3. CASE s[n + 1] \in {"redirect", "dup", "heredoc"}
  <2>1. After(s, n + 1).start = After(s, n).start /\ After(s, n + 1).words = After(s, n).words
    <3>1. CASE s[n + 1] = "redirect"
      BY <3>1, BehindRedirect DEF Behind, PassNext
    <3>2. CASE s[n + 1] \in {"dup", "heredoc"}
      BY <3>2, BehindDup DEF Behind, PassNext
    <3> QED
      BY <1>3, <3>1, <3>2
  <2>2. Unnamed(s, n + 1) /\ s[n + 1] \notin {"sep", "newline"}
    BY <1>3 DEF Unnamed, Preceding
  <2> QED
    BY <1>0, <1>1, <2>1, <2>2, PlaceSame, FoundSame
<1> QED
  BY <1>2, <1>3, PlainPieces

LEMMA OpenStep ==
  ASSUME NEW s, Fitting(s), NEW n \in Nat, n + 1 \in DOMAIN s, Opens(s, n + 1),
         NEW f, Finds(f, s), PlaceKnown(s, n), Found(s, f, n)
  PROVE  PlaceKnown(s, n + 1) /\ Found(s, f, n + 1)
<1>1. OpenLeaves(s, n) /\ Piece(s, n) /\ s[n + 1] \in {"subst", "assignSubst", "group", "tick"}
  BY WhatOpens, OpeningPieces
<1>2. ~IsCommand(s, n + 1)
  BY <1>1 DEF IsCommand
<1>3. PlaceKnown(s, n + 1)
  <2>1. After(s, n + 1).start
    BY <1>1 DEF OpenLeaves
  <2> QED
    BY <2>1, PlaceBegins
<1>4. CASE After(s, n + 1).words = After(s, n).words
  BY <1>2, <1>3, <1>4, FoundSame
<1>5. CASE /\ After(s, n + 1).words = Append(After(s, n).words, "empty")
           /\ s[n + 1] = "subst" /\ ~IsTarget(s, n + 1) /\ After(s, n).start
  <2>1. HasComputed(s)
    <3> SUFFICES ASSUME ~HasComputed(s) PROVE FALSE
      OBVIOUS
    <3>1. ~Clear(s, n)
      BY <1>5, NotComputed
    <3>2. HasGroup(s, n)
      BY <1>5, <3>1 DEF PlaceKnown
    <3>3. ~Closes(s, n + 1)
      BY DepthAndLevel
    <3> QED
      BY <1>1, <1>5, <3>2, <3>3, GroupFits
  <2>2. "empty" \in TokenWords
    BY DEF TokenWords
  <2> QED
    BY <1>2, <1>3, <1>5, <2>1, <2>2, FoundMore
<1> QED
  BY <1>1, <1>4, <1>5 DEF OpenLeaves

LEMMA CloseStep ==
  ASSUME NEW s, Fitting(s), NEW n \in Nat, n + 1 \in DOMAIN s, Closes(s, n + 1),
         NEW f, Finds(f, s), \A m \in 0..n : PlaceKnown(s, m), Found(s, f, n)
  PROVE  PlaceKnown(s, n + 1) /\ Found(s, f, n + 1)
<1>1. PICK t : t = Around(s, n)
  OBVIOUS
<1>2. t \in 1..n /\ Opens(s, t) /\ CloseLeaves(s, n, t)
  <2>1. Stacks(s, n)
    BY PieceFits, AlwaysStacks
  <2> QED
    BY <1>1, <2>1, WhatCloses
<1>3. Here(s, n + 1) = Here(s, t - 1) \cup {t, n + 1}
  BY <1>1, HereReturns
<1>4. PICK m \in Nat : t = m + 1 /\ m + 1 \in DOMAIN s /\ t - 1 = m /\ m \in 0..n
  <2>1. t - 1 \in Nat /\ t = (t - 1) + 1 /\ t - 1 \in 0..n
    BY <1>2
  <2>2. t \in DOMAIN s
    BY <1>2, PieceFits, FittingIs
  <2> QED
    BY <2>1, <2>2
<1>5. /\ s[n + 1] \in {"close", "tick"} /\ (s[n + 1] = "tick" <=> s[t] = "tick")
      /\ ~IsCommand(s, n + 1)
  <2>1. s[n + 1] \in {"close", "tick"}
    BY ClosingPieces
  <2>2. s[n + 1] = "tick" <=> s[t] = "tick"
    BY <1>1, ClosesOpen
  <2> QED
    BY <2>1, <2>2 DEF IsCommand
<1>6. Found(s, f, n + 1)
  BY <1>2, <1>5, FoundSame DEF CloseLeaves
<1>7. PlaceKnown(s, m)
  BY <1>4
<1>8. CASE s[t] = "group"
  <2>1. After(s, n + 1).start = TRUE
    BY <1>2, <1>8 DEF CloseLeaves
  <2>2. HasGroup(s, n + 1)
    BY <1>3, <1>8 DEF HasGroup
  <2> QED
    BY <1>6, <2>1, <2>2 DEF PlaceKnown
<1>9. CASE s[t] = "subst" /\ ~IsTarget(s, t)
  <2>1. After(s, n + 1).start = FALSE
    BY <1>2, <1>9 DEF CloseLeaves, Resumes
  <2>2. ~Unnamed(s, t) /\ t \in Here(s, n + 1)
    BY <1>3, <1>9 DEF Unnamed, Preceding
  <2>3. ~Clear(s, n + 1)
    BY <2>2 DEF Clear
  <2> QED
    BY <1>6, <2>1, <2>3 DEF PlaceKnown
<1>10. CASE s[t] # "group" /\ ~(s[t] = "subst" /\ ~IsTarget(s, t))
  <2>1. After(s, n + 1).start = After(s, m).start
    BY <1>2, <1>4, <1>10 DEF CloseLeaves, Resumes
  <2>2. Clear(s, n + 1) => Clear(s, m)
    BY <1>3, <1>4 DEF Clear
  <2>3. HasGroup(s, m) => HasGroup(s, n + 1)
    BY <1>3, <1>4 DEF HasGroup
  <2>4. ASSUME ~HasComputed(s), Clear(s, m), ~Clear(s, n + 1) PROVE FALSE
    <3>1. ~Unnamed(s, t) \/ ~Unnamed(s, n + 1)
      BY <1>3, <1>4, <2>4 DEF Clear
    <3>2. s[t] \in {"subst", "assignSubst", "group", "tick"} /\ Piece(s, m)
      BY <1>2, <1>4, OpeningPieces
    <3>3. CASE s[t] = "tick"
      <4>1. ~IsTarget(s, m + 1)
        <5>1. s[m + 1] \notin Words \cup {"subst"}
          BY <1>4, <3>3 DEF Words
        <5> QED
          BY <3>2, <5>1, TargetFits
      <4>2. s[m + 1] \in {"subst", "tick"} /\ Opens(s, m + 1)
        BY <1>2, <1>4, <3>3
      <4> QED
        BY <1>4, <2>4, <4>1, <4>2, NotComputed
    <3>4. CASE s[t] \in {"subst", "assignSubst"}
      <4>1. s[n + 1] = "close"
        BY <1>5, <3>4
      <4>2. Unnamed(s, n + 1)
        BY <4>1 DEF Unnamed, Preceding
      <4>3. Unnamed(s, t)
        BY <1>10, <3>4 DEF Unnamed, Preceding
      <4> QED
        BY <3>1, <4>2, <4>3
    <3> QED
      BY <1>10, <3>2, <3>3, <3>4
  <2>5. PlaceKnown(s, n + 1)
    BY <1>7, <2>1, <2>2, <2>3, <2>4 DEF PlaceKnown
  <2> QED
    BY <1>6, <2>5
<1> QED
  BY <1>8, <1>9, <1>10

LEMMA AlwaysFound ==
  ASSUME NEW s, Fitting(s), ~HasGlued(s), NEW f, Finds(f, s), NEW n \in 0..Len(s)
  PROVE  Found(s, f, n)
<1> DEFINE Good == {m \in Nat : Found(s, f, m) /\ \A l \in 0..m : PlaceKnown(s, l)}
<1>1. s \in Seq(Pieces) /\ Len(s) \in Nat /\ DOMAIN s = 1..Len(s)
  BY FittingIs
<1>2. 0 \in Good
  <2>1. After(s, 0).start = TRUE /\ After(s, 0).words = <<>>
    BY <1>1, AfterFirst, AtStartTyped DEF PassNext
  <2>2. Here(s, 0) = {}
    <3>1. \A j : j \notin 1..0
      OBVIOUS
    <3> QED
      BY <3>1, HereIs
  <2>3. PlaceKnown(s, 0)
    BY <2>1, <2>2 DEF PlaceKnown, Clear
  <2>4. Found(s, f, 0)
    <3>1. \A j : j \notin 1..0
      OBVIOUS
    <3> QED
      BY <2>1, <3>1 DEF Found, Finds
  <2> QED
    BY <2>3, <2>4
<1>3. ASSUME NEW m \in 1..Len(s), m - 1 \in Good PROVE m \in Good
  <2>1. PICK l \in Nat : l = m - 1 /\ m = l + 1 /\ l + 1 \in DOMAIN s /\ l \in Good
    BY <1>1, <1>3
  <2>2. Found(s, f, l) /\ PlaceKnown(s, l) /\ \A k \in 0..l : PlaceKnown(s, k)
    BY <2>1
  <2>3. PlaceKnown(s, l + 1) /\ Found(s, f, l + 1)
    <3>1. CASE InBody(s, l + 1)
      BY <2>1, <2>2, <3>1, BodyStep
    <3>2. CASE Opens(s, l + 1)
      BY <2>1, <2>2, <3>2, OpenStep
    <3>3. CASE Closes(s, l + 1)
      BY <2>1, <2>2, <3>3, CloseStep
    <3>4. CASE ~InBody(s, l + 1) /\ ~Opens(s, l + 1) /\ ~Closes(s, l + 1)
      <4>1. Piece(s, l)
        BY <2>1, <3>4 DEF Piece
      <4> QED
        BY <2>2, <3>4, <4>1, WordStep, GluedStep, PlainStep
    <3> QED
      BY <3>1, <3>2, <3>3, <3>4
  <2>4. \A k \in 0..m : k \in 0..l \/ k = l + 1
    BY <2>1
  <2> QED
    BY <2>1, <2>2, <2>3, <2>4
<1>4. 0..Len(s) \subseteq Good
  <2>1. Good \in SUBSET Nat
    OBVIOUS
  <2> HIDE DEF Good
  <2> QED
    BY <1>1, <1>2, <1>3, <2>1, UpTo
<1> QED
  BY <1>4

-----------------------------------------------------------------------------
(* Where a piece stands is a matter of the pieces before it.               *)

Agree(s, u, n) == \A k \in 1..n : s[k] = u[k]

LEMMA BodiesAgree ==
  ASSUME NEW s, NEW u, NEW n \in Nat, Agree(s, u, n)
  PROVE  \A i \in 1..(n + 1) : InBody(s, i) <=> InBody(u, i)
<1>1. ASSUME NEW m \in 1..n PROVE HeredocsOfLine(s, m) = HeredocsOfLine(u, m)
  <2>1. \A h \in 1..m : h \in 1..n /\ \A k \in h..(m - 1) : k \in 1..n
    OBVIOUS
  <2>2. \A h \in 1..m : {s[k] : k \in h..(m - 1)} = {u[k] : k \in h..(m - 1)}
    BY <2>1 DEF Agree
  <2> QED
    BY <2>1, <2>2 DEF HeredocsOfLine, Agree
<1>2. ASSUME NEW i \in 1..(n + 1) PROVE InBody(s, i) <=> InBody(u, i)
  <2>1. \A m \in 1..(i - 1) : m \in 1..n /\ \A k \in (m + 1)..(i - 1) : k \in 1..n
    OBVIOUS
  <2>2. \A m \in 1..(i - 1) :
          {k \in (m + 1)..(i - 1) : s[k] = "eof"} = {k \in (m + 1)..(i - 1) : u[k] = "eof"}
    BY <2>1 DEF Agree
  <2>3. \A m \in 1..(i - 1) : s[m] = u[m] /\ HeredocsOfLine(s, m) = HeredocsOfLine(u, m)
    BY <1>1, <2>1 DEF Agree
  <2> QED
    BY <2>2, <2>3 DEF InBody
<1> QED
  BY <1>2

LEMMA PairsAgree ==
  ASSUME NEW s, NEW u, NEW n \in Nat, Agree(s, u, n)
  PROVE  \A i \in 1..n : (Opens(s, i) <=> Opens(u, i)) /\ (Closes(s, i) <=> Closes(u, i))
<1>1. \A k \in 1..n : s[k] = u[k] /\ (InBody(s, k) <=> InBody(u, k))
  BY BodiesAgree DEF Agree
<1>2. ASSUME NEW i \in 1..n
      PROVE  (Opens(s, i) <=> Opens(u, i)) /\ (Closes(s, i) <=> Closes(u, i))
  <2>1. {k \in 1..i : s[k] = "tick" /\ ~InBody(s, k)}
          = {k \in 1..i : u[k] = "tick" /\ ~InBody(u, k)}
    BY <1>1
  <2>2. TicksTo(s, i) = TicksTo(u, i)
    BY <2>1 DEF TicksTo
  <2> QED
    BY <1>1, <2>2 DEF Opens, Closes
<1> QED
  BY <1>2

LEMMA DepthsAgree ==
  ASSUME NEW s, NEW u, NEW n \in Nat, Agree(s, u, n)
  PROVE  \A i \in 1..n : Depth(s, i) = Depth(u, i)
<1>1. ASSUME NEW i \in 0..n
      PROVE  OpensTo(s, i) = OpensTo(u, i) /\ ClosesTo(s, i) = ClosesTo(u, i)
  <2>1. \A k \in 1..i : k \in 1..n
    OBVIOUS
  <2>2. /\ {k \in 1..i : Opens(s, k)} = {k \in 1..i : Opens(u, k)}
        /\ {k \in 1..i : Closes(s, k)} = {k \in 1..i : Closes(u, k)}
    BY <2>1, PairsAgree
  <2> QED
    BY <2>2 DEF OpensTo, ClosesTo
<1>2. \A i \in 1..n : i \in 0..n /\ i - 1 \in 0..n
  OBVIOUS
<1> QED
  BY <1>1, <1>2 DEF Depth

LEMMA PlacesAgree ==
  ASSUME NEW s, NEW u, NEW n \in Nat, Agree(s, u, n), NEW i \in 1..n
  PROVE  /\ OpenAt(s, i - 1) = OpenAt(u, i - 1) /\ Announced(s, i - 1) = Announced(u, i - 1)
         /\ Before(s, i) = Before(u, i)
         /\ \A j \in 1..i : IsTarget(s, j) <=> IsTarget(u, j)
         /\ InCommandPlace(s, i) <=> InCommandPlace(u, i)
<1>1. \A k \in 1..i : k \in 1..n
  OBVIOUS
<1>2. \A k \in 1..i : /\ s[k] = u[k] /\ Depth(s, k) = Depth(u, k)
                      /\ InBody(s, k) <=> InBody(u, k)
                      /\ Opens(s, k) <=> Opens(u, k)
  <2>1. \A k \in 1..i : s[k] = u[k] /\ Depth(s, k) = Depth(u, k)
    BY <1>1, DepthsAgree DEF Agree
  <2>2. \A k \in 1..i : k \in 1..(n + 1)
    OBVIOUS
  <2>3. \A k \in 1..i : InBody(s, k) <=> InBody(u, k)
    BY <2>2, BodiesAgree
  <2>4. \A k \in 1..i : Opens(s, k) <=> Opens(u, k)
    BY <1>1, PairsAgree
  <2> QED
    BY <2>1, <2>3, <2>4
<1>3. \A k \in 1..(i - 1) : k \in 1..i
  OBVIOUS
<1>4. OpenAt(s, i - 1) = OpenAt(u, i - 1)
  <2>1. \A k \in 1..(i - 1) : \A j \in (k + 1)..(i - 1) : j \in 1..i
    OBVIOUS
  <2> QED
    BY <1>2, <1>3, <2>1 DEF OpenAt
<1>5. Announced(s, i - 1) = Announced(u, i - 1)
  <2>1. \A h \in 1..(i - 1) : \A k \in h..(i - 1) : k \in 1..i
    OBVIOUS
  <2>2. \A h \in 1..(i - 1) : {s[k] : k \in h..(i - 1)} = {u[k] : k \in h..(i - 1)}
    BY <1>2, <2>1
  <2> QED
    BY <1>2, <1>3, <2>2 DEF Announced
<1>6. Before(s, i) = Before(u, i)
  <2>1. PICK d : d = Depth(s, i) /\ d = Depth(u, i)
    BY <1>2
  <2>2. \A j \in 1..(i - 1) : \A k \in j..(i - 1) : k \in 1..i
    OBVIOUS
  <2>3. CommandAt(s, i, d) = CommandAt(u, i, d)
    BY <1>2, <1>3, <2>2 DEF CommandAt
  <2> QED
    BY <2>1, <2>3 DEF Before
<1>7. \A j \in 1..i : IsTarget(s, j) <=> IsTarget(u, j)
  <2>1. \A j \in 1..i : j > 1 => j - 1 \in 1..i
    OBVIOUS
  <2> QED
    BY <1>2, <2>1 DEF IsTarget
<1>8. InCommandPlace(s, i) <=> InCommandPlace(u, i)
  <2>1. \A j \in Before(s, i) : j \in 1..i
    BY <1>3 DEF Before, CommandAt
  <2> QED
    BY <1>2, <1>6, <1>7, <2>1 DEF InCommandPlace
<1> QED
  BY <1>4, <1>5, <1>6, <1>7, <1>8

LEMMA FitsAgree ==
  ASSUME NEW s, NEW u, NEW n \in Nat, Agree(s, u, n), NEW i \in 1..n, Fits(s, i)
  PROVE  Fits(u, i)
<1>1. /\ OpenAt(s, i - 1) = OpenAt(u, i - 1) /\ Announced(s, i - 1) = Announced(u, i - 1)
      /\ Before(s, i) = Before(u, i)
      /\ IsTarget(s, i) <=> IsTarget(u, i)
      /\ InCommandPlace(s, i) <=> InCommandPlace(u, i)
  <2>1. i \in 1..i
    OBVIOUS
  <2> QED
    BY <2>1, PlacesAgree
<1>2. s[i] = u[i] /\ (InBody(s, i) <=> InBody(u, i)) /\ (Closes(s, i) <=> Closes(u, i))
  <2>1. i \in 1..(n + 1)
    OBVIOUS
  <2> QED
    BY <2>1, BodiesAgree, PairsAgree DEF Agree
<1>6. i > 1 => (Closes(s, i - 1) <=> Closes(u, i - 1))
  <2>1. i > 1 => i - 1 \in 1..n
    OBVIOUS
  <2> QED
    BY <2>1, PairsAgree
<1>3. {s[j] : j \in Before(s, i)} = {u[j] : j \in Before(u, i)}
  <2>1. \A j \in Before(s, i) : j \in 1..n
    BY DEF Before, CommandAt
  <2> QED
    BY <1>1, <2>1 DEF Agree
<1>4. OpenAt(s, i - 1) # {} => s[Max(OpenAt(s, i - 1))] = u[Max(OpenAt(s, i - 1))]
  <2> SUFFICES ASSUME OpenAt(s, i - 1) # {}
               PROVE  s[Max(OpenAt(s, i - 1))] = u[Max(OpenAt(s, i - 1))]
    OBVIOUS
  <2>1. i - 1 \in Nat
    OBVIOUS
  <2>2. Around(s, i - 1) \in 1..(i - 1) /\ Around(s, i - 1) = Max(OpenAt(s, i - 1))
    BY <2>1, AroundIs DEF Around
  <2>3. Max(OpenAt(s, i - 1)) \in 1..n
    BY <2>2
  <2> QED
    BY <2>3 DEF Agree
<1>5. PICK open, here, max : /\ open = OpenAt(s, i - 1) /\ here = {s[j] : j \in Before(s, i)}
                             /\ max = Max(open)
  OBVIOUS
<1> QED
  BY <1>1, <1>2, <1>3, <1>4, <1>5, <1>6 DEF Fits

\* Every script that is built is of the grammar.
LEMMA ScriptFits == SpecCommands => []Fitting(script)
<1>1. InitCommands => Fitting(script)
  <2>1. <<>> \in Seq(Pieces) /\ DOMAIN <<>> = {}
    OBVIOUS
  <2> QED
    BY <2>1 DEF InitCommands, Fitting
<1>2. ASSUME Fitting(script), [NextCommands]_script PROVE Fitting(script')
  <2>1. CASE UNCHANGED script
    BY <1>2, <2>1 DEF Fitting
  <2>2. CASE NextCommands
    <3>1. PICK p \in Pieces : AddPiece(p)
      BY <2>2 DEF NextCommands
    <3>2. /\ script \in Seq(Pieces) /\ Len(script) \in Nat
          /\ script' = Append(script, p) /\ Fits(script', Len(script) + 1)
      BY <1>2, <3>1, FittingIs DEF AddPiece
    <3>3. script' \in Seq(Pieces)
      BY <3>2, AppendSeq
    <3>4. /\ Len(script') = Len(script) + 1
          /\ \A k \in 1..Len(script) : script'[k] = script[k]
      BY <3>2, Longer
    <3>5. Agree(script, script', Len(script))
      BY <3>4 DEF Agree
    <3>6. ASSUME NEW i \in DOMAIN (script') PROVE Fits(script', i)
      <4>1. i \in 1..Len(script) \/ i = Len(script) + 1
        BY <3>2, <3>3, <3>4
      <4>2. CASE i \in 1..Len(script)
        <5>1. Fits(script, i)
          BY <1>2, <3>2, <4>2 DEF Fitting
        <5> QED
          BY <3>2, <3>5, <4>2, <5>1, FitsAgree
      <4>3. CASE i = Len(script) + 1
        BY <3>2, <4>3
      <4> QED
        BY <4>1, <4>2, <4>3
    <3> QED
      BY <3>3, <3>6 DEF Fitting
  <2> QED
    BY <1>2, <2>1, <2>2
<1>3. Fitting(script)' <=> Fitting(script')
  BY DEF Fitting
<1> QED
  BY <1>1, <1>2, <1>3, PTL DEF SpecCommands

\* In scripts of any length: what is compared with the tools are the commands that
\* sh finds, in their order; and a script that is let through calls tools only.  That
\* is said of the scripts of the grammar in which no text is glued to a substitution
\* where a command may still follow (HasGlued): there the code takes it for one.
THEOREM WordsAreCommandsCorrect == SpecCommands => []WordsAreCommands
<1>1. ASSUME Fitting(script) PROVE WordsAreCommands
  <2>1. PICK s : s = script
    OBVIOUS
  <2>2. Fitting(s) /\ s \in Seq(Pieces) /\ Len(s) \in Nat /\ DOMAIN s = 1..Len(s)
    BY <1>1, <2>1, FittingIs
  <2>3. Len(s) \in 0..Len(s)
    BY <2>2
  <2>4. PICK f : Finds(f, s) /\ CommandsOf(s) = f[Len(s)]
    BY <2>2, CommandsAre
  <2>5. ~HasGlued(s) => Found(s, f, Len(s))
    BY <2>2, <2>3, <2>4, AlwaysFound
  <2>6. CommandWords(s) = After(s, Len(s)).words
    BY DEF CommandWords, After, Tokens
  <2>7. PICK words \in Seq(TokenWords) : words = CommandWords(s)
    <3>1. After(s, Len(s)).words \in Seq(TokenWords)
      BY <2>2, <2>3, AfterTyped, PassFields
    <3> QED
      BY <2>6, <3>1
  <2>8. ~HasGlued(s) /\ ~HasComputed(s) => CommandWords(s) = CommandsOf(s)
    BY <2>4, <2>5, <2>6 DEF Found
  <2>9. ASSUME ~HasGlued(s), CommandAllowed(s), NEW i \in DOMAIN s, IsCommand(s, i)
        PROVE  s[i] = "tool"
    <3>1. PICK k \in 1..Len(words) : words[k] = s[i]
      BY <2>2, <2>5, <2>6, <2>7, <2>9 DEF Found
    <3>2. words[k] \in {"tool", "glued"}
      BY <2>7, <2>9 DEF CommandAllowed
    <3>3. s[i] \in {"tool", "other"}
      BY <2>9 DEF IsCommand
    <3> QED
      BY <3>1, <3>2, <3>3
  <2> QED
    BY <2>1, <2>8, <2>9 DEF WordsAreCommands
<1> QED
  BY <1>1, ScriptFits, PTL
=============================================================================
