----------------------------- MODULE AgentLoop -----------------------------
(***************************************************************************)
(* One run of an agent (agent.rs) and the task that posts its steps to the *)
(* chat (run_job in runtime.rs).                                           *)
(*                                                                         *)
(* The loop asks the LLM, performs the actions of its reply one by one and *)
(* asks again with the results.  Its tools are commands, threads and the   *)
(* MCP server of module Mcp, whose calls it awaits.  Any statement on the  *)
(* database may fail and ends the run by `?`.                              *)
(***************************************************************************)
EXTENDS Mcp, Integers

CONSTANTS
  MaxIterations,   \* RoleConfig.max_iterations
  MaxCalls         \* bound on the actions of a reply

ASSUME AgentLoopAssumption == MaxIterations \in Nat /\ MaxCalls \in Nat

VARIABLES
  native,    \* native tool calls, or blocks of the text
  pc,        \* the run; see Pc
  step,      \* rounds so far
  conv,      \* assistant, tool and user messages, as the next request sends them
  calls,     \* ids of the actions of the last reply that are not performed
  doing,     \* the kind of the action in hand
  commands, performed, outputs,  \* counts: traced, done, and their results traced
  status,    \* tasks.status
  queued,    \* steps and notes in the channel to the poster
  newest     \* the newest message of the run in the chat

agentVars == <<native, pc, step, conv, calls, doing, commands, performed, outputs, status>>
chatVars  == <<queued, newest>>
vars == <<native, pc, step, conv, calls, doing, commands, performed, outputs, status,
          queued, newest,
          phase, nextId, exchange, torn, pending, stdout, alive, noise, taken>>

Pc == {"idle", "connecting", "asking", "acting", "traced", "performed", "inquiring",
       "answered", "exhausted", "ended", "done"}

\* What has an effect.  Besides, a reply may ask for a command that
\* command_allowed rejects, for a call that native_actions cannot read, and it
\* may put a question to a human.
Effects == {"shell", "thread", "mcp"}

\* Ids that the LLM leaves empty; those it gives are taken to be distinct.
CallId(s, i) == <<s, i>>

\* tx.send
SendStep == queued' = queued + 1

-----------------------------------------------------------------------------
\* create_task
StartRun ==
  /\ pc = "idle"
  /\ native' \in BOOLEAN
  /\ status' = "running"
  /\ pc' = IF native' THEN "connecting" ELSE "asking"
  /\ UNCHANGED <<step, conv, calls, doing, commands, performed, outputs, chatVars, mcpVars>>

\* connect_mcp: the server of the role, if there is one; when it fails there is
\* a note, and the run goes on without its tools.
ConnectMcp ==
  /\ pc = "connecting"
  /\ Connect
  /\ UNCHANGED <<agentVars, chatVars>>

ConnectedMcp ==
  /\ pc = "connecting" /\ phase \in {"off", "ready", "failed"}
  /\ pc' = "asking"
  /\ IF phase = "failed" THEN SendStep ELSE UNCHANGED queued
  /\ UNCHANGED <<native, step, conv, calls, doing, commands, performed, outputs, status, newest,
                 mcpVars>>

MoreRounds == step < MaxIterations

\* A round.  The reply has no actions, or some, with or without a note; the
\* kind of each is chosen when its turn comes.  The question of a text makes
\* its commands void and has no note.
AskLlm ==
  /\ pc = "asking" /\ MoreRounds
  /\ step' = step + 1
  /\ \/ /\ pc' = "answered"
        /\ UNCHANGED <<conv, calls, queued>>
     \/ /\ ~native
        /\ pc' = "inquiring"
        /\ conv' = Append(conv, [role |-> "assistant", ids |-> <<>>])
        /\ UNCHANGED <<calls, queued>>
     \/ /\ pc' = "acting"
        /\ \E n \in 1..MaxCalls :
             LET ids == [i \in 1..n |-> CallId(step + 1, i)] IN
             /\ calls' = ids
             /\ conv' = Append(conv, [role |-> "assistant",
                                      ids |-> IF native THEN ids ELSE <<>>])
        /\ SendStep \/ UNCHANGED queued
  /\ UNCHANGED <<native, doing, commands, performed, outputs, status, newest, mcpVars>>

ReachLimit ==
  /\ pc = "asking" /\ ~MoreRounds
  /\ pc' = "exhausted"
  /\ UNCHANGED <<native, step, conv, calls, doing, commands, performed, outputs, status,
                 chatVars, mcpVars>>

\* The result of the first action that is left, for the LLM.
Answer ==
  /\ calls' = Tail(calls)
  /\ conv' = IF native THEN Append(conv, [role |-> "tool", ids |-> <<Head(calls)>>])
                       ELSE conv

PerformUntraced ==                      \* faulty variant: the effect comes first
  /\ pc = "acting" /\ calls # <<>>
  /\ performed' = performed + 1
  /\ UNCHANGED <<native, pc, step, conv, calls, doing, commands, outputs, status,
                 chatVars, mcpVars>>

\* The trace first, the effect afterwards.
TraceCommand ==
  /\ pc = "acting" /\ calls # <<>>
  /\ doing' \in IF ~native THEN {"shell"}
                ELSE IF phase = "ready" THEN Effects ELSE Effects \ {"mcp"}
  /\ commands' = commands + 1
  /\ pc' = "traced"
  /\ UNCHANGED <<native, step, conv, calls, performed, outputs, status, chatVars, mcpVars>>

\* execute_command, the start of a thread (module Threads), call_tool; at the
\* bound on the requests a call has a result of its own.
Perform ==
  /\ pc = "traced"
  /\ performed' = performed + 1
  /\ pc' = "performed"
  /\ IF doing = "mcp" /\ nextId < MaxRequests THEN CallTool ELSE UNCHANGED mcpVars
  /\ UNCHANGED <<native, step, conv, calls, doing, commands, outputs, status, chatVars>>

\* The result comes when the exchange with the server has ended.
Record ==
  /\ pc = "performed" /\ exchange = "idle"
  /\ outputs' = outputs + 1
  /\ Answer
  /\ pc' = "acting" /\ doing' = "none"
  /\ IF doing = "thread" THEN UNCHANGED queued ELSE SendStep
  /\ UNCHANGED <<native, step, commands, performed, status, newest, mcpVars>>

RefuseSilently ==                       \* faulty variant: no result for the call
  /\ pc = "acting" /\ calls # <<>>
  /\ calls' = Tail(calls)
  /\ SendStep
  /\ UNCHANGED <<native, pc, step, conv, doing, commands, performed, outputs, status,
                 newest, mcpVars>>

\* A command that is not allowed is a step without effect, a call that cannot be
\* read is an error and no step; the LLM learns of both.
Refuse ==
  /\ pc = "acting" /\ calls # <<>>
  /\ Answer
  /\ SendStep \/ (native /\ UNCHANGED queued)
  /\ UNCHANGED <<native, pc, step, doing, commands, performed, outputs, status, newest,
                 mcpVars>>

\* ask_human (HumanRequest has its statements); what was not performed is not.
AskHuman ==
  /\ pc = "inquiring" \/ (pc = "acting" /\ native /\ calls # <<>>)
  /\ status' = "waiting_human"
  /\ pc' = "ended"
  /\ UNCHANGED <<native, step, conv, calls, doing, commands, performed, outputs, chatVars,
                 mcpVars>>

\* The results of the text mode are one message of the user.
EndRound ==
  /\ pc = "acting" /\ calls = <<>>
  /\ pc' = "asking"
  /\ conv' = IF native THEN conv ELSE Append(conv, [role |-> "user", ids |-> <<>>])
  /\ UNCHANGED <<native, step, calls, doing, commands, performed, outputs, status, chatVars, mcpVars>>

CompleteTask ==
  /\ pc \in {"answered", "exhausted"}
  /\ status' = IF pc = "answered" THEN "completed" ELSE "max_iterations_reached"
  /\ pc' = "ended"
  /\ UNCHANGED <<native, step, conv, calls, doing, commands, performed, outputs, chatVars, mcpVars>>

\* The LLM, the database or the start of a command fails.
Fail ==
  /\ pc \in Pc \ {"ended", "done"} /\ exchange = "idle"
  /\ pc' = "ended"
  /\ UNCHANGED <<native, step, conv, calls, doing, commands, performed, outputs, status,
                 chatVars, mcpVars>>

\* The exchange that the run awaits, and the server beside it: what it does between
\* two exchanges has the same effect when it is done at the start of the second.
McpStep ==
  /\ exchange # "idle"
  /\ Exchange \/ Server
  /\ UNCHANGED <<agentVars, chatVars>>

-----------------------------------------------------------------------------
(* The chat.                                                               *)

\* The poster takes the steps in their order; a chat that is closed or full
\* refuses them and nobody learns of it.
PostStep ==
  /\ queued > 0
  /\ queued' = queued - 1
  /\ newest' \in {newest, "step"}
  /\ UNCHANGED <<agentVars, mcpVars>>

PostFinalAtOnce ==                      \* faulty variant: the poster is not awaited
  /\ pc = "ended"
  /\ pc' = "done"
  /\ newest' \in {newest, "final"}
  /\ UNCHANGED <<native, step, conv, calls, doing, commands, performed, outputs, status,
                 queued, mcpVars>>

\* The answer, the question or the error, when the poster has ended.
PostFinal ==
  /\ pc = "ended" /\ queued = 0
  /\ pc' = "done"
  /\ newest' \in {newest, "final"}
  /\ UNCHANGED <<native, step, conv, calls, doing, commands, performed, outputs, status,
                 queued, mcpVars>>

-----------------------------------------------------------------------------
Init ==
  /\ McpInit
  /\ native = FALSE /\ pc = "idle" /\ step = 0 /\ conv = <<>> /\ calls = <<>> /\ doing = "none"
  /\ commands = 0 /\ performed = 0 /\ outputs = 0
  /\ status = "none"
  /\ queued = 0 /\ newest = "none"

RunStep == \/ StartRun \/ ConnectMcp \/ ConnectedMcp \/ AskLlm \/ ReachLimit
           \/ TraceCommand \/ Perform \/ Record \/ Refuse \/ AskHuman
           \/ EndRound \/ CompleteTask \/ Fail

Next == RunStep \/ McpStep \/ PostStep \/ PostFinal

Spec == Init /\ [][Next]_vars

\* The run and the poster are scheduled, requests to the LLM and commands end;
\* the MCP server owes nothing, its calls have a time-out.
Fairness == /\ WF_vars(RunStep)
            /\ WF_vars(PostStep)
            /\ WF_vars(PostFinal)
            /\ WF_vars(TimeOut /\ UNCHANGED <<agentVars, chatVars>>)

FairSpec == Spec /\ Fairness

-----------------------------------------------------------------------------
(* Properties.                                                             *)

Entry == [role : {"assistant", "tool", "user"},
          ids : Seq((1..MaxIterations) \X (1..MaxCalls))]

TypeOK ==
  /\ McpTypeOK
  /\ native \in BOOLEAN
  /\ pc \in Pc
  /\ step \in 0..MaxIterations
  /\ conv \in Seq(Entry)
  /\ calls \in Seq((1..MaxIterations) \X (1..MaxCalls))
  /\ doing \in Effects \cup {"none"}
  /\ commands \in Nat /\ performed \in Nat /\ outputs \in Nat
  /\ status \in {"none", "running", "completed", "max_iterations_reached", "waiting_human"}
  /\ queued \in Nat
  /\ newest \in {"none", "step", "final"}

\* Whenever the LLM is asked, every call it made has exactly one result, right
\* after the message that made it and in the order of the calls, whether it was
\* performed, refused, not understood or timed out; an API refuses any other
\* conversation.  In the text mode replies and results alternate.
EveryCallAnswered ==
  pc = "asking" =>
    \A i \in 1..Len(conv) :
      \/ /\ conv[i].role = "assistant" /\ native
         /\ \A j \in 1..Len(conv[i].ids) :
              /\ i + j <= Len(conv)
              /\ conv[i + j] = [role |-> "tool", ids |-> <<conv[i].ids[j]>>]
      \/ /\ conv[i].role = "tool" /\ native
         /\ \A k \in 1..Len(conv) : k # i => conv[k] # conv[i]
      \/ /\ ~native
         /\ conv[i].role = IF i % 2 = 1 THEN "assistant" ELSE "user"
         /\ Len(conv) % 2 = 0

\* The LLM is shown a conversation its API takes, by the types of the loop.
ConversationOK == TypeOK /\ EveryCallAnswered

\* "Steps are in the chat already, the final answer comes after them" (run_job):
\* the task of the poster never adds a step to the chat after the end of the run.
StepsBeforeAnswer == [][newest = "final" => newest' = "final"]_vars

\* Wherever a run fails, its trace has every command, thread and call it had an
\* effect by, and the results of all but the last.
TraceComplete ==
  outputs <= performed /\ performed <= commands /\ commands <= outputs + 1

\* A run ends, whatever the MCP server does or fails to do.
RunEnds == <>(pc = "done")
=============================================================================
