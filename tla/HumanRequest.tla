---------------------------- MODULE HumanRequest ----------------------------
(***************************************************************************)
(* A question of an agent to a human and its answer (agent.rs, runtime.rs, *)
(* trace.rs).                                                              *)
(*                                                                         *)
(* A run that asks stores a request, parks its task, posts the question in *)
(* the chat and only then links the request to the message of the          *)
(* question.  A reply to that message closes the request and starts a new  *)
(* run of the agent.  Runs are those of one agent on one workstation, so   *)
(* they are serial (Dispatch); replies are routed in parallel.             *)
(***************************************************************************)
EXTENDS Integers

CONSTANTS
  Runs,        \* runs of the agent
  Called,      \* runs that an ordinary message starts; the rest resume
  Replies,     \* messages that reply to a question
  None,        \* no reply, no run
  Faults,      \* what may go wrong: "db", "run", "close", "full", "set"
  MaxCrashes   \* bound: deaths of the agent process

ASSUME HumanRequestAssumption ==
  /\ Called \subseteq Runs
  /\ None \notin Replies \cup Runs
  /\ MaxCrashes \in Nat

VARIABLES
  at,        \* at[r]: how far run_job has come
  task,      \* tasks.status of the task of run r
  request,   \* human_requests.status of the request of run r
  asked,     \* runs whose question is in the chat
  linked,    \* runs whose request points to the question
  cause,     \* cause[r]: the reply that run r resumes from
  reply,     \* reply[m]: how far the routing of reply m has come
  target,    \* target[m]: the run whose question m replies to
  inChat,    \* replies in the chat of the question, not a thread or a share
  winners,   \* winners[r]: replies that closed the request of r (history)
  open,      \* the chat is OPEN
  room,      \* the chat is no thread, or one with a place left
  inSet,     \* the agent is in the set of the project
  crashes,
  happened   \* faults of a query and edits of the set so far (history)

runVars   == <<at, task, request, asked, linked, cause>>
replyVars == <<reply, target, inChat, winners>>
envVars   == <<open, room, inSet, crashes, happened>>
vars == <<at, task, request, asked, linked, cause, reply, target, inChat,
          winners, open, room, inSet, crashes, happened>>

Active  == {"working", "requested", "asking", "posted", "replying"}
AtRun   == Active \cup {"idle", "queued", "done", "dead"}
Settled == {"completed", "max_iterations_reached", "answered"}
Status  == Settled \cup {"none", "running", "waiting_human"}
InRouting == {"posted", "found", "won", "resuming"}
AtReply   == InRouting \cup {"none", "ignored", "resumed", "dropped", "forgotten"}

-----------------------------------------------------------------------------
(* Runs.                                                                   *)

\* An error of the database.
QueryFails == "db" \in Faults /\ happened' = happened \cup {"db"}

CallAgent(r) ==
  /\ r \in Called /\ at[r] = "idle"
  /\ at' = [at EXCEPT ![r] = "queued"]
  /\ UNCHANGED <<task, request, asked, linked, cause, replyVars, envVars>>

\* run_job under the mutex of the agent: the task is created as running.
StartRun(r) ==
  /\ at[r] = "queued"
  /\ \A s \in Runs : at[s] \notin Active
  /\ \/ /\ at' = [at EXCEPT ![r] = "working"]
        /\ task' = [task EXCEPT ![r] = "running"]
        /\ UNCHANGED happened
     \/ /\ QueryFails
        /\ at' = [at EXCEPT ![r] = "replying"]
        /\ UNCHANGED task
  /\ UNCHANGED <<request, asked, linked, cause, replyVars, open, room, inSet, crashes>>

\* The agent is gone from its set, or the context cannot be read.
AbandonRun(r) ==
  /\ at[r] = "queued"
  /\ \A s \in Runs : at[s] \notin Active
  /\ QueryFails \/ (~inSet /\ UNCHANGED happened)
  /\ at' = [at EXCEPT ![r] = "done"]
  /\ UNCHANGED <<task, request, asked, linked, cause, replyVars, open, room, inSet, crashes>>

Finish(r) ==
  /\ at[r] = "working"
  /\ \E status \in {"completed", "max_iterations_reached"} :
       task' = [task EXCEPT ![r] = status]
  /\ at' = [at EXCEPT ![r] = "replying"]
  /\ UNCHANGED <<request, asked, linked, cause, replyVars, envVars>>

\* An error leaves the loop by `?`, the status of the task is not touched.
FailRun(r) ==
  /\ "run" \in Faults
  /\ at[r] \in {"working", "requested"}
  /\ at' = [at EXCEPT ![r] = "replying"]
  /\ UNCHANGED <<task, request, asked, linked, cause, replyVars, envVars>>

\* ask_human, first statement.
CreateRequest(r) ==
  /\ at[r] = "working"
  /\ at' = [at EXCEPT ![r] = "requested"]
  /\ request' = [request EXCEPT ![r] = "pending"]
  /\ UNCHANGED <<task, asked, linked, cause, replyVars, envVars>>

\* ask_human, last statement.
WaitHuman(r) ==
  /\ at[r] = "requested"
  /\ at' = [at EXCEPT ![r] = "asking"]
  /\ task' = [task EXCEPT ![r] = "waiting_human"]
  /\ UNCHANGED <<request, asked, linked, cause, replyVars, envVars>>

\* Without a row of the message there is nothing to link: the chat takes no more
\* messages, or a statement of insert_message failed, before its INSERT or after it.
LoseQuestion(r) ==
  /\ at' = [at EXCEPT ![r] = "done"]
  /\ \/ ~(open /\ room) /\ UNCHANGED <<asked, happened>>
     \/ QueryFails /\ UNCHANGED asked
     \/ QueryFails /\ open /\ room /\ asked' = asked \cup {r}

\* The question goes to the chat, if that takes it.
SendQuestion(r) ==
  /\ at[r] = "asking"
  /\ \/ /\ open /\ room
        /\ at' = [at EXCEPT ![r] = "posted"]
        /\ asked' = asked \cup {r}
        /\ UNCHANGED happened
     \/ LoseQuestion(r)
  /\ UNCHANGED <<task, request, linked, cause, replyVars, open, room, inSet, crashes>>

LinkRequestSkipped(r) ==                \* faulty variant: the link is forgotten
  /\ at[r] = "posted"
  /\ at' = [at EXCEPT ![r] = "done"]
  /\ UNCHANGED <<task, request, asked, linked, cause, replyVars, envVars>>

\* link_human_request_chat, its error ignored, and the publication.
LinkRequest(r) ==
  /\ at[r] = "posted"
  /\ at' = [at EXCEPT ![r] = "done"]
  /\ \/ linked' = linked \cup {r} /\ UNCHANGED happened
     \/ QueryFails /\ UNCHANGED linked
  /\ UNCHANGED <<task, request, asked, cause, replyVars, open, room, inSet, crashes>>

SendAnswer(r) ==
  /\ at[r] = "replying"
  /\ at' = [at EXCEPT ![r] = "done"]
  /\ UNCHANGED <<task, request, asked, linked, cause, replyVars, envVars>>

-----------------------------------------------------------------------------
(* Replies.                                                                *)

\* A reply in the chat, or a message elsewhere that keeps the same parent: a
\* shared copy of a reply, the first message of a thread from the question.  A copy
\* needs no place in a thread.
PostReply(m, r) ==
  /\ reply[m] = "none" /\ r \in asked
  /\ reply' = [reply EXCEPT ![m] = "posted"]
  /\ target' = [target EXCEPT ![m] = r]
  /\ \/ open /\ inChat' = inChat \cup {m}
     \/ UNCHANGED inChat
  /\ UNCHANGED <<runVars, winners, envVars>>

\* route_answer: pending_for_question_message and the chat of the request; an error
\* is taken for "none".
ReadPending(m) ==
  /\ reply[m] = "posted"
  /\ \/ /\ reply' = [reply EXCEPT ![m] =
              IF /\ target[m] \in linked /\ request[target[m]] = "pending"
                 /\ m \in inChat
                THEN "found" ELSE "ignored"]
        /\ UNCHANGED happened
     \/ QueryFails /\ reply' = [reply EXCEPT ![m] = "ignored"]
  /\ UNCHANGED <<runVars, target, inChat, winners, open, room, inSet, crashes>>

AnswerRequestUnguarded(m) ==            \* faulty variant: no status in WHERE
  /\ reply[m] = "found"
  /\ request' = [request EXCEPT ![target[m]] = "answered"]
  /\ reply' = [reply EXCEPT ![m] = "won"]
  /\ winners' = [winners EXCEPT ![target[m]] = @ \cup {m}]
  /\ UNCHANGED <<at, task, asked, linked, cause, target, inChat, envVars>>

\* answer_human_request: one UPDATE that only a pending request matches; its error,
\* too, ends the routing.
AnswerRequest(m) ==
  /\ reply[m] = "found"
  /\ \/ /\ request[target[m]] = "pending"
        /\ request' = [request EXCEPT ![target[m]] = "answered"]
        /\ reply' = [reply EXCEPT ![m] = "won"]
        /\ winners' = [winners EXCEPT ![target[m]] = @ \cup {m}]
        /\ UNCHANGED happened
     \/ /\ (request[target[m]] # "pending" /\ UNCHANGED happened) \/ QueryFails
        /\ reply' = [reply EXCEPT ![m] = "ignored"]
        /\ UNCHANGED <<request, winners>>
  /\ UNCHANGED <<at, task, asked, linked, cause, target, inChat, open, room, inSet, crashes>>

CompleteTaskForgotten(m) ==             \* faulty variant
  /\ reply[m] = "won"
  /\ reply' = [reply EXCEPT ![m] = "resuming"]
  /\ UNCHANGED <<runVars, target, inChat, winners, envVars>>

\* complete_task, its error ignored.
CompleteTask(m) ==
  /\ reply[m] = "won"
  /\ reply' = [reply EXCEPT ![m] = "resuming"]
  /\ \/ task' = [task EXCEPT ![target[m]] = "answered"] /\ UNCHANGED happened
     \/ QueryFails /\ UNCHANGED task
  /\ UNCHANGED <<at, request, asked, linked, cause, target, inChat, winners,
                 open, room, inSet, crashes>>

ResumeIfOpen(m) ==                      \* faulty variant: a closed chat is skipped
  /\ reply[m] = "resuming"
  /\ IF inSet /\ open
       THEN \E s \in Runs \ Called :
              /\ at[s] = "idle"
              /\ at' = [at EXCEPT ![s] = "queued"]
              /\ cause' = [cause EXCEPT ![s] = m]
              /\ reply' = [reply EXCEPT ![m] = "resumed"]
       ELSE /\ reply' = [reply EXCEPT ![m] = "dropped"]
            /\ UNCHANGED <<at, cause>>
  /\ UNCHANGED <<task, request, asked, linked, target, inChat, winners, envVars>>

\* The agent is looked up in the current set: a new run of it, or nothing.
Resume(m) ==
  /\ reply[m] = "resuming"
  /\ IF inSet
       THEN \E s \in Runs \ Called :
              /\ at[s] = "idle"
              /\ at' = [at EXCEPT ![s] = "queued"]
              /\ cause' = [cause EXCEPT ![s] = m]
              /\ reply' = [reply EXCEPT ![m] = "resumed"]
       ELSE /\ reply' = [reply EXCEPT ![m] = "dropped"]
            /\ UNCHANGED <<at, cause>>
  /\ UNCHANGED <<task, request, asked, linked, target, inChat, winners, envVars>>

-----------------------------------------------------------------------------
(* The rest of the system.                                                 *)

CloseChat ==
  /\ "close" \in Faults /\ open
  /\ open' = FALSE
  /\ UNCHANGED <<runVars, replyVars, room, inSet, crashes, happened>>

\* Other messages take the last place of a thread; none is ever deleted.
FillThread ==
  /\ "full" \in Faults /\ room
  /\ room' = FALSE
  /\ UNCHANGED <<runVars, replyVars, open, inSet, crashes, happened>>

EditSet ==
  /\ "set" \in Faults
  /\ inSet' = ~inSet
  /\ happened' = happened \cup {"set"}
  /\ UNCHANGED <<runVars, replyVars, open, room, crashes>>

\* Runs and routing live in memory; what was stored before the restart is not
\* routed again (Delivery).
Crash ==
  /\ crashes < MaxCrashes
  /\ crashes' = crashes + 1
  /\ at' = [r \in Runs |-> IF at[r] \in Active \cup {"queued"} THEN "dead" ELSE at[r]]
  /\ reply' = [m \in Replies |-> IF reply[m] \in InRouting THEN "forgotten" ELSE reply[m]]
  /\ UNCHANGED <<task, request, asked, linked, cause, target, inChat, winners, open, room,
                 inSet, happened>>

Init ==
  /\ at = [r \in Runs |-> "idle"]
  /\ task = [r \in Runs |-> "none"]
  /\ request = [r \in Runs |-> "none"]
  /\ asked = {} /\ linked = {}
  /\ cause = [r \in Runs |-> None]
  /\ reply = [m \in Replies |-> "none"]
  /\ target = [m \in Replies |-> None]
  /\ inChat = {}
  /\ winners = [r \in Runs |-> {}]
  /\ open = TRUE /\ room = TRUE /\ inSet = TRUE
  /\ crashes = 0 /\ happened = {}

Leave(r) == Finish(r) \/ CreateRequest(r) \/ FailRun(r)
RunStep(r) == \/ StartRun(r) \/ AbandonRun(r) \/ Leave(r) \/ WaitHuman(r)
              \/ SendQuestion(r) \/ LinkRequest(r) \/ SendAnswer(r)
RouteStep(m) == ReadPending(m) \/ AnswerRequest(m) \/ CompleteTask(m) \/ Resume(m)

Next ==
  \/ \E r \in Runs : CallAgent(r) \/ RunStep(r)
  \/ \E m \in Replies : RouteStep(m) \/ \E r \in Runs : PostReply(m, r)
  \/ CloseChat \/ FillThread \/ EditSet \/ Crash

Spec == Init /\ [][Next]_vars

\* Tasks of tokio are scheduled and the loop of a run ends (max_iterations).
Fairness == /\ \A r \in Runs : WF_vars(RunStep(r))
            /\ \A m \in Replies : WF_vars(RouteStep(m))

FairSpec == Spec /\ Fairness

-----------------------------------------------------------------------------
(* Properties.                                                             *)

TypeOK ==
  /\ at \in [Runs -> AtRun]
  /\ task \in [Runs -> Status]
  /\ request \in [Runs -> {"none", "pending", "answered"}]
  /\ linked \subseteq asked /\ asked \subseteq Runs
  /\ cause \in [Runs -> Replies \cup {None}]
  /\ reply \in [Replies -> AtReply]
  /\ target \in [Replies -> Runs \cup {None}]
  /\ inChat \subseteq Replies
  /\ winners \in [Runs -> SUBSET Replies]
  /\ open \in BOOLEAN /\ room \in BOOLEAN /\ inSet \in BOOLEAN
  /\ crashes \in 0..MaxCrashes /\ happened \subseteq Faults

\* A question is answered by at most one reply, however many arrive at once,
\* and that one was written in the chat of the question.
AnsweredOnce ==
  \A r \in Runs :
    /\ winners[r] \subseteq inChat
    /\ \A m, n \in winners[r] : m = n
    /\ winners[r] # {} => request[r] = "answered"

\* An answer resumes the agent at most once: two runs never continue from the
\* same question.
ResumedOnce ==
  \A r, s \in Runs :
    /\ cause[r] # None /\ cause[s] # None
    /\ target[cause[r]] = target[cause[s]]
    => r = s

\* The status of a task follows its request: it is "answered" only when the
\* request is, and a request that was answered leaves its task waiting only
\* while the answer is on its way (or was lost with the process or by the DB).
TaskFollowsRequest ==
  \A r \in Runs :
    /\ task[r] = "answered" => request[r] = "answered"
    /\ request[r] = "answered" /\ task[r] # "answered" =>
         \/ \E m \in winners[r] : reply[m] = "won"
         \/ crashes > 0 \/ "db" \in happened

\* A task that is over never runs or waits again.
SettledForGood ==
  [][\A r \in Runs : task[r] \in Settled => task'[r] = task[r]]_vars

\* A task that waits for a human after its run has ended has a question that a
\* reply can reach, or its chat was closed or full before it could be asked, or a
\* statement failed on the way.  Failing runs, and chats that are closed or full
\* later, leave no other gap; a run that died with the process is not meant.
QuestionAnswerable ==
  \A r \in Runs : at[r] = "done" /\ task[r] = "waiting_human" =>
    r \in linked \/ (~(open /\ room) /\ r \notin asked) \/ "db" \in happened

\* A reply that is routed after the link is not in vain: the agent continues
\* from the question, even if the chat is closed or the new run fails.  Only the
\* death of the process, an edit of the set or an error of the database prevents it.
LateReplyResumes ==
  \A m \in Replies, r \in Runs :
    (reply[m] = "posted" /\ m \in inChat /\ target[m] = r /\ r \in linked)
      ~> \/ \E s \in Runs : cause[s] # None /\ target[cause[s]] = r /\ at[s] = "done"
         \/ crashes > 0 \/ happened # {}

\* "Any participant replies to this message and the agent continues"
\* (README): a reply in the chat is ignored only when another one answered.
ReplyAnswers ==
  \A m \in Replies :
    reply[m] = "ignored" /\ m \in inChat => request[target[m]] = "answered"

\* "Otherwise leaving the loop early would leave the task running forever"
\* (comment at wait_human_task): a finished run has no running task.
NoTaskLeftRunning ==
  \A r \in Runs : at[r] = "done" => task[r] # "running"
-----------------------------------------------------------------------------
(* What the proofs need besides the properties.                            *)

Decided == {"won", "resuming", "resumed", "dropped"}

\* How far a run has come fixes the status of its task.
RunInv ==
  \A r \in Runs :
    /\ at[r] \in {"idle", "queued"} => task[r] = "none"
    /\ at[r] \in {"working", "requested"} => task[r] = "running"
    /\ at[r] \in {"asking", "posted"} => task[r] = "waiting_human"
    /\ at[r] = "posted" => r \in asked
    /\ r \in linked => task[r] \in {"waiting_human", "answered"}
    /\ r \in linked => at[r] \in {"done", "dead"}
    /\ at[r] = "working" => request[r] = "none"
    /\ at[r] \in {"idle", "queued"} => request[r] = "none"
    /\ at[r] = "idle" => cause[r] = None
    /\ task[r] = "answered" => request[r] = "answered"

\* Where the question of a waiting task is, unless the database failed.
QuestionInv ==
  \A r \in Runs :
    /\ r \in asked => at[r] \in {"posted", "done", "dead"}
    /\ task[r] = "waiting_human" =>
         \/ at[r] \in {"asking", "posted", "dead"}
         \/ at[r] = "done" /\ (r \in linked \/ (~(open /\ room) /\ r \notin asked))
         \/ "db" \in happened

\* What the routing of a reply has established.
RouteInv ==
  \A m \in Replies :
    /\ reply[m] = "none" <=> target[m] = None
    /\ reply[m] = "found" => m \in inChat /\ target[m] \in linked
    /\ reply[m] \in Decided => m \in winners[target[m]]
    /\ \A r \in Runs : m \in winners[r] =>
         /\ target[m] = r /\ r \in linked /\ m \in inChat
         /\ reply[m] \in Decided \cup {"forgotten"}
    /\ reply[m] \in Decided \ {"won"} /\ "db" \notin happened => task[target[m]] = "answered"
    /\ reply[m] = "forgotten" => crashes > 0

AnswerInv ==
  /\ AnsweredOnce
  /\ \A r \in Runs : request[r] = "answered" => winners[r] # {}

CauseInv ==
  \A r \in Runs : cause[r] # None =>
    /\ reply[cause[r]] = "resumed"
    /\ \A s \in Runs : cause[s] = cause[r] => s = r
=============================================================================
