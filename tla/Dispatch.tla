------------------------------ MODULE Dispatch ------------------------------
(***************************************************************************)
(* Running the agents that an accepted message calls (runtime.rs).         *)
(*                                                                         *)
(* Every accepted message is a task of its own.  A task takes one permit   *)
(* of the semaphore of the process and keeps it until all agents the       *)
(* message calls have finished; the run of each agent is under the mutex   *)
(* of its pair "workstation and agent", a member of Agents here.  Both the *)
(* semaphore and the mutexes serve their waiters in the order of arrival.  *)
(***************************************************************************)
EXTENDS Integers, Sequences, FiniteSets

CONSTANTS
  Messages,    \* accepted messages
  Agents,      \* pairs of a workstation and an agent
  Permits,     \* MAX_CONCURRENT_AGENT_RUNS, 4 in the code
  Hung         \* agents whose run may never end: LLM requests and commands have no time-out

ASSUME DispatchAssumption ==
  /\ IsFiniteSet(Messages)
  /\ Permits \in Nat \ {0}
  /\ Hung \subseteq Agents

VARIABLES
  task,        \* task[m]: how far the task of message m has come
  permits,     \* permits that nobody holds
  queue,       \* tasks waiting for a permit
  phase,       \* phase[m][a]: the job that message m gives to agent a
  held,        \* held[a]: the mutex of a is locked
  waiters      \* waiters[a]: messages whose job waits for the mutex of a

permitVars == <<task, permits, queue>>
lockVars   == <<phase, held, waiters>>
vars == <<task, permits, queue, phase, held, waiters>>

TaskStates == {"none", "spawned", "queued", "routing", "serving", "done"}
JobStates  == {"idle", "asking", "waiting", "running", "done"}

\* Messages whose task holds a permit.
Holding == {m \in Messages : task[m] \in {"routing", "serving"}}

Running(m, a) == phase[m][a] = "running"

-----------------------------------------------------------------------------
\* accept: the task of a message that was not seen before.
Spawn(m) ==
  /\ task[m] = "none"
  /\ task' = [task EXCEPT ![m] = "spawned"]
  /\ UNCHANGED <<permits, queue, lockVars>>

\* dispatch: take a permit or queue for one.
AcquirePermit(m) ==
  /\ task[m] = "spawned"
  /\ IF permits > 0
       THEN /\ permits' = permits - 1
            /\ task' = [task EXCEPT ![m] = "routing"]
            /\ UNCHANGED queue
       ELSE /\ queue' = Append(queue, m)
            /\ task' = [task EXCEPT ![m] = "queued"]
            /\ UNCHANGED permits
  /\ UNCHANGED lockVars

\* route: the set of agents the message calls, possibly none.
RouteMessage(m) ==
  /\ task[m] = "routing"
  /\ \E called \in SUBSET Agents :
       phase' = [phase EXCEPT ![m] =
                   [a \in Agents |-> IF a \in called THEN "asking" ELSE "idle"]]
  /\ task' = [task EXCEPT ![m] = "serving"]
  /\ UNCHANGED <<permits, queue, held, waiters>>

AskLockUnguarded(m, a) ==               \* faulty variant: two mutexes for a pair
  /\ phase[m][a] = "asking"
  /\ held' = [held EXCEPT ![a] = TRUE]
  /\ phase' = [phase EXCEPT ![m][a] = "running"]
  /\ UNCHANGED <<permitVars, waiters>>

\* handle_message, lock().await: run, or wait for the run that is under way.
AskLock(m, a) ==
  /\ phase[m][a] = "asking"
  /\ IF held[a]
       THEN /\ waiters' = [waiters EXCEPT ![a] = Append(@, m)]
            /\ phase' = [phase EXCEPT ![m][a] = "waiting"]
            /\ UNCHANGED held
       ELSE /\ held' = [held EXCEPT ![a] = TRUE]
            /\ phase' = [phase EXCEPT ![m][a] = "running"]
            /\ UNCHANGED waiters
  /\ UNCHANGED permitVars

FinishRunSilently(m, a) ==              \* faulty variant: no waiter is woken
  /\ Running(m, a)
  /\ held' = [held EXCEPT ![a] = FALSE]
  /\ phase' = [phase EXCEPT ![m][a] = "done"]
  /\ UNCHANGED <<permitVars, waiters>>

\* run_job returns: the mutex goes to the first that waits for it.
FinishRun(m, a) ==
  /\ Running(m, a)
  /\ IF waiters[a] = <<>>
       THEN /\ held' = [held EXCEPT ![a] = FALSE]
            /\ phase' = [phase EXCEPT ![m][a] = "done"]
            /\ UNCHANGED waiters
       ELSE /\ waiters' = [waiters EXCEPT ![a] = Tail(@)]
            /\ phase' = [phase EXCEPT ![m][a] = "done",
                                      ![Head(waiters[a])][a] = "running"]
            /\ UNCHANGED held
  /\ UNCHANGED permitVars

\* join_all is done: the permit is dropped and the first in the queue has it.
FinishMessage(m) ==
  /\ task[m] = "serving"
  /\ \A a \in Agents : phase[m][a] \in {"idle", "done"}
  /\ IF queue = <<>>
       THEN /\ permits' = permits + 1
            /\ task' = [task EXCEPT ![m] = "done"]
            /\ UNCHANGED queue
       ELSE /\ queue' = Tail(queue)
            /\ task' = [task EXCEPT ![m] = "done", ![Head(queue)] = "routing"]
            /\ UNCHANGED permits
  /\ UNCHANGED lockVars

-----------------------------------------------------------------------------
Init ==
  /\ task = [m \in Messages |-> "none"]
  /\ permits = Permits
  /\ queue = <<>>
  /\ phase = [m \in Messages |-> [a \in Agents |-> "idle"]]
  /\ held = [a \in Agents |-> FALSE]
  /\ waiters = [a \in Agents |-> <<>>]

Step(m) == AcquirePermit(m) \/ RouteMessage(m) \/ FinishMessage(m)

Next == \E m \in Messages :
          \/ Spawn(m)
          \/ Step(m)
          \/ \E a \in Agents : AskLock(m, a) \/ FinishRun(m, a)

Spec == Init /\ [][Next]_vars

\* The tasks are scheduled by tokio; the run of an agent that is not hung ends.
Fairness == /\ \A m \in Messages : WF_vars(Step(m))
            /\ \A m \in Messages, a \in Agents : WF_vars(AskLock(m, a))
            /\ \A m \in Messages, a \in Agents \ Hung : WF_vars(FinishRun(m, a))

FairSpec == Spec /\ Fairness

-----------------------------------------------------------------------------
(* Properties.                                                             *)

TypeOK ==
  /\ task \in [Messages -> TaskStates]
  /\ permits \in 0..Permits
  /\ queue \in Seq(Messages)
  /\ phase \in [Messages -> [Agents -> JobStates]]
  /\ held \in [Agents -> BOOLEAN]
  /\ waiters \in [Agents -> Seq(Messages)]

\* One agent never works in two instances on one workstation
\* (RuntimeState.agent_locks), and a run is always under a permit.
OneRunPerAgent ==
  \A m \in Messages, a \in Agents :
    Running(m, a) => /\ m \in Holding
                     /\ \A n \in Messages : Running(n, a) => n = m

\* The semaphore neither loses nor invents permits, so at most Permits
\* messages are in work at a time, whatever their jobs do.
PermitsConserved == permits + Cardinality(Holding) = Permits

\* Nobody waits for what is free: a wakeup is never lost.
NoLostWakeup ==
  /\ permits > 0 => queue = <<>>
  /\ \A a \in Agents : ~held[a] => \A m \in Messages : phase[m][a] # "waiting"

\* When every run ends, every accepted message is served to its end: permits
\* held while waiting for mutexes never block each other.
EveryMessageServed ==
  \A m \in Messages : (task[m] = "spawned") ~> (task[m] = "done")

\* "A slow agent does not block the other channels" (comment at session): a
\* message gets as far as its own agents although another agent hangs.
SlowAgentBlocksNobody ==
  \A m \in Messages : (task[m] = "spawned") ~> (task[m] \in {"serving", "done"})
-----------------------------------------------------------------------------
(* What the proofs need besides the properties.                            *)

\* Jobs are under way only in a task that is being served.
TaskInv ==
  \A m \in Messages, a \in Agents :
    phase[m][a] \in {"asking", "waiting", "running"} => task[m] = "serving"

\* The queue of the semaphore holds each waiting task once.
QueueInv ==
  /\ permits > 0 => queue = <<>>
  /\ \A i \in DOMAIN queue : task[queue[i]] = "queued"
  /\ \A i, j \in DOMAIN queue : queue[i] = queue[j] => i = j

\* A run implies a locked mutex, and the waiters of a mutex are exactly the
\* waiting jobs, each once.
RunInv ==
  \A a \in Agents, m \in Messages :
    Running(m, a) => held[a] /\ \A n \in Messages : Running(n, a) => n = m

WaitInv ==
  \A a \in Agents :
    /\ waiters[a] # <<>> => held[a]
    /\ \A i \in DOMAIN waiters[a] : phase[waiters[a][i]][a] = "waiting"
    /\ \A i, j \in DOMAIN waiters[a] : waiters[a][i] = waiters[a][j] => i = j
    /\ \A m \in Messages : phase[m][a] = "waiting" =>
         \E i \in DOMAIN waiters[a] : waiters[a][i] = m
=============================================================================
