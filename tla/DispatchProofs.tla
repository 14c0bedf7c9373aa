--------------------------- MODULE DispatchProofs ---------------------------
(***************************************************************************)
(* Theorems about Dispatch for any number of messages, agents and permits: *)
(* types and conservation of the permits, one run per agent, and no lost   *)
(* wakeup.                                                                 *)
(***************************************************************************)
EXTENDS Dispatch, FiniteSetTheorems, TLAPS

\* The semaphore part of the inductive invariant.
PermitInv == TypeOK /\ TaskInv /\ QueueInv /\ PermitsConserved

\* The mutex part.
LockInv == RunInv /\ WaitInv

-----------------------------------------------------------------------------
(* A sequence without repetitions keeps that under Append and Tail.        *)

LEMMA EmptySeq == ASSUME NEW S PROVE <<>> \in Seq(S)
OBVIOUS

LEMMA TailFacts ==
  ASSUME NEW S, NEW q \in Seq(S), q # <<>>
  PROVE  /\ Head(q) \in S
         /\ Tail(q) \in Seq(S)
         /\ 1 \in DOMAIN q /\ Head(q) = q[1]
         /\ \A i \in DOMAIN Tail(q) :
              i + 1 \in DOMAIN q /\ Tail(q)[i] = q[i + 1] /\ i # 0 /\ i \in Int
         /\ \A i \in DOMAIN q : i # 1 => i - 1 \in DOMAIN Tail(q) /\ i \in Int
OBVIOUS

LEMMA AppendFacts ==
  ASSUME NEW S, NEW q \in Seq(S), NEW x \in S
  PROVE  /\ Append(q, x) \in Seq(S)
         /\ Append(q, x) # <<>>
         /\ \A i \in DOMAIN Append(q, x) :
              \/ i \in DOMAIN q /\ Append(q, x)[i] = q[i]
              \/ i = Len(q) + 1 /\ Append(q, x)[i] = x
         /\ \A i \in DOMAIN q : i \in DOMAIN Append(q, x) /\ Append(q, x)[i] = q[i]
         /\ Len(q) + 1 \in DOMAIN Append(q, x)
         /\ Append(q, x)[Len(q) + 1] = x
OBVIOUS

\* Distinct elements stay distinct when the first is taken off, and it is gone.
LEMMA TailDistinct ==
  ASSUME NEW S, NEW q \in Seq(S), q # <<>>,
         \A i, j \in DOMAIN q : q[i] = q[j] => i = j
  PROVE  /\ \A i, j \in DOMAIN Tail(q) : Tail(q)[i] = Tail(q)[j] => i = j
         /\ \A i \in DOMAIN Tail(q) : Tail(q)[i] # Head(q)
<1>1. ASSUME NEW i \in DOMAIN Tail(q), NEW j \in DOMAIN Tail(q),
             Tail(q)[i] = Tail(q)[j]
      PROVE  i = j
  <2>1. /\ i + 1 \in DOMAIN q /\ Tail(q)[i] = q[i + 1] /\ i \in Int
        /\ j + 1 \in DOMAIN q /\ Tail(q)[j] = q[j + 1] /\ j \in Int
    BY TailFacts
  <2>2. i + 1 = j + 1
    BY <1>1, <2>1
  <2>3. QED
    BY <2>1, <2>2
<1>2. ASSUME NEW i \in DOMAIN Tail(q), Tail(q)[i] = Head(q)
      PROVE  FALSE
  <2>1. /\ i + 1 \in DOMAIN q /\ Tail(q)[i] = q[i + 1] /\ i # 0 /\ i \in Int
        /\ 1 \in DOMAIN q /\ Head(q) = q[1]
    BY TailFacts
  <2>2. i + 1 = 1
    BY <1>2, <2>1
  <2>3. QED
    BY <2>1, <2>2
<1>3. QED
  BY <1>1, <1>2

-----------------------------------------------------------------------------
(* The semaphore.                                                          *)

LEMMA HoldingFinite == IsFiniteSet(Holding) /\ Cardinality(Holding) \in Nat
BY DispatchAssumption, FS_Subset, FS_CardinalityType DEF Holding

LEMMA PermitInit == Init => PermitInv
<1> SUFFICES ASSUME Init PROVE PermitInv
  OBVIOUS
<1>1. TypeOK
  BY DispatchAssumption, EmptySeq DEF Init, TypeOK, TaskStates, JobStates
<1>2. Holding = {}
  BY DEF Init, Holding
<1>3. PermitsConserved
  BY <1>2, FS_EmptySet, DispatchAssumption DEF PermitsConserved, Init
<1>4. TaskInv /\ QueueInv
  BY DEF Init, TaskInv, QueueInv
<1>5. QED
  BY <1>1, <1>3, <1>4 DEF PermitInv

LEMMA PermitStep == PermitInv /\ LockInv /\ [Next]_vars => PermitInv'
<1> SUFFICES ASSUME PermitInv, LockInv, [Next]_vars
             PROVE  PermitInv'
  OBVIOUS
<1> USE DEF PermitInv, LockInv
<1>0. /\ permits \in Nat /\ permits \in Int /\ Permits \in Nat
      /\ Cardinality(Holding) \in Nat
      /\ permits + Cardinality(Holding) = Permits
  BY DispatchAssumption, HoldingFinite DEF TypeOK, PermitsConserved
<1>1. ASSUME NEW m \in Messages, Spawn(m)
      PROVE  PermitInv'
  <2>1. Holding' = Holding
    BY <1>1 DEF Spawn, Holding, TypeOK
  <2>2. TypeOK'
    BY <1>1 DEF Spawn, TypeOK, TaskStates, lockVars
  <2>3. TaskInv'
    BY <1>1 DEF Spawn, TaskInv, TypeOK, lockVars
  <2>4. QueueInv'
    BY <1>1 DEF Spawn, QueueInv, TypeOK
  <2>5. PermitsConserved'
    BY <1>1, <2>1 DEF Spawn, PermitsConserved
  <2>6. QED
    BY <2>2, <2>3, <2>4, <2>5
<1>2. ASSUME NEW m \in Messages, AcquirePermit(m)
      PROVE  PermitInv'
  <2>1. TaskInv'
    BY <1>2 DEF AcquirePermit, TaskInv, TypeOK, lockVars
  <2>2. CASE permits > 0
    <3>1. /\ permits' = permits - 1 /\ task' = [task EXCEPT ![m] = "routing"]
          /\ queue' = queue /\ task[m] = "spawned"
      BY <1>2, <2>2 DEF AcquirePermit
    <3>2. Holding' = Holding \cup {m} /\ m \notin Holding
      BY <3>1 DEF Holding, TypeOK
    <3>3. Cardinality(Holding') = Cardinality(Holding) + 1
      BY <3>2, HoldingFinite, FS_AddElement
    <3>4. PermitsConserved'
      BY <3>1, <3>3, <1>0 DEF PermitsConserved
    <3>5. permits' \in 0..Permits
      BY <3>1, <2>2, <1>0
    <3>6. TypeOK'
      BY <1>2, <3>1, <3>5 DEF AcquirePermit, TypeOK, TaskStates, lockVars
    <3>7. QueueInv'
      BY <2>2, <3>1, <1>0 DEF QueueInv
    <3>8. QED
      BY <2>1, <3>4, <3>6, <3>7
  <2>3. CASE ~(permits > 0)
    <3>1. /\ permits' = permits /\ task' = [task EXCEPT ![m] = "queued"]
          /\ queue' = Append(queue, m) /\ task[m] = "spawned"
      BY <1>2, <2>3 DEF AcquirePermit
    <3>2. Holding' = Holding
      BY <3>1 DEF Holding, TypeOK
    <3>3. PermitsConserved'
      BY <3>1, <3>2 DEF PermitsConserved
    <3>4. TypeOK'
      BY <1>2, <3>1, AppendFacts DEF AcquirePermit, TypeOK, TaskStates, lockVars
    <3>5. \A i \in DOMAIN queue : queue[i] \in Messages /\ queue[i] # m
      BY <3>1 DEF QueueInv, TypeOK
    <3>6. \A i \in DOMAIN queue' :
            \/ i \in DOMAIN queue /\ queue'[i] = queue[i]
            \/ i = Len(queue) + 1 /\ queue'[i] = m
      BY <3>1, AppendFacts DEF TypeOK
    <3>7. \A i \in DOMAIN queue' : task'[queue'[i]] = "queued"
      BY <3>1, <3>5, <3>6 DEF QueueInv, TypeOK
    <3>8. \A i, j \in DOMAIN queue' : queue'[i] = queue'[j] => i = j
      BY <3>5, <3>6 DEF QueueInv
    <3>9. QueueInv'
      BY <2>3, <3>1, <3>7, <3>8 DEF QueueInv
    <3>10. QED
      BY <2>1, <3>3, <3>4, <3>9
  <2>4. QED
    BY <2>2, <2>3
<1>3. ASSUME NEW m \in Messages, RouteMessage(m)
      PROVE  PermitInv'
  <2>1. PICK called \in SUBSET Agents :
          phase' = [phase EXCEPT ![m] =
                      [a \in Agents |-> IF a \in called THEN "asking" ELSE "idle"]]
    BY <1>3 DEF RouteMessage
  <2>2. Holding' = Holding
    BY <1>3 DEF RouteMessage, Holding, TypeOK
  <2>3. TypeOK'
    BY <1>3, <2>1 DEF RouteMessage, TypeOK, TaskStates, JobStates
  <2>4. TaskInv'
    BY <1>3, <2>1 DEF RouteMessage, TaskInv, TypeOK
  <2>5. QueueInv'
    BY <1>3 DEF RouteMessage, QueueInv, TypeOK
  <2>6. PermitsConserved'
    BY <1>3, <2>2 DEF RouteMessage, PermitsConserved
  <2>7. QED
    BY <2>3, <2>4, <2>5, <2>6
<1>4. ASSUME NEW m \in Messages, NEW a \in Agents, AskLock(m, a)
      PROVE  PermitInv'
  <2>1. /\ task' = task /\ permits' = permits /\ queue' = queue
        /\ phase[m][a] = "asking"
    BY <1>4 DEF AskLock, permitVars
  <2>2. task[m] = "serving"
    BY <2>1 DEF TaskInv
  <2>3. TypeOK' /\ TaskInv'
    <3>1. CASE held[a]
      <4>1. /\ waiters' = [waiters EXCEPT ![a] = Append(@, m)]
            /\ phase' = [phase EXCEPT ![m][a] = "waiting"]
            /\ held' = held
        BY <1>4, <3>1 DEF AskLock
      <4>2. waiters' \in [Agents -> Seq(Messages)]
        BY <4>1 DEF TypeOK
      <4>3. QED
        BY <2>1, <2>2, <4>1, <4>2 DEF TypeOK, TaskInv, JobStates
    <3>2. CASE ~held[a]
      <4>1. /\ waiters' = waiters
            /\ phase' = [phase EXCEPT ![m][a] = "running"]
            /\ held' = [held EXCEPT ![a] = TRUE]
        BY <1>4, <3>2 DEF AskLock
      <4>2. TypeOK'
        BY <2>1, <4>1 DEF TypeOK, JobStates
      <4>3. TaskInv'
        BY <2>1, <2>2, <4>1 DEF TaskInv, TypeOK
      <4>4. QED
        BY <4>2, <4>3
    <3>3. QED
      BY <3>1, <3>2
  <2>4. QueueInv' /\ PermitsConserved'
    BY <2>1 DEF QueueInv, PermitsConserved, Holding
  <2>5. QED
    BY <2>3, <2>4
<1>5. ASSUME NEW m \in Messages, NEW a \in Agents, FinishRun(m, a)
      PROVE  PermitInv'
  <2>1. /\ task' = task /\ permits' = permits /\ queue' = queue
        /\ phase[m][a] = "running"
    BY <1>5 DEF FinishRun, permitVars, Running
  <2>2. TypeOK' /\ TaskInv'
    <3>1. CASE waiters[a] = <<>>
      <4>1. /\ waiters' = waiters
            /\ phase' = [phase EXCEPT ![m][a] = "done"]
            /\ held' = [held EXCEPT ![a] = FALSE]
        BY <1>5, <3>1 DEF FinishRun
      <4>2. TypeOK'
        BY <2>1, <4>1 DEF TypeOK, JobStates
      <4>3. TaskInv'
        BY <2>1, <4>1 DEF TaskInv, TypeOK
      <4>4. QED
        BY <4>2, <4>3
    <3>2. CASE waiters[a] # <<>>
      <4> DEFINE n == Head(waiters[a])
      <4>1. /\ waiters' = [waiters EXCEPT ![a] = Tail(@)]
            /\ phase' = [phase EXCEPT ![m][a] = "done", ![n][a] = "running"]
            /\ held' = held
        BY <1>5, <3>2 DEF FinishRun
      <4>2. waiters[a] \in Seq(Messages)
        BY DEF TypeOK
      <4>3. n \in Messages /\ Tail(waiters[a]) \in Seq(Messages)
        BY <3>2, <4>2, TailFacts
      <4>4. phase[n][a] = "waiting"
        BY <3>2, <4>2, TailFacts DEF WaitInv
      <4>5. task[n] = "serving"
        BY <4>3, <4>4 DEF TaskInv
      <4> HIDE DEF n
      <4>6. waiters' \in [Agents -> Seq(Messages)]
        BY <4>1, <4>3 DEF TypeOK
      <4>7. phase' \in [Messages -> [Agents -> JobStates]]
        BY <4>1, <4>3 DEF TypeOK, JobStates
      <4>8. TaskInv'
        BY <2>1, <4>1, <4>3, <4>5 DEF TaskInv, TypeOK
      <4>9. QED
        BY <2>1, <4>1, <4>6, <4>7, <4>8 DEF TypeOK
    <3>3. QED
      BY <3>1, <3>2
  <2>3. QueueInv' /\ PermitsConserved'
    BY <2>1 DEF QueueInv, PermitsConserved, Holding
  <2>4. QED
    BY <2>2, <2>3
<1>6. ASSUME NEW m \in Messages, FinishMessage(m)
      PROVE  PermitInv'
  <2>1. /\ task[m] = "serving"
        /\ \A a \in Agents : phase[m][a] \in {"idle", "done"}
        /\ phase' = phase /\ held' = held /\ waiters' = waiters
    BY <1>6 DEF FinishMessage, lockVars
  <2>2. m \in Holding
    BY <2>1 DEF Holding
  <2>3. CASE queue = <<>>
    <3>1. /\ permits' = permits + 1 /\ task' = [task EXCEPT ![m] = "done"]
          /\ queue' = queue
      BY <1>6, <2>3 DEF FinishMessage
    <3>2. Holding' = Holding \ {m}
      BY <3>1 DEF Holding, TypeOK
    <3>3. Cardinality(Holding') = Cardinality(Holding) - 1
      BY <2>2, <3>2, HoldingFinite, FS_RemoveElement
    <3>4. Cardinality(Holding') \in Nat
      BY <3>2, HoldingFinite, FS_RemoveElement, FS_CardinalityType
    <3>5. PermitsConserved' /\ permits' \in 0..Permits
      BY <1>0, <3>1, <3>3, <3>4 DEF PermitsConserved
    <3>6. TypeOK'
      BY <2>1, <3>1, <3>5 DEF TypeOK, TaskStates
    <3>7. TaskInv'
      BY <2>1, <3>1 DEF TaskInv, TypeOK
    <3>8. QueueInv'
      BY <2>3, <3>1 DEF QueueInv
    <3>9. QED
      BY <3>5, <3>6, <3>7, <3>8
  <2>4. CASE queue # <<>>
    <3> DEFINE n == Head(queue)
    <3>1. /\ permits' = permits /\ queue' = Tail(queue)
          /\ task' = [task EXCEPT ![m] = "done", ![n] = "routing"]
      BY <1>6, <2>4 DEF FinishMessage
    <3>2. /\ queue \in Seq(Messages)
          /\ \A i, j \in DOMAIN queue : queue[i] = queue[j] => i = j
      BY DEF TypeOK, QueueInv
    <3>3. n \in Messages /\ Tail(queue) \in Seq(Messages)
      BY <2>4, <3>2, TailFacts
    <3>4. task[n] = "queued" /\ n # m
      BY <2>1, <2>4, <3>2, TailFacts DEF QueueInv
    <3>5. \A i \in DOMAIN Tail(queue) :
            /\ Tail(queue)[i] # n /\ task[Tail(queue)[i]] = "queued"
            /\ Tail(queue)[i] \in Messages
      <4>1. ASSUME NEW i \in DOMAIN Tail(queue)
            PROVE  /\ Tail(queue)[i] # n /\ task[Tail(queue)[i]] = "queued"
                   /\ Tail(queue)[i] \in Messages
        <5>1. i + 1 \in DOMAIN queue /\ Tail(queue)[i] = queue[i + 1]
          BY <2>4, <3>2, TailFacts
        <5>2. Tail(queue)[i] # n
          BY <2>4, <3>2, TailDistinct
        <5>3. queue[i + 1] \in Messages
          BY <3>2, <5>1
        <5>4. QED
          BY <5>1, <5>2, <5>3 DEF QueueInv
      <4>2. QED
        BY <4>1
    <3>6. \A i, j \in DOMAIN Tail(queue) : Tail(queue)[i] = Tail(queue)[j] => i = j
      BY <2>4, <3>2, TailDistinct
    <3> HIDE DEF n
    <3>7. n \notin Holding /\ Holding' = (Holding \ {m}) \cup {n}
      BY <2>1, <3>1, <3>3, <3>4 DEF Holding, TypeOK
    <3>8. Cardinality(Holding') = Cardinality(Holding)
      <4>1. /\ IsFiniteSet(Holding \ {m})
            /\ Cardinality(Holding \ {m}) = Cardinality(Holding) - 1
        BY <2>2, HoldingFinite, FS_RemoveElement
      <4>2. n \notin Holding \ {m}
        BY <3>7
      <4>3. Cardinality(Holding') = Cardinality(Holding \ {m}) + 1
        BY <3>7, <4>1, <4>2, FS_AddElement
      <4>4. QED
        BY <1>0, <4>1, <4>3
    <3>9. PermitsConserved'
      BY <3>1, <3>8 DEF PermitsConserved
    <3>10. TypeOK'
      BY <2>1, <3>1, <3>3 DEF TypeOK, TaskStates
    <3>11. TaskInv'
      BY <2>1, <3>1, <3>3, <3>4 DEF TaskInv, TypeOK
    <3>12. permits' > 0 => queue' = <<>>
      BY <2>4, <3>1 DEF QueueInv
    <3>13. \A i \in DOMAIN queue' : task'[queue'[i]] = "queued"
      BY <2>1, <3>1, <3>3, <3>5 DEF TypeOK
    <3>14. QueueInv'
      BY <3>1, <3>6, <3>12, <3>13 DEF QueueInv
    <3>15. QED
      BY <3>9, <3>10, <3>11, <3>14
  <2>5. QED
    BY <2>3, <2>4
<1>7. CASE UNCHANGED vars
  BY <1>7 DEF vars, TypeOK, TaskInv, QueueInv, PermitsConserved, Holding
<1>8. QED
  BY <1>1, <1>2, <1>3, <1>4, <1>5, <1>6, <1>7 DEF Next, Step

-----------------------------------------------------------------------------
(* The mutexes.                                                            *)

LEMMA LockInit == Init => LockInv
BY DEF Init, LockInv, RunInv, WaitInv, Running

\* A step that leaves the mutexes alone and sets no job to waiting or running.
LEMMA LockFrame ==
  ASSUME LockInv, held' = held, waiters' = waiters,
         \A m \in Messages, a \in Agents :
           /\ phase'[m][a] = "running" <=> phase[m][a] = "running"
           /\ phase'[m][a] = "waiting" <=> phase[m][a] = "waiting",
         waiters \in [Agents -> Seq(Messages)]
  PROVE  LockInv'
<1>1. RunInv'
  BY DEF LockInv, RunInv, Running
<1>2. \A a \in Agents : \A i \in DOMAIN waiters[a] : waiters[a][i] \in Messages
  OBVIOUS
<1>3. WaitInv'
  BY <1>2 DEF LockInv, WaitInv
<1>4. QED
  BY <1>1, <1>3 DEF LockInv

LEMMA AskLockKeeps ==
  ASSUME TypeOK, LockInv, NEW m \in Messages, NEW a \in Agents, AskLock(m, a)
  PROVE  LockInv'
<1>1. phase[m][a] = "asking"
  BY DEF AskLock
<1>2. CASE held[a]
  <2>1. /\ held' = held
        /\ waiters' = [waiters EXCEPT ![a] = Append(waiters[a], m)]
        /\ phase' = [phase EXCEPT ![m][a] = "waiting"]
    BY <1>2 DEF AskLock
  <2>2. RunInv'
    BY <1>1, <2>1 DEF LockInv, RunInv, Running, TypeOK
  <2>3. ASSUME NEW b \in Agents, b # a
        PROVE  /\ waiters'[b] = waiters[b] /\ held'[b] = held[b]
               /\ \A n \in Messages : phase'[n][b] = phase[n][b]
               /\ \A i \in DOMAIN waiters[b] : waiters[b][i] \in Messages
    BY <2>1, <2>3 DEF TypeOK
  <2>4. /\ waiters[a] \in Seq(Messages)
        /\ waiters'[a] = Append(waiters[a], m)
        /\ held'[a]
        /\ \A n \in Messages : phase'[n][a] = IF n = m THEN "waiting" ELSE phase[n][a]
    BY <1>2, <2>1 DEF TypeOK
  <2>5. \A i \in DOMAIN waiters[a] :
          /\ waiters[a][i] \in Messages
          /\ waiters[a][i] # m
          /\ phase[waiters[a][i]][a] = "waiting"
    BY <1>1, <2>4 DEF LockInv, WaitInv
  <2>6. \A i \in DOMAIN waiters'[a] :
          \/ i \in DOMAIN waiters[a] /\ waiters'[a][i] = waiters[a][i]
          \/ i = Len(waiters[a]) + 1 /\ waiters'[a][i] = m
    BY <2>4, AppendFacts
  <2>7. \A i \in DOMAIN waiters'[a] : phase'[waiters'[a][i]][a] = "waiting"
    BY <2>4, <2>5, <2>6
  <2>8. \A i, j \in DOMAIN waiters'[a] : waiters'[a][i] = waiters'[a][j] => i = j
    BY <2>5, <2>6 DEF LockInv, WaitInv
  <2>9. \A n \in Messages : phase'[n][a] = "waiting" =>
          \E i \in DOMAIN waiters'[a] : waiters'[a][i] = n
    <3>1. /\ \A i \in DOMAIN waiters[a] :
               i \in DOMAIN waiters'[a] /\ waiters'[a][i] = waiters[a][i]
          /\ Len(waiters[a]) + 1 \in DOMAIN waiters'[a]
          /\ waiters'[a][Len(waiters[a]) + 1] = m
      BY <2>4, AppendFacts
    <3>2. QED
      BY <2>4, <3>1 DEF LockInv, WaitInv
  <2>10. WaitInv'
    <3>1. ASSUME NEW b \in Agents
          PROVE  /\ waiters'[b] # <<>> => held'[b]
                 /\ \A i \in DOMAIN waiters'[b] : phase'[waiters'[b][i]][b] = "waiting"
                 /\ \A i, j \in DOMAIN waiters'[b] :
                      waiters'[b][i] = waiters'[b][j] => i = j
                 /\ \A n \in Messages : phase'[n][b] = "waiting" =>
                      \E i \in DOMAIN waiters'[b] : waiters'[b][i] = n
      <4>1. CASE b = a
        BY <4>1, <2>4, <2>7, <2>8, <2>9
      <4>2. CASE b # a
        BY <4>2, <2>3 DEF LockInv, WaitInv
      <4>3. QED
        BY <4>1, <4>2
    <3>2. QED
      BY <3>1 DEF WaitInv
  <2>11. QED
    BY <2>2, <2>10 DEF LockInv
<1>3. CASE ~held[a]
  <2>1. /\ held' = [held EXCEPT ![a] = TRUE]
        /\ waiters' = waiters
        /\ phase' = [phase EXCEPT ![m][a] = "running"]
    BY <1>3 DEF AskLock
  <2>2. \A n \in Messages : ~Running(n, a)
    BY <1>3 DEF LockInv, RunInv
  <2>3. RunInv'
    BY <2>1, <2>2 DEF LockInv, RunInv, Running, TypeOK
  <2>4. \A b \in Agents : \A i \in DOMAIN waiters[b] : waiters[b][i] \in Messages
    BY DEF TypeOK
  <2>5. \A b \in Agents, n \in Messages :
          phase'[n][b] = "waiting" <=> phase[n][b] = "waiting"
    BY <1>1, <2>1 DEF TypeOK
  <2>6. WaitInv'
    BY <2>1, <2>4, <2>5 DEF LockInv, WaitInv, TypeOK
  <2>7. QED
    BY <2>3, <2>6 DEF LockInv
<1>4. QED
  BY <1>2, <1>3

LEMMA FinishRunKeeps ==
  ASSUME TypeOK, LockInv, NEW m \in Messages, NEW a \in Agents, FinishRun(m, a)
  PROVE  LockInv'
<1>1. /\ Running(m, a) /\ phase[m][a] = "running"
      /\ held[a]
      /\ \A n \in Messages : Running(n, a) => n = m
  BY DEF FinishRun, Running, LockInv, RunInv
<1>2. CASE waiters[a] = <<>>
  <2>1. /\ held' = [held EXCEPT ![a] = FALSE]
        /\ waiters' = waiters
        /\ phase' = [phase EXCEPT ![m][a] = "done"]
    BY <1>2 DEF FinishRun
  <2>2. RunInv'
    BY <1>1, <2>1 DEF LockInv, RunInv, Running, TypeOK
  <2>3. \A b \in Agents : \A i \in DOMAIN waiters[b] : waiters[b][i] \in Messages
    BY DEF TypeOK
  <2>4. \A b \in Agents, n \in Messages :
          phase'[n][b] = "waiting" <=> phase[n][b] = "waiting"
    BY <1>1, <2>1 DEF TypeOK
  <2>5. WaitInv'
    BY <1>2, <2>1, <2>3, <2>4 DEF LockInv, WaitInv, TypeOK
  <2>6. QED
    BY <2>2, <2>5 DEF LockInv
<1>3. CASE waiters[a] # <<>>
  <2> DEFINE w == Head(waiters[a])
  <2>1. /\ held' = held
        /\ waiters' = [waiters EXCEPT ![a] = Tail(waiters[a])]
        /\ phase' = [phase EXCEPT ![m][a] = "done", ![w][a] = "running"]
    BY <1>3 DEF FinishRun
  <2>2. /\ waiters[a] \in Seq(Messages)
        /\ \A i, j \in DOMAIN waiters[a] : waiters[a][i] = waiters[a][j] => i = j
    BY DEF TypeOK, LockInv, WaitInv
  <2>3. /\ w \in Messages
        /\ 1 \in DOMAIN waiters[a] /\ w = waiters[a][1]
    BY <1>3, <2>2, TailFacts
  <2>4. phase[w][a] = "waiting" /\ w # m
    BY <1>1, <2>3 DEF LockInv, WaitInv
  <2>5. \A i \in DOMAIN Tail(waiters[a]) :
          /\ Tail(waiters[a])[i] # w
          /\ \E j \in DOMAIN waiters[a] : Tail(waiters[a])[i] = waiters[a][j]
    BY <1>3, <2>2, TailFacts, TailDistinct
  <2>6. \A i, j \in DOMAIN Tail(waiters[a]) :
          Tail(waiters[a])[i] = Tail(waiters[a])[j] => i = j
    BY <1>3, <2>2, TailDistinct
  <2>7. \A n \in Messages : phase[n][a] = "waiting" /\ n # w =>
          \E i \in DOMAIN Tail(waiters[a]) : Tail(waiters[a])[i] = n
    <3>1. ASSUME NEW n \in Messages, phase[n][a] = "waiting", n # w
          PROVE  \E i \in DOMAIN Tail(waiters[a]) : Tail(waiters[a])[i] = n
      <4>1. PICK j \in DOMAIN waiters[a] : waiters[a][j] = n
        BY <3>1 DEF LockInv, WaitInv
      <4>2. j # 1
        BY <2>3, <3>1, <4>1
      <4>3. j - 1 \in DOMAIN Tail(waiters[a]) /\ j \in Int
        BY <1>3, <2>2, <4>2, TailFacts
      <4>4. Tail(waiters[a])[j - 1] = waiters[a][(j - 1) + 1] /\ (j - 1) + 1 = j
        BY <1>3, <2>2, <4>3, TailFacts
      <4>5. QED
        BY <4>1, <4>3, <4>4
    <3>2. QED
      BY <3>1
  <2> HIDE DEF w
  <2>8. \A n \in Messages :
          phase'[n][a] = IF n = w THEN "running"
                         ELSE IF n = m THEN "done" ELSE phase[n][a]
    BY <2>1, <2>3, <2>4 DEF TypeOK
  <2>9. \A b \in Agents : b # a =>
          /\ waiters'[b] = waiters[b] /\ held'[b] = held[b]
          /\ \A n \in Messages : phase'[n][b] = phase[n][b]
          /\ \A i \in DOMAIN waiters[b] : waiters[b][i] \in Messages
    BY <2>1, <2>3 DEF TypeOK
  <2>10. waiters'[a] = Tail(waiters[a]) /\ held'[a]
    BY <1>1, <2>1 DEF TypeOK
  <2>11. RunInv'
    <3>1. ASSUME NEW b \in Agents, NEW n \in Messages, phase'[n][b] = "running"
          PROVE  held'[b] /\ \A k \in Messages : phase'[k][b] = "running" => k = n
      <4>1. CASE b = a
        <5>1. \A k \in Messages : phase'[k][a] = "running" => k = w
          BY <1>1, <2>8 DEF Running
        <5>2. QED
          BY <3>1, <4>1, <5>1, <2>10
      <4>2. CASE b # a
        BY <3>1, <4>2, <2>9 DEF LockInv, RunInv, Running
      <4>3. QED
        BY <4>1, <4>2
    <3>2. QED
      BY <3>1 DEF RunInv, Running
  <2>12. WaitInv'
    <3>1. \A i \in DOMAIN waiters'[a] : phase'[waiters'[a][i]][a] = "waiting"
      <4>1. \A j \in DOMAIN waiters[a] :
              phase[waiters[a][j]][a] = "waiting" /\ waiters[a][j] \in Messages
        BY <2>2 DEF LockInv, WaitInv
      <4>2. QED
        BY <1>1, <2>5, <2>8, <2>10, <4>1
    <3>2. \A n \in Messages : phase'[n][a] = "waiting" =>
            \E i \in DOMAIN waiters'[a] : waiters'[a][i] = n
      BY <2>7, <2>8, <2>10
    <3>3. ASSUME NEW b \in Agents
          PROVE  /\ waiters'[b] # <<>> => held'[b]
                 /\ \A i \in DOMAIN waiters'[b] : phase'[waiters'[b][i]][b] = "waiting"
                 /\ \A i, j \in DOMAIN waiters'[b] :
                      waiters'[b][i] = waiters'[b][j] => i = j
                 /\ \A n \in Messages : phase'[n][b] = "waiting" =>
                      \E i \in DOMAIN waiters'[b] : waiters'[b][i] = n
      <4>1. CASE b = a
        BY <4>1, <2>6, <2>10, <3>1, <3>2
      <4>2. CASE b # a
        BY <4>2, <2>9 DEF LockInv, WaitInv
      <4>3. QED
        BY <4>1, <4>2
    <3>4. QED
      BY <3>3 DEF WaitInv
  <2>13. QED
    BY <2>11, <2>12 DEF LockInv
<1>4. QED
  BY <1>2, <1>3

LEMMA LockStep == PermitInv /\ LockInv /\ [Next]_vars => LockInv'
<1> SUFFICES ASSUME PermitInv, LockInv, [Next]_vars
             PROVE  LockInv'
  OBVIOUS
<1>0. TypeOK /\ waiters \in [Agents -> Seq(Messages)]
  BY DEF PermitInv, TypeOK
<1>1. ASSUME NEW m \in Messages, Spawn(m) \/ AcquirePermit(m) \/ FinishMessage(m)
      PROVE  LockInv'
  <2>1. held' = held /\ waiters' = waiters /\ phase' = phase
    BY <1>1 DEF Spawn, AcquirePermit, FinishMessage, lockVars
  <2>2. QED
    BY <1>0, <2>1, LockFrame
<1>2. ASSUME NEW m \in Messages, RouteMessage(m)
      PROVE  LockInv'
  <2>1. \A a \in Agents : phase[m][a] \notin {"waiting", "running"}
    BY <1>2 DEF RouteMessage, PermitInv, TaskInv
  <2>2. \A n \in Messages, a \in Agents :
          /\ phase'[n][a] = "running" <=> phase[n][a] = "running"
          /\ phase'[n][a] = "waiting" <=> phase[n][a] = "waiting"
    BY <1>0, <1>2, <2>1 DEF RouteMessage, TypeOK
  <2>3. QED
    BY <1>0, <1>2, <2>2, LockFrame DEF RouteMessage
<1>3. ASSUME NEW m \in Messages, NEW a \in Agents, AskLock(m, a)
      PROVE  LockInv'
  BY <1>0, <1>3, AskLockKeeps
<1>4. ASSUME NEW m \in Messages, NEW a \in Agents, FinishRun(m, a)
      PROVE  LockInv'
  BY <1>0, <1>4, FinishRunKeeps
<1>5. CASE UNCHANGED vars
  BY <1>0, <1>5, LockFrame DEF vars
<1>6. QED
  BY <1>1, <1>2, <1>3, <1>4, <1>5 DEF Next, Step

-----------------------------------------------------------------------------
(* The theorems.                                                           *)

\* The two parts of the invariant hold together; everything below follows.
THEOREM InvariantCorrect == Spec => [](PermitInv /\ LockInv)
<1>1. Init => PermitInv /\ LockInv
  BY PermitInit, LockInit
<1>2. (PermitInv /\ LockInv) /\ [Next]_vars => (PermitInv /\ LockInv)'
  BY PermitStep, LockStep
<1>3. QED
  BY <1>1, <1>2, PTL DEF Spec

\* Tasks, queues and mutexes keep their types for any number of each.
THEOREM TypeCorrect == Spec => []TypeOK
<1>1. PermitInv => TypeOK
  BY DEF PermitInv
<1>2. QED
  BY <1>1, InvariantCorrect, PTL

\* The semaphore never loses or invents a permit: at most Permits messages are
\* in work at a time.
THEOREM PermitsConservedCorrect == Spec => []PermitsConserved
<1>1. PermitInv => PermitsConserved
  BY DEF PermitInv
<1>2. QED
  BY <1>1, InvariantCorrect, PTL

\* However messages interleave, an agent has one run on its workstation, and
\* the message of the run holds a permit.
THEOREM OneRunPerAgentCorrect == Spec => []OneRunPerAgent
<1>1. PermitInv /\ LockInv => OneRunPerAgent
  BY DEF PermitInv, LockInv, TaskInv, RunInv, Running, Holding, OneRunPerAgent
<1>2. QED
  BY <1>1, InvariantCorrect, PTL

\* No message queues while a permit is free and no job waits for a mutex that
\* is free.
THEOREM NoLostWakeupCorrect == Spec => []NoLostWakeup
<1>1. PermitInv /\ LockInv => NoLostWakeup
  <2> SUFFICES ASSUME PermitInv, LockInv PROVE NoLostWakeup
    OBVIOUS
  <2>1. permits > 0 => queue = <<>>
    BY DEF PermitInv, QueueInv
  <2>2. ASSUME NEW a \in Agents, ~held[a], NEW m \in Messages, phase[m][a] = "waiting"
        PROVE  FALSE
    <3>1. waiters[a] = <<>>
      BY <2>2 DEF LockInv, WaitInv
    <3>2. \E i \in DOMAIN waiters[a] : waiters[a][i] = m
      BY <2>2 DEF LockInv, WaitInv
    <3>3. QED
      BY <3>1, <3>2
  <2>3. QED
    BY <2>1, <2>2 DEF NoLostWakeup
<1>2. QED
  BY <1>1, InvariantCorrect, PTL
=============================================================================
