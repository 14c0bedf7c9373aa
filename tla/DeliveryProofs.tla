--------------------------- MODULE DeliveryProofs ---------------------------
(***************************************************************************)
(* Theorems about Delivery for a log, a limit and failures of any size:    *)
(* types, at-most-once dispatch, the implementation of Intake, no replay   *)
(* once the start mark was read, and no gap below the watermark as long as *)
(* nothing of Troubles happened.                                           *)
(***************************************************************************)
EXTENDS Delivery, TLAPS

-----------------------------------------------------------------------------

LEMMA SmallerFacts ==
  ASSUME NEW a \in Nat, NEW b \in Nat
  PROVE  /\ Smaller(a, b) \in Nat
         /\ Smaller(a, b) <= a
         /\ Smaller(a, b) <= b
         /\ Smaller(a, b) \in {a, b}
BY DEF Smaller

LEMMA LargerFacts ==
  ASSUME NEW a \in Nat, NEW b \in Nat
  PROVE  /\ Larger(a, b) \in Nat
         /\ a <= Larger(a, b)
         /\ b <= Larger(a, b)
         /\ Larger(a, b) \in {a, b}
BY DEF Larger

LEMMA EmptyStream == <<>> \in Seq(MessageIds)
OBVIOUS

\* Accepting a set of messages keeps the types of the process state.
LEMMA AcceptType ==
  ASSUME TypeOK, NEW ids \in SUBSET MessageIds, NEW top \in 0..MaxMessages,
         Accept(ids, top)
  PROVE  /\ watermark' \in 0..MaxMessages
         /\ seen' \subseteq MessageIds
         /\ missed' \subseteq MessageIds
         /\ dispatched' \in [MessageIds -> Nat]
<1>1. watermark' \in 0..MaxMessages
  <2>1. /\ watermark \in Nat /\ top \in Nat
        /\ watermark <= MaxMessages /\ top <= MaxMessages
        /\ watermark' = Larger(watermark, top)
    BY DeliveryAssumption DEF Accept, TypeOK
  <2>2. QED
    BY <2>1, DeliveryAssumption DEF Larger
<1>2. seen' \subseteq MessageIds /\ missed' \subseteq MessageIds
  BY DEF Accept, TypeOK
<1>3. dispatched' \in [MessageIds -> Nat]
  BY DEF Accept, Fresh, TypeOK
<1>4. QED
  BY <1>1, <1>2, <1>3

LEMMA NoteType ==
  ASSUME TypeOK, NEW kind \in {"order", "publish", "catchup", "limit"},
         NEW condition, Note(kind, condition)
  PROVE  trouble' \in Troubles
BY DEF Note, Troubles, TypeOK

\* The batch of catch_up lies between the watermark and the end of the log.
LEMMA BatchFacts ==
  ASSUME TypeOK
  PROVE  /\ NewestMissed \in 0..MaxMessages
         /\ NewestMissed <= stored
         /\ MissedBatch \subseteq MessageIds
         /\ \A id \in MissedBatch : watermark < id /\ id <= NewestMissed
<1>1. /\ stored \in Nat /\ watermark \in Nat /\ CatchUpLimit \in Nat
      /\ stored <= MaxMessages /\ MaxMessages \in Nat
  BY DeliveryAssumption DEF TypeOK
<1>2. /\ NewestMissed \in Nat
      /\ NewestMissed <= stored
  BY <1>1, SmallerFacts DEF NewestMissed
<1>3. QED
  BY <1>1, <1>2 DEF MissedBatch, MessageIds

-----------------------------------------------------------------------------
(* The state of the runtime, the stream and the log keeps its types.       *)

\* Every variable of the intake keeps its type, for any log and any limit.
THEOREM TypeCorrect == Spec => []TypeOK
<1>1. Init => TypeOK
  <2> SUFFICES ASSUME Init PROVE TypeOK
    OBVIOUS
  <2>1. /\ stored \in 0..MaxMessages /\ watermark \in 0..MaxMessages
        /\ startId \in 0..MaxMessages
    BY DeliveryAssumption DEF Init
  <2>2. owed \in [MessageIds -> 0..2] /\ dispatched \in [MessageIds -> Nat]
    BY DEF Init
  <2>3. QED
    BY <2>1, <2>2, EmptyStream DEF Init, TypeOK, Troubles
<1>2. TypeOK /\ [Next]_vars => TypeOK'
  <2> SUFFICES ASSUME TypeOK, [Next]_vars
               PROVE  TypeOK'
    OBVIOUS
  <2>0. MaxMessages \in Nat
    BY DeliveryAssumption
  <2>1. ASSUME NEW calls \in 1..2, StoreMessage(calls)
        PROVE  TypeOK'
    BY <2>0, <2>1 DEF StoreMessage, TypeOK, MessageIds, linkVars, stateVars
  <2>2. ASSUME NEW id \in MessageIds, Publish(id)
        PROVE  TypeOK'
    <3>1. owed' \in [MessageIds -> 0..2]
      BY <2>2 DEF Publish, TypeOK
    <3>2. stream' \in Seq(MessageIds) /\ missed' \subseteq MessageIds
      BY <2>2 DEF Publish, TypeOK
    <3>3. trouble' \in Troubles
      BY <2>2, NoteType DEF Publish
    <3>4. QED
      BY <2>2, <3>1, <3>2, <3>3 DEF Publish, TypeOK, stateVars
  <2>3. ASSUME NEW id \in MessageIds, FailPublish(id)
        PROVE  TypeOK'
    <3>1. trouble' \in Troubles
      BY <2>3, NoteType DEF FailPublish
    <3>2. QED
      BY <2>3, <3>1 DEF FailPublish, TypeOK, linkVars, stateVars
  <2>4. CASE ToggleBinding
    BY <2>4 DEF ToggleBinding, TypeOK, logVars, linkVars, stateVars
  <2>5. CASE DropLink
    BY <2>5 DEF DropLink, TypeOK, logVars, stateVars
  <2>6. CASE StartProcess
    BY <2>0, <2>6 DEF StartProcess, MaxMessageId, TypeOK, logVars, linkVars, Troubles
  <2>7. CASE Connect
    BY <2>7, EmptyStream DEF Connect, TypeOK, logVars, stateVars
  <2>8. CASE CatchUp
    <3>1. /\ watermark' \in 0..MaxMessages
          /\ seen' \subseteq MessageIds
          /\ missed' \subseteq MessageIds
          /\ dispatched' \in [MessageIds -> Nat]
      BY <2>8, BatchFacts, AcceptType DEF CatchUp
    <3>2. trouble' \in Troubles
      BY <2>8, NoteType DEF CatchUp
    <3>3. QED
      BY <2>8, <3>1, <3>2 DEF CatchUp, TypeOK, logVars, linkVars
  <2>9. CASE FailCatchUp
    <3>1. trouble' \in Troubles
      BY <2>9, NoteType DEF FailCatchUp
    <3>2. QED
      BY <2>9, <3>1 DEF FailCatchUp, TypeOK, logVars, linkVars, stateVars
  <2>10. CASE ReadFrame
    <3>1. Head(stream) \in MessageIds /\ Tail(stream) \in Seq(MessageIds)
      BY <2>10 DEF ReadFrame, TypeOK
    <3>2. Head(stream) \in 0..MaxMessages
      BY <2>0, <3>1 DEF MessageIds
    <3>3. /\ watermark' \in 0..MaxMessages
          /\ seen' \subseteq MessageIds
          /\ missed' \subseteq MessageIds
          /\ dispatched' \in [MessageIds -> Nat]
      BY <2>10, <3>1, <3>2, AcceptType DEF ReadFrame
    <3>4. QED
      BY <2>10, <3>1, <3>3 DEF ReadFrame, TypeOK, logVars
  <2>11. CASE EndSession
    BY <2>11, EmptyStream DEF EndSession, TypeOK, logVars, stateVars
  <2>12. CASE Crash
    <3>1. linked' \in BOOLEAN /\ bound' \in BOOLEAN
      BY <2>12 DEF Crash, Forget, TypeOK
    <3>2. dispatched' \in [MessageIds -> Nat] /\ missed' \subseteq MessageIds
      BY <2>12 DEF Crash, Forget
    <3>3. QED
      BY <2>0, <2>12, <3>1, <3>2, EmptyStream DEF Crash, Forget, TypeOK, logVars, Troubles
  <2>13. CASE UNCHANGED vars
    BY <2>13 DEF TypeOK, vars
  <2>14. QED
    BY <2>1, <2>2, <2>3, <2>4, <2>5, <2>6, <2>7, <2>8, <2>9, <2>10, <2>11,
       <2>12, <2>13 DEF Next, Server, Process
<1>3. QED
  BY <1>1, <1>2, PTL DEF Spec

-----------------------------------------------------------------------------
(* At most one dispatch per message and process.                           *)

\* Accepting stored messages counts each new one once.
LEMMA AcceptCount ==
  ASSUME TypeOK, CountInv, NEW ids \in SUBSET MessageIds,
         NEW top \in 0..MaxMessages, Accept(ids, top),
         top <= stored, \A id \in ids : id <= stored
  PROVE  /\ \A id \in MessageIds : dispatched'[id] = IF id \in seen' THEN 1 ELSE 0
         /\ \A id \in seen' : id <= stored
         /\ watermark' <= stored
<1>1. \A id \in MessageIds : dispatched'[id] = IF id \in seen' THEN 1 ELSE 0
  <2> SUFFICES ASSUME NEW id \in MessageIds
               PROVE  dispatched'[id] = IF id \in seen' THEN 1 ELSE 0
    OBVIOUS
  <2>1. /\ dispatched'[id] = IF id \in ids \ seen THEN dispatched[id] + 1
                                                  ELSE dispatched[id]
        /\ seen' = seen \cup ids
    BY DEF Accept, Fresh
  <2>2. dispatched[id] = IF id \in seen THEN 1 ELSE 0
    BY DEF CountInv
  <2>3. QED
    BY <2>1, <2>2
<1>2. \A id \in seen' : id <= stored
  BY DEF Accept, CountInv
<1>3. watermark' <= stored
  BY DEF Accept, CountInv, Larger
<1>4. QED
  BY <1>1, <1>2, <1>3

LEMMA HeadTailFacts ==
  ASSUME TypeOK, stream # <<>>
  PROVE  /\ Head(stream) = stream[1]
         /\ Head(stream) \in MessageIds
         /\ Len(stream) \in Nat /\ Len(stream) >= 1
         /\ Len(Tail(stream)) = Len(stream) - 1
         /\ \A k \in 1..Len(Tail(stream)) :
               Tail(stream)[k] = stream[k + 1] /\ k + 1 \in 1..Len(stream)
BY DEF TypeOK

LEMMA AppendFacts ==
  ASSUME TypeOK, NEW id \in MessageIds
  PROVE  /\ Len(Append(stream, id)) = Len(stream) + 1
         /\ Len(stream) \in Nat
         /\ \A k \in 1..Len(stream) : Append(stream, id)[k] = stream[k]
         /\ Append(stream, id)[Len(stream) + 1] = id
BY DEF TypeOK

\* The strengthening of DispatchedOnce: dispatched exactly when seen, and only
\* what the log holds.
THEOREM CountCorrect == Spec => []CountInv
<1>1. Init => CountInv
  BY DeliveryAssumption DEF Init, CountInv, MessageIds
<1>2. TypeOK /\ TypeOK' /\ CountInv /\ [Next]_vars => CountInv'
  <2> SUFFICES ASSUME TypeOK, TypeOK', CountInv, [Next]_vars
               PROVE  CountInv'
    OBVIOUS
  <2>0. /\ MaxMessages \in Nat /\ stored \in Nat /\ watermark \in Nat
        /\ startId \in Nat /\ \A id \in MessageIds : id \in Nat
    BY DeliveryAssumption DEF TypeOK, MessageIds
  <2>1. ASSUME NEW calls \in 1..2, StoreMessage(calls)
        PROVE  CountInv'
    <3>1. \A k \in 1..Len(stream) : stream[k] \in Nat
      BY <2>0 DEF TypeOK
    <3>2. /\ stored' = stored + 1 /\ stream' = stream /\ seen' = seen
          /\ dispatched' = dispatched /\ watermark' = watermark
          /\ startId' = startId /\ owed' = [owed EXCEPT ![stored + 1] = calls]
      BY <2>1 DEF StoreMessage, linkVars, stateVars
    <3>3. \A id \in MessageIds : owed'[id] > 0 => id <= stored'
      <4> SUFFICES ASSUME NEW id \in MessageIds, owed'[id] > 0, id # stored + 1
                   PROVE  id <= stored'
        BY <2>0, <3>2
      <4>1. owed'[id] = owed[id]
        BY <3>2 DEF TypeOK
      <4>2. QED
        BY <2>0, <3>2, <4>1 DEF CountInv
    <3>4. \A id \in seen : id \in Nat
      BY <2>0 DEF TypeOK
    <3>5. QED
      BY <2>0, <3>1, <3>2, <3>3, <3>4 DEF CountInv
  <2>2. ASSUME NEW id \in MessageIds, Publish(id)
        PROVE  CountInv'
    <3>1. id <= stored
      BY <2>2 DEF Publish, CountInv
    <3>2. \A k \in 1..Len(stream') : stream'[k] <= stored
      BY <2>2, <3>1, AppendFacts DEF Publish, CountInv
    <3>3. \A i \in MessageIds : owed'[i] > 0 => i <= stored
      BY <2>2, <3>1 DEF Publish, CountInv, TypeOK
    <3>4. QED
      BY <2>2, <3>2, <3>3 DEF Publish, CountInv, stateVars
  <2>3. ASSUME NEW id \in MessageIds, FailPublish(id)
        PROVE  CountInv'
    <3>1. id <= stored
      BY <2>3 DEF FailPublish, CountInv
    <3>2. \A i \in MessageIds : owed'[i] > 0 => i <= stored
      BY <2>3, <3>1 DEF FailPublish, CountInv, TypeOK
    <3>3. QED
      BY <2>3, <3>2 DEF FailPublish, CountInv, stateVars, linkVars
  <2>4. CASE ToggleBinding
    BY <2>4 DEF ToggleBinding, CountInv, logVars, linkVars, stateVars
  <2>5. CASE DropLink
    BY <2>5 DEF DropLink, CountInv, logVars, stateVars
  <2>6. CASE StartProcess
    BY <2>0, <2>6 DEF StartProcess, MaxMessageId, CountInv, logVars, linkVars
  <2>7. CASE Connect
    BY <2>7 DEF Connect, CountInv, logVars, stateVars
  <2>8. CASE CatchUp
    <3>1. \A id \in MissedBatch : id <= stored
      BY <2>0, BatchFacts DEF MessageIds
    <3>2. /\ \A id \in MessageIds : dispatched'[id] = IF id \in seen' THEN 1 ELSE 0
          /\ \A id \in seen' : id <= stored
          /\ watermark' <= stored
      BY <2>8, <3>1, BatchFacts, AcceptCount DEF CatchUp
    <3>3. QED
      BY <2>8, <3>2 DEF CatchUp, CountInv, logVars, linkVars
  <2>9. CASE FailCatchUp
    BY <2>9 DEF FailCatchUp, CountInv, logVars, linkVars, stateVars
  <2>10. CASE ReadFrame
    <3>1. Head(stream) \in MessageIds /\ Head(stream) <= stored
      BY <2>10, HeadTailFacts DEF ReadFrame, CountInv
    <3>2. Head(stream) \in 0..MaxMessages /\ {Head(stream)} \in SUBSET MessageIds
      BY <2>0, <3>1 DEF MessageIds
    <3>3. /\ \A id \in MessageIds : dispatched'[id] = IF id \in seen' THEN 1 ELSE 0
          /\ \A id \in seen' : id <= stored
          /\ watermark' <= stored
      BY <2>10, <3>1, <3>2, AcceptCount DEF ReadFrame
    <3>4. \A k \in 1..Len(stream') : stream'[k] <= stored
      BY <2>10, HeadTailFacts DEF ReadFrame, CountInv
    <3>5. QED
      BY <2>10, <3>3, <3>4 DEF ReadFrame, CountInv, logVars
  <2>11. CASE EndSession
    BY <2>11 DEF EndSession, CountInv, logVars, stateVars
  <2>12. CASE Crash
    BY <2>0, <2>12 DEF Crash, Forget, CountInv, logVars
  <2>13. CASE UNCHANGED vars
    BY <2>13 DEF CountInv, vars
  <2>14. QED
    BY <2>1, <2>2, <2>3, <2>4, <2>5, <2>6, <2>7, <2>8, <2>9, <2>10, <2>11,
       <2>12, <2>13 DEF Next, Server, Process
<1>3. QED
  BY <1>1, <1>2, TypeCorrect, PTL DEF Spec

\* A message is dispatched at most once in the life of a process, whatever is
\* published again, lost, reordered or caught up.
THEOREM DispatchedOnceCorrect == Spec => []DispatchedOnce
<1>1. CountInv => DispatchedOnce
  BY DEF CountInv, DispatchedOnce
<1>2. QED
  BY <1>1, CountCorrect, PTL

-----------------------------------------------------------------------------
(* The runtime implements the abstract intake.                             *)

\* Accepting is handing over the accepted messages that were not seen before.
LEMMA AcceptHands ==
  ASSUME TypeOK, CountInv, NEW ids \in SUBSET MessageIds,
         NEW top \in 0..MaxMessages, Accept(ids, top),
         \A id \in ids : id <= stored, UNCHANGED stored
  PROVE  \E S \in SUBSET Abstract!MessageIds : Abstract!Hand(S)
<1>1. ids \ seen \in SUBSET Abstract!MessageIds
  BY DEF Abstract!MessageIds, MessageIds
<1>2. \A id \in ids \ seen : id <= stored /\ dispatched[id] = 0
  BY DEF CountInv
<1>3. dispatched' = [id \in Abstract!MessageIds |->
                       IF id \in ids \ seen THEN dispatched[id] + 1
                                            ELSE dispatched[id]]
  BY DEF Accept, Fresh, Abstract!MessageIds, MessageIds
<1>4. Abstract!Hand(ids \ seen)
  BY <1>2, <1>3 DEF Abstract!Hand
<1>5. QED
  BY <1>1, <1>4

\* Every behaviour of the runtime is one of the abstract intake: messages are
\* handed over after they are stored and at most once per process.
THEOREM DeliveryImplementsIntake == Spec => ImplementsIntake
<1>1. Init => Abstract!Init
  BY DEF Init, Abstract!Init, Abstract!MessageIds, MessageIds
<1>2. TypeOK /\ CountInv /\ [Next]_vars => [Abstract!Next]_(Abstract!intakeVars)
  <2> SUFFICES ASSUME TypeOK, CountInv, Next
               PROVE  \/ Abstract!StoreNext
                      \/ \E S \in SUBSET Abstract!MessageIds : Abstract!Hand(S)
                      \/ Abstract!Forget
                      \/ UNCHANGED <<stored, dispatched>>
    BY DEF Abstract!Next, Abstract!intakeVars, vars
  <2>0. /\ MaxMessages \in Nat /\ \A id \in MessageIds : id \in Nat
    BY DeliveryAssumption DEF MessageIds
  <2>1. ASSUME NEW calls \in 1..2, StoreMessage(calls)
        PROVE  Abstract!StoreNext
    BY <2>1 DEF StoreMessage, Abstract!StoreNext, stateVars
  <2>2. ASSUME NEW id \in MessageIds, Publish(id) \/ FailPublish(id)
        PROVE  UNCHANGED <<stored, dispatched>>
    BY <2>2 DEF Publish, FailPublish, stateVars
  <2>3. CASE ToggleBinding \/ DropLink
    BY <2>3 DEF ToggleBinding, DropLink, logVars, stateVars
  <2>4. CASE StartProcess
    BY <2>4 DEF StartProcess, logVars
  <2>5. CASE CatchUp
    <3>1. \A id \in MissedBatch : id <= stored
      BY <2>0, BatchFacts DEF TypeOK, MessageIds
    <3>2. /\ Accept(MissedBatch, NewestMissed) /\ UNCHANGED stored
      BY <2>5 DEF CatchUp, logVars
    <3>3. QED
      BY <3>1, <3>2, BatchFacts, AcceptHands
  <2>6. CASE ReadFrame
    <3>1. Head(stream) \in MessageIds /\ Head(stream) <= stored
      BY <2>6, HeadTailFacts DEF ReadFrame, CountInv
    <3>2. Head(stream) \in 0..MaxMessages /\ {Head(stream)} \in SUBSET MessageIds
      BY <2>0, <3>1 DEF MessageIds
    <3>3. Accept({Head(stream)}, Head(stream)) /\ UNCHANGED stored
      BY <2>6 DEF ReadFrame, logVars
    <3>4. QED
      BY <3>1, <3>2, <3>3, AcceptHands
  <2>7. CASE Connect \/ FailCatchUp \/ EndSession
    BY <2>7 DEF Connect, FailCatchUp, EndSession, logVars, stateVars
  <2>8. CASE Crash
    BY <2>8 DEF Crash, Forget, logVars, Abstract!Forget, Abstract!MessageIds, MessageIds
  <2>9. QED
    BY <2>1, <2>2, <2>3, <2>4, <2>5, <2>6, <2>7, <2>8 DEF Next, Server, Process
<1>3. QED
  BY <1>1, <1>2, TypeCorrect, CountCorrect, PTL DEF Spec, ImplementsIntake, Abstract!Spec

-----------------------------------------------------------------------------
(* What was there before the process started is not caught up.             *)

\* The watermark of a running process is at or above its start mark, once the
\* start mark was read.
LEMMA WatermarkCorrect == Spec => []WatermarkInv
<1>1. Init => WatermarkInv
  BY DEF Init, WatermarkInv, Up
<1>2. TypeOK /\ WatermarkInv /\ [Next]_vars => WatermarkInv'
  <2> SUFFICES ASSUME TypeOK, WatermarkInv, [Next]_vars
               PROVE  WatermarkInv'
    OBVIOUS
  <2>0. /\ MaxMessages \in Nat /\ stored \in Nat /\ watermark \in Nat
        /\ startId \in Nat
    BY DeliveryAssumption DEF TypeOK
  <2>1. CASE StartProcess
    BY <2>0, <2>1 DEF StartProcess, MaxMessageId, WatermarkInv
  <2>2. ASSUME UNCHANGED startId, Up' => Up, watermark' >= watermark,
               watermark' \in Nat, trouble = "start" => trouble' = "start"
        PROVE  WatermarkInv'
    BY <2>0, <2>2 DEF WatermarkInv
  <2>3. CASE CatchUp
    <3>1. NewestMissed \in Nat
      BY <2>0, BatchFacts
    <3>2. watermark' \in Nat /\ watermark' >= watermark
      BY <2>0, <2>3, <3>1, LargerFacts DEF CatchUp, Accept
    <3>3. QED
      BY <2>2, <2>3, <3>2 DEF CatchUp, Note, Up
  <2>4. CASE ReadFrame
    <3>1. Head(stream) \in Nat
      BY <2>4, HeadTailFacts DEF ReadFrame, MessageIds
    <3>2. watermark' \in Nat /\ watermark' >= watermark
      BY <2>0, <2>4, <3>1, LargerFacts DEF ReadFrame, Accept
    <3>3. QED
      BY <2>2, <2>4, <3>2 DEF ReadFrame, Up
  <2>5. CASE Server \/ Connect \/ FailCatchUp \/ EndSession \/ UNCHANGED vars
    <3>1. /\ UNCHANGED <<watermark, startId>> /\ (Up' => Up)
          /\ trouble = "start" => trouble' = "start"
      BY <2>5 DEF Server, StoreMessage, Publish, FailPublish, ToggleBinding, DropLink,
                  Connect, FailCatchUp, EndSession, RefreshTick,
                  StreamEnds, Note, vars, stateVars, Up
    <3>2. QED
      BY <2>0, <2>2, <3>1
  <2>6. CASE Crash
    BY <2>6 DEF Crash, WatermarkInv, Up
  <2>7. QED
    BY <2>1, <2>3, <2>4, <2>5, <2>6 DEF Next, Process
<1>3. QED
  BY <1>1, <1>2, TypeCorrect, PTL DEF Spec

\* Once the start mark was read, catch_up never dispatches a message that was
\* in the log before the process started.
THEOREM NoReplayCorrect == Spec => NoReplay
<1>1. TypeOK /\ WatermarkInv /\ [Next]_vars =>
        [pc = "catching" /\ trouble # "start" => TakesNoOld]_vars
  <2> SUFFICES ASSUME TypeOK, WatermarkInv, Next, pc = "catching",
                      trouble # "start", NEW id \in 1..startId
               PROVE  dispatched'[id] <= dispatched[id]
    BY DEF TakesNoOld
  <2>0. /\ MaxMessages \in Nat /\ watermark \in Nat /\ startId \in 0..MaxMessages
        /\ id \in MessageIds /\ id <= watermark
    BY DeliveryAssumption DEF TypeOK, WatermarkInv, Up, MessageIds
  <2>1. dispatched[id] \in Nat
    BY <2>0 DEF TypeOK
  <2>2. CASE CatchUp
    <3>1. id \notin MissedBatch
      BY <2>0 DEF MissedBatch
    <3>2. dispatched'[id] = dispatched[id]
      BY <2>0, <2>2, <3>1 DEF CatchUp, Accept, Fresh
    <3>3. QED
      BY <2>1, <3>2
  <2>3. CASE Crash
    BY <2>0, <2>1, <2>3 DEF Crash, Forget
  <2>4. CASE ~CatchUp /\ ~Crash
    <3>1. UNCHANGED dispatched
      BY <2>4 DEF Next, Server, Process, StoreMessage, Publish, FailPublish,
                  ToggleBinding, DropLink, StartProcess, Connect, FailCatchUp,
                  ReadFrame, EndSession, stateVars
    <3>2. QED
      BY <2>1, <3>1
  <2>5. QED
    BY <2>2, <2>3, <2>4
<1>2. QED
  BY <1>1, TypeCorrect, WatermarkCorrect, PTL DEF Spec, NoReplay

-----------------------------------------------------------------------------
(* The watermark stands for a prefix of the log.                           *)

\* Without trouble a catch-up reaches the end of the log.
LEMMA CatchUpReachesEnd ==
  ASSUME TypeOK, CountInv, Up, Note("limit", NewestMissed < stored), trouble' = "none"
  PROVE  NewestMissed = stored
BY BatchFacts DEF Note, TypeOK

\* A step that brings no trouble keeps the prefix; Prefix carries the order of
\* the frames that makes this inductive.
LEMMA PrefixStep ==
  ASSUME TypeOK, TypeOK', CountInv, CountInv', Prefix, Next, ~StartProcess, ~Crash,
         trouble = "none", trouble' = "none"
  PROVE  Prefix'
<1>0. /\ MaxMessages \in Nat /\ stored \in Nat /\ watermark \in Nat
      /\ startId \in Nat /\ \A id \in MessageIds : id \in Nat
      /\ Len(stream) \in Nat
      /\ \A k \in 1..Len(stream) : stream[k] \in Nat
  <2>1. /\ MaxMessages \in Nat /\ stored \in Nat /\ watermark \in Nat
        /\ startId \in Nat /\ \A id \in MessageIds : id \in Nat
    BY DeliveryAssumption DEF TypeOK, MessageIds
  <2>2. /\ Len(stream) \in Nat
        /\ \A k \in 1..Len(stream) : stream[k] \in MessageIds
    BY DEF TypeOK
  <2>3. QED
    BY <2>1, <2>2
<1>1. ASSUME NEW calls \in 1..2, StoreMessage(calls)
      PROVE  Prefix'
  <2>1. /\ stored' = stored + 1 /\ owed' = [owed EXCEPT ![stored + 1] = calls]
        /\ stored < MaxMessages
        /\ UNCHANGED <<linked, stream, pc, watermark, seen, startId>>
    BY <1>1 DEF StoreMessage, linkVars, stateVars
  <2>2. pc = "reading" /\ linked =>
          \A id \in MessageIds : startId < id /\ id <= stored' =>
            id \in seen \/ InStream(id) \/ owed'[id] > 0
    <3> SUFFICES ASSUME pc = "reading", linked, NEW id \in MessageIds,
                        startId < id, id <= stored'
                 PROVE  id \in seen \/ InStream(id) \/ owed'[id] > 0
      OBVIOUS
    <3>1. CASE id = stored + 1
      BY <1>0, <2>1, <3>1 DEF TypeOK, MessageIds
    <3>2. CASE id # stored + 1
      <4>1. id <= stored /\ owed'[id] = owed[id]
        BY <1>0, <2>1, <3>2 DEF TypeOK
      <4>2. QED
        BY <4>1 DEF Prefix
    <3>3. QED
      BY <3>1, <3>2
  <2>3. QED
    BY <2>1, <2>2 DEF Prefix, Unskipped, InStream
<1>2. ASSUME NEW id \in MessageIds, Publish(id)
      PROVE  Prefix'
  <2>1. /\ UNCHANGED <<stored, linked, pc, watermark, seen, startId>>
        /\ owed' = [owed EXCEPT ![id] = @ - 1]
        /\ stream' = IF linked THEN Append(stream, id) ELSE stream
        /\ id <= stored
    BY <1>2 DEF Publish, stateVars, CountInv
  <2>2. pc = "reading" =>
          \A older \in MessageIds : startId < older /\ older < id => owed[older] = 0
    <3> SUFFICES ASSUME pc = "reading", NEW older \in MessageIds,
                        startId < older, older < id
                 PROVE  owed[older] = 0
      OBVIOUS
    <3>1. ~Overtakes(id)
      BY <1>2 DEF Publish, Note, Up
    <3>2. older \in (startId + 1)..(id - 1)
      BY <1>0
    <3>3. ~(owed[older] > 0)
      BY <3>1, <3>2 DEF Overtakes
    <3>4. owed[older] \in 0..2
      BY DEF TypeOK
    <3>5. QED
      BY <3>3, <3>4
  <2>3. CASE ~(pc = "reading" /\ linked)
    <3>1. pc = "reading" => stream' = stream
      BY <2>1, <2>3
    <3>2. QED
      BY <2>1, <2>3, <3>1 DEF Prefix, Unskipped
  <2>4. CASE pc = "reading" /\ linked
    <3>1. stream' = Append(stream, id)
      BY <2>1, <2>4
    <3>2. /\ Len(stream') = Len(stream) + 1
          /\ \A k \in 1..Len(stream) : stream'[k] = stream[k]
          /\ stream'[Len(stream) + 1] = id
      BY <3>1, AppendFacts
    <3>3. \A i \in MessageIds : startId < i /\ i <= stored =>
            i \in seen \/ (\E j \in 1..Len(stream) : stream'[j] = i) \/ owed[i] > 0
      BY <2>4, <3>2 DEF Prefix, InStream
    <3>4. ASSUME NEW k \in 1..Len(stream'), NEW i \in MessageIds,
                 startId < i, i < stream'[k]
          PROVE  i \in seen \/ \E j \in 1..(k - 1) : stream'[j] = i
      <4>1. CASE k \in 1..Len(stream)
        <5>1. i \in seen \/ \E j \in 1..(k - 1) : stream[j] = i
          BY <2>4, <3>2, <3>4, <4>1 DEF Prefix
        <5>2. \A j \in 1..(k - 1) : j \in 1..Len(stream)
          BY <1>0, <4>1
        <5>3. QED
          BY <3>2, <5>1, <5>2
      <4>2. CASE k = Len(stream) + 1
        <5>1. i < id /\ i <= stored /\ owed[i] = 0
          BY <1>0, <2>1, <2>2, <2>4, <3>2, <3>4, <4>2
        <5>2. QED
          BY <1>0, <3>3, <3>4, <4>2, <5>1
      <4>3. QED
        BY <1>0, <3>2, <4>1, <4>2
    <3>5. ASSUME NEW i \in MessageIds, startId < i, i <= stored
          PROVE  i \in seen \/ (\E j \in 1..Len(stream') : stream'[j] = i) \/ owed'[i] > 0
      <4>1. CASE i = id
        BY <1>0, <3>2, <4>1
      <4>2. CASE i # id
        <5>1. owed'[i] = owed[i]
          BY <2>1, <4>2 DEF TypeOK
        <5>2. \A j \in 1..Len(stream) : j \in 1..Len(stream')
          BY <1>0, <3>2
        <5>3. QED
          BY <3>3, <3>5, <5>1, <5>2
      <4>3. QED
        BY <4>1, <4>2
    <3>6. Unskipped'
      BY <2>1 DEF Prefix, Unskipped
    <3>7. QED
      BY <2>1, <3>4, <3>5, <3>6 DEF Prefix, InStream
  <2>5. QED
    BY <2>3, <2>4
<1>3. ASSUME NEW id \in MessageIds, FailPublish(id)
      PROVE  Prefix'
  <2>1. /\ UNCHANGED <<stored, linked, pc, watermark, seen, startId, stream>>
        /\ owed' = [owed EXCEPT ![id] = @ - 1]
        /\ pc = "reading" => ~(startId < id)
    BY <1>0, <1>3 DEF FailPublish, Note, Up, linkVars, stateVars
  <2>2. \A i \in MessageIds : i # id => owed'[i] = owed[i]
    BY <2>1 DEF TypeOK
  <2>3. QED
    BY <2>1, <2>2 DEF Prefix, Unskipped, InStream
<1>4. CASE ToggleBinding
  BY <1>4 DEF ToggleBinding, Prefix, Unskipped, InStream, logVars, linkVars, stateVars
<1>5. CASE DropLink
  BY <1>5 DEF DropLink, Prefix, Unskipped, logVars, stateVars
<1>6. CASE Connect
  BY <1>6 DEF Connect, Prefix, Unskipped, stateVars
<1>7. CASE CatchUp
  <2>1. /\ UNCHANGED <<stored, owed, linked, stream, startId>>
        /\ seen' = seen \cup MissedBatch
        /\ watermark' = Larger(watermark, stored)
        /\ MissedBatch = (watermark + 1)..stored
    <3>1. NewestMissed = stored
      BY <1>7, CatchUpReachesEnd DEF CatchUp, Up
    <3>2. QED
      BY <1>7, <3>1 DEF CatchUp, Accept, logVars, linkVars, MissedBatch
  <2>2. watermark' <= stored
    BY <2>1 DEF CountInv
  <2>3. \A id \in MessageIds : startId < id /\ id <= stored => id \in seen'
    <3> SUFFICES ASSUME NEW id \in MessageIds, startId < id, id <= stored,
                        id \notin MissedBatch
                 PROVE  id \in seen
      BY <2>1
    <3>1. id <= watermark
      BY <1>0, <2>1
    <3>2. QED
      BY <3>1 DEF Prefix, Unskipped
  <2>4. Unskipped'
    <3>1. \A id \in MessageIds : id <= watermark' => id <= stored
      <4>1. watermark' \in Nat
        BY <1>0, <2>1 DEF Larger
      <4>2. QED
        BY <1>0, <2>2, <4>1
    <3>2. QED
      BY <2>1, <2>3, <3>1 DEF Unskipped
  <2>5. \A k \in 1..Len(stream), id \in MessageIds : id < stream[k] => id <= stored
    BY <1>0 DEF CountInv
  <2>6. QED
    BY <2>1, <2>3, <2>4, <2>5 DEF Prefix
<1>8. CASE FailCatchUp
  <2>1. stored <= watermark
    BY <1>0, <1>8 DEF FailCatchUp, Note, Up
  <2>2. UNCHANGED <<stored, owed, linked, stream, seen, startId, watermark>>
    BY <1>8 DEF FailCatchUp, logVars, linkVars, stateVars
  <2>3. \A id \in MessageIds : startId < id /\ id <= stored => id \in seen
    BY <1>0, <2>1 DEF Prefix, Unskipped
  <2>4. \A k \in 1..Len(stream), id \in MessageIds : id < stream[k] => id <= stored
    BY <1>0 DEF CountInv
  <2>5. QED
    BY <2>2, <2>3, <2>4 DEF Prefix, Unskipped
<1>9. CASE ReadFrame
  <2> DEFINE top == Head(stream)
  <2>1. /\ UNCHANGED <<stored, owed, linked, startId, pc>> /\ pc = "reading"
        /\ seen' = seen \cup {top} /\ watermark' = Larger(watermark, top)
        /\ stream' = Tail(stream) /\ stream # <<>>
    BY <1>9 DEF ReadFrame, Accept, logVars
  <2>2. /\ top = stream[1] /\ top \in MessageIds /\ top \in Nat
        /\ Len(stream) >= 1 /\ Len(stream') = Len(stream) - 1
        /\ \A k \in 1..Len(stream') : stream'[k] = stream[k + 1] /\ k + 1 \in 1..Len(stream)
    BY <1>0, <2>1, HeadTailFacts
  <2>3. \A id \in MessageIds : startId < id /\ id < top => id \in seen
    <3> SUFFICES ASSUME NEW id \in MessageIds, startId < id, id < top
                 PROVE  id \in seen
      OBVIOUS
    <3>1. id \in seen \/ \E j \in 1..(1 - 1) : stream[j] = id
      BY <1>0, <2>1, <2>2 DEF Prefix
    <3>2. QED
      BY <3>1
  <2>4. Unskipped'
    <3> SUFFICES ASSUME NEW id \in MessageIds, startId < id, id <= watermark'
                 PROVE  id \in seen'
      BY <2>1 DEF Unskipped
    <3>1. id <= watermark \/ id < top \/ id = top
      BY <1>0, <2>1, <2>2 DEF Larger
    <3>2. QED
      BY <2>1, <2>3, <3>1 DEF Prefix, Unskipped
  <2>5. ASSUME NEW id \in MessageIds, NEW j \in 1..Len(stream), stream[j] = id
        PROVE  id \in seen' \/ (j - 1 \in 1..Len(stream') /\ stream'[j - 1] = id)
    <3>1. CASE j = 1
      BY <2>1, <2>2, <2>5, <3>1
    <3>2. CASE j # 1
      <4>1. j - 1 \in 1..Len(stream')
        BY <1>0, <2>2, <3>2
      <4>2. QED
        BY <1>0, <2>2, <2>5, <4>1
    <3>3. QED
      BY <3>1, <3>2
  <2>6. ASSUME NEW k \in 1..Len(stream'), NEW id \in MessageIds,
               startId < id, id < stream'[k]
        PROVE  id \in seen' \/ \E j \in 1..(k - 1) : stream'[j] = id
    <3>1. id < stream[k + 1] /\ k + 1 \in 1..Len(stream)
      BY <2>2, <2>6
    <3>2. id \in seen \/ \E j \in 1..((k + 1) - 1) : stream[j] = id
      BY <2>1, <2>6, <3>1 DEF Prefix
    <3>3. CASE id \in seen
      BY <2>1, <3>3
    <3>4. CASE \E j \in 1..k : stream[j] = id
      <4>1. PICK j \in 1..k : stream[j] = id
        BY <3>4
      <4>2. j \in 1..Len(stream)
        BY <1>0, <2>2, <3>1
      <4>3. id \in seen' \/ (j - 1 \in 1..Len(stream') /\ stream'[j - 1] = id)
        BY <2>5, <4>1, <4>2
      <4>4. j - 1 \in 1..Len(stream') => j - 1 \in 1..(k - 1)
        BY <1>0, <2>2
      <4>5. QED
        BY <4>3, <4>4
    <3>5. QED
      BY <3>2, <3>3, <3>4
  <2>7. ASSUME NEW id \in MessageIds, InStream(id)
        PROVE  id \in seen' \/ InStream(id)'
    BY <2>5, <2>7 DEF InStream
  <2>8. QED
    BY <2>1, <2>4, <2>6, <2>7 DEF Prefix
<1>10. CASE EndSession
  BY <1>10 DEF EndSession, Prefix, Unskipped, stateVars
<1>11. QED
  BY <1>1, <1>2, <1>3, <1>4, <1>5, <1>6, <1>7, <1>8, <1>9, <1>10
  DEF Next, Server, Process

\* Nothing above the start mark and below the watermark is skipped as long as
\* nothing of Troubles happened.
LEMMA PrefixCorrect == Spec => []PrefixInv
<1>1. Init => PrefixInv
  BY DeliveryAssumption DEF Init, PrefixInv, Prefix, Unskipped, MessageIds
<1>2. TypeOK /\ TypeOK' /\ CountInv /\ CountInv' /\ PrefixInv /\ [Next]_vars => PrefixInv'
  <2> SUFFICES ASSUME TypeOK, TypeOK', CountInv, CountInv', PrefixInv, [Next]_vars,
                      trouble' = "none"
               PROVE  Prefix'
    BY DEF PrefixInv
  <2>1. CASE StartProcess
    <3>1. watermark' = stored /\ startId' = stored /\ pc' = "loop"
      BY <2>1 DEF StartProcess, MaxMessageId
    <3>2. \A id \in MessageIds : ~(stored < id /\ id <= stored)
      BY DeliveryAssumption DEF TypeOK, MessageIds
    <3>3. QED
      BY <3>1, <3>2 DEF Prefix, Unskipped
  <2>2. CASE Crash
    BY <2>2 DEF Crash, Forget, Prefix, Unskipped, MessageIds
  <2>3. CASE Next /\ ~StartProcess /\ ~Crash
    <3>1. trouble = "none"
      BY <2>3 DEF Next, Server, Process, StoreMessage, Publish, FailPublish,
                  ToggleBinding, DropLink, Connect, CatchUp, FailCatchUp, ReadFrame,
                  EndSession, Note
    <3>2. QED
      BY <2>3, <3>1, PrefixStep DEF PrefixInv
  <2>4. CASE UNCHANGED vars
    BY <2>4 DEF PrefixInv, Prefix, Unskipped, InStream, vars
  <2>5. QED
    BY <2>1, <2>2, <2>3, <2>4
<1>3. QED
  BY <1>1, <1>2, TypeCorrect, CountCorrect, PTL DEF Spec

\* As long as publications keep the order of the ids, none is lost for good, no
\* query fails and no catch-up is cut, the watermark never passes a message that
\* was not accepted, so reloading from it loses nothing.
THEOREM NoGapCorrect == Spec => []NoGap
<1>1. PrefixInv => NoGap
  BY DEF PrefixInv, Prefix, NoGap
<1>2. QED
  BY <1>1, PrefixCorrect, PTL
=============================================================================
