------------------------------ MODULE Delivery ------------------------------
(***************************************************************************)
(* How messages of the chat reach the agent process (runtime.rs).          *)
(*                                                                         *)
(* The chat server stores a message (the log of ids 1..stored) and only    *)
(* then publishes its id to Centrifugo, best effort.  The agent process    *)
(* follows the publications through an SSE stream that keeps no history,   *)
(* so after every (re)connection it loads from the log the ids above its   *)
(* watermark, at most CatchUpLimit of them.  What was accepted once is     *)
(* remembered in `seen` and not accepted again.                            *)
(***************************************************************************)
EXTENDS Naturals, Sequences

CONSTANTS
  MaxMessages,    \* bound on the length of the log
  CatchUpLimit    \* CATCH_UP_LIMIT, 500 in the code

ASSUME DeliveryAssumption ==
  /\ MaxMessages \in Nat
  /\ CatchUpLimit \in Nat \ {0}

VARIABLES
  stored,      \* newest message id in the log
  owed,        \* owed[id]: publish calls the request that stored id has left
  bound,       \* some agent is bound to a user: there is something to listen to
  linked,      \* Centrifugo holds a subscription of the process
  stream,      \* frames sent on the subscription and not yet read
  pc,          \* the process: off, at the top of its loop, catching up, reading
  watermark,   \* largest id accepted
  seen,        \* ids accepted by this process
  dispatched,  \* dispatched[id]: tasks this process spawned for id
  startId,     \* history: the newest id when this process started
  missed,      \* history: ids stored after the start, published while no
               \* subscription was held, and not accepted
  trouble      \* history: what went wrong for this process since it started

logVars   == <<stored, owed>>
linkVars  == <<linked, stream>>
stateVars == <<watermark, seen, dispatched>>
vars == <<stored, owed, bound, linked, stream, pc, watermark, seen,
          dispatched, startId, missed, trouble>>

MessageIds == 1..MaxMessages

Larger(a, b)  == IF a >= b THEN a ELSE b
Smaller(a, b) == IF a <= b THEN a ELSE b

Up == pc # "off"

\* What may go wrong for the messages stored after the process started: one is
\* published before an older one or not at all, a query fails, or a catch-up
\* does not reach the end of the log.
\* Of two different ones only that there were several is recorded, and that the
\* start mark was not read.
Troubles == {"none", "order", "publish", "start", "catchup", "limit", "several"}

Note(kind, condition) ==
  trouble' = CASE ~Up \/ ~condition \/ trouble = "start" -> trouble
               [] OTHER -> IF trouble \in {"none", kind} THEN kind ELSE "several"

-----------------------------------------------------------------------------
(* The chat server and Centrifugo.                                         *)

\* insert_message: the id is in the log before anything is published.  Most
\* requests publish it once; starting a thread publishes its first message to
\* the chat and to the thread, both of which go to the common channel.
StoreMessage(calls) ==
  /\ stored < MaxMessages
  /\ stored' = stored + 1
  /\ owed' = [owed EXCEPT ![stored + 1] = calls]
  /\ UNCHANGED <<bound, linkVars, pc, stateVars, startId, missed, trouble>>

Overtakes(id) == \E older \in (startId + 1)..(id - 1) : owed[older] > 0

\* publish_message reaches Centrifugo: the frame goes to the subscription
\* held at that moment, and nowhere when there is none.
Publish(id) ==
  /\ owed[id] > 0
  /\ owed' = [owed EXCEPT ![id] = @ - 1]
  /\ Note("order", Overtakes(id))
  /\ stream' = IF linked THEN Append(stream, id) ELSE stream
  /\ missed' = IF Up /\ ~linked /\ id > startId THEN missed \cup ({id} \ seen) ELSE missed
  /\ UNCHANGED <<stored, bound, linked, pc, stateVars, startId>>

\* publish is best effort: the error is logged and nothing is retried.
FailPublish(id) ==
  /\ owed[id] > 0
  /\ owed' = [owed EXCEPT ![id] = @ - 1]
  /\ Note("publish", id > startId)
  /\ UNCHANGED <<stored, bound, linkVars, pc, stateVars, startId, missed>>

\* An agent is bound to a user, or the last binding is removed.
ToggleBinding ==
  /\ bound' = ~bound
  /\ UNCHANGED <<logVars, linkVars, pc, stateVars, startId, missed, trouble>>

\* Centrifugo restarts or the connection breaks; frames that were sent can
\* still be read.
DropLink ==
  /\ linked
  /\ linked' = FALSE
  /\ UNCHANGED <<logVars, bound, stream, pc, stateVars, startId, missed, trouble>>

-----------------------------------------------------------------------------
(* The agent process.                                                      *)

\* The insert into `seen` reports which of the ids are new.
Fresh(ids) == ids \ seen

\* mark_seen for each of ids, which are accepted in ascending order up to top:
\* the watermark is a maximum, and a task is spawned for the new ones only.
Accept(ids, top) ==
  /\ watermark' = Larger(watermark, top)
  /\ seen' = seen \cup ids
  /\ missed' = missed \ ids
  /\ dispatched' = [id \in MessageIds |->
                      IF id \in Fresh(ids) THEN dispatched[id] + 1
                                           ELSE dispatched[id]]

MaxMessageIdOfEmpty == 0                \* faulty variant: the mark is never read
MaxMessageId == stored

\* mark_start: a new process takes the newest id of the log for its watermark;
\* when the query fails, the watermark stays at zero.
StartProcess ==
  /\ pc = "off"
  /\ pc' = "loop"
  /\ startId' = stored
  /\ \/ watermark' = MaxMessageId /\ trouble' = "none"
     \/ watermark' = 0 /\ trouble' = "start"
  /\ UNCHANGED <<logVars, bound, linkVars, seen, dispatched, missed>>

\* run / session: channels to listen to exist, and the stream is opened.
Connect ==
  /\ pc = "loop"
  /\ bound
  /\ pc' = "catching"
  /\ linked' = TRUE
  /\ stream' = <<>>
  /\ UNCHANGED <<logVars, bound, stateVars, startId, missed, trouble>>

NewestMissedTooFar ==                   \* faulty variant: off by one
  Smaller(stored + 1, watermark + CatchUpLimit)
MissedBatchStrict ==                    \* faulty variant: id > after + 1
  (watermark + 2)..Smaller(stored, watermark + CatchUpLimit)

\* message_ids_after: the oldest ids above the watermark, limited.
NewestMissed == Smaller(stored, watermark + CatchUpLimit)
MissedBatch == (watermark + 1)..NewestMissed

\* catch_up runs after the stream is open and before it is read.
CatchUp ==
  /\ pc = "catching"
  /\ Accept(MissedBatch, NewestMissed)
  /\ Note("limit", NewestMissed < stored)
  /\ pc' = "reading"
  /\ UNCHANGED <<logVars, bound, linkVars, startId>>

\* The query of catch_up fails: a warning, and the stream is read as it is.
FailCatchUp ==
  /\ pc = "catching"
  /\ Note("catchup", watermark < stored)
  /\ pc' = "reading"
  /\ UNCHANGED <<logVars, bound, linkVars, stateVars, startId, missed>>

\* on_event for the next frame of the stream.
ReadFrame ==
  /\ pc = "reading"
  /\ stream # <<>>
  /\ Accept({Head(stream)}, Head(stream))
  /\ stream' = Tail(stream)
  /\ UNCHANGED <<logVars, bound, linked, pc, startId, trouble>>

RefreshNever == FALSE                   \* faulty variant: no refresh timer
RefreshTick == pc = "reading"
StreamEnds == pc = "reading" /\ ~linked

\* The session ends: the periodic refresh, the end of the stream or an error.
\* Frames that were not read are dropped with the response.
EndSession ==
  /\ RefreshTick \/ StreamEnds
  /\ pc' = "loop"
  /\ linked' = FALSE
  /\ stream' = <<>>
  /\ UNCHANGED <<logVars, bound, stateVars, startId, missed, trouble>>

\* The process dies; what it remembered was in its memory only.
Forget ==
  /\ linked' = FALSE
  /\ stream' = <<>>
  /\ watermark' = 0
  /\ seen' = {}
  /\ dispatched' = [id \in MessageIds |-> 0]
  /\ startId' = 0
  /\ missed' = {}
  /\ trouble' = "none"

Crash ==
  /\ Up
  /\ pc' = "off"
  /\ Forget
  /\ UNCHANGED <<logVars, bound>>

-----------------------------------------------------------------------------
Init ==
  /\ stored = 0
  /\ owed = [id \in MessageIds |-> 0]
  /\ bound \in BOOLEAN
  /\ linked = FALSE
  /\ stream = <<>>
  /\ pc = "off"
  /\ watermark = 0
  /\ seen = {}
  /\ dispatched = [id \in MessageIds |-> 0]
  /\ startId = 0
  /\ missed = {}
  /\ trouble = "none"

Server == \/ \E calls \in 1..2 : StoreMessage(calls)
          \/ \E id \in MessageIds : Publish(id) \/ FailPublish(id)
          \/ ToggleBinding
          \/ DropLink

Process == StartProcess \/ Connect \/ CatchUp \/ FailCatchUp \/ ReadFrame
           \/ EndSession \/ Crash

Next == Server \/ Process

Spec == Init /\ [][Next]_vars

\* The loop of the process goes on: it connects, the refresh timer ends every
\* session, and the query of catch_up is answered again and again.
Fairness == /\ WF_vars(Connect)
            /\ SF_vars(CatchUp)
            /\ WF_vars(EndSession)

FairSpec == Spec /\ Fairness

-----------------------------------------------------------------------------
(* Properties.                                                             *)

TypeOK ==
  /\ stored \in 0..MaxMessages
  /\ owed \in [MessageIds -> 0..2]
  /\ bound \in BOOLEAN
  /\ linked \in BOOLEAN
  /\ stream \in Seq(MessageIds)
  /\ pc \in {"off", "loop", "catching", "reading"}
  /\ watermark \in 0..MaxMessages
  /\ seen \subseteq MessageIds
  /\ dispatched \in [MessageIds -> Nat]
  /\ startId \in 0..MaxMessages
  /\ missed \subseteq MessageIds
  /\ trouble \in Troubles

\* A message is dispatched at most once in the life of a process, although a
\* publication may be repeated and the catch-up and the stream overlap.
DispatchedOnce == \A id \in MessageIds : dispatched[id] <= 1

\* Nothing between the start of the process and its watermark was skipped: the
\* watermark stands for the whole prefix that it is used for by catch_up, through
\* broken connections, reconnections and repeated publications, as long as
\* nothing of Troubles happened.
Unskipped == \A id \in MessageIds : startId < id /\ id <= watermark => id \in seen

NoGap == trouble = "none" => Unskipped

\* The catch-up never takes messages from before the start of the process
\* ("after downtime the runtime does not answer old messages", mark_start), if
\* the start mark was read.
TakesNoOld == \A id \in 1..startId : dispatched'[id] <= dispatched[id]

NoReplay == [][pc = "catching" /\ trouble # "start" => TakesNoOld]_vars

\* What was published while no stream was connected is loaded after the next
\* connection (comment at RuntimeState.watermark): such a message is accepted or
\* still ahead of the watermark, where a catch-up finds it.
MissedNotLost == \A id \in missed : id > watermark

\* The same when messages were at most published out of order.
NotLostByOrder == trouble \in {"none", "order"} => MissedNotLost

\* As long as the process lives and has something to listen to, the newest
\* message is accepted whatever was lost on the way to it, once no other follows
\* (the log is bounded): the periodic reconnection stands in for every failed
\* publish and every lost frame.
NewestAccepted == <>[]bound => []<>(~Up \/ stored \in seen \/ stored <= startId)

\* The runtime implements the abstract intake; the count of spawned tasks is
\* the count of hand-overs.
Abstract == INSTANCE Intake WITH runs <- dispatched
ImplementsIntake == Abstract!Spec

-----------------------------------------------------------------------------
(* Strengthenings that make the safety properties inductive.               *)

\* A message was dispatched exactly when it is remembered as seen, and only
\* stored messages are ever published, streamed or accepted.
CountInv ==
  /\ \A id \in MessageIds : dispatched[id] = IF id \in seen THEN 1 ELSE 0
  /\ \A id \in seen : id <= stored
  /\ \A id \in MessageIds : owed[id] > 0 => id <= stored
  /\ \A k \in 1..Len(stream) : stream[k] <= stored
  /\ watermark <= stored
  /\ startId <= stored

WatermarkInv == Up /\ trouble # "start" => startId <= watermark

InStream(id) == \E k \in 1..Len(stream) : stream[k] = id

\* Every frame waiting in the stream has the messages before it ahead of it
\* or accepted already, and while the subscription is held every message
\* is accepted, on its way or not yet published to the end.
Prefix ==
  /\ Unskipped
  /\ pc = "reading" =>
       \A k \in 1..Len(stream), id \in MessageIds :
         startId < id /\ id < stream[k] =>
           id \in seen \/ \E j \in 1..(k - 1) : stream[j] = id
  /\ pc = "reading" /\ linked =>
       \A id \in MessageIds :
         startId < id /\ id <= stored => id \in seen \/ InStream(id) \/ owed[id] > 0

PrefixInv == trouble = "none" => Prefix
=============================================================================
