--------------------------- MODULE ThreadsProofs ---------------------------
(***************************************************************************)
(* Theorems about Threads for any chats, messages, requests and limits:    *)
(* types and depth; copies and shares name the message they should; a      *)
(* closed root has no open thread unless a closing overtook one; a thread  *)
(* exceeds its limit by less than the requests that run at a time; and the *)
(* session of every chat is found on the bounded way up.                   *)
(***************************************************************************)
EXTENDS Threads, FiniteSetTheorems, WellFoundedInduction, TLAPS

-----------------------------------------------------------------------------
(* Steps.                                                                  *)

\* What the two outcomes of SendEnd leave in pending.
LEMMA EndSent ==
  ASSUME TypeOK, NEW r \in Requests, SendEnd(r)
  PROVE  /\ \A q \in Requests \ {r} : pending'[q] = pending[q]
         /\ \/ pending'[r] = None
            \/ /\ CanInsert(pending[r].chat)
               /\ pending'[r].op = "send" /\ pending'[r].chat = pending[r].chat
         /\ pending[r] # None /\ pending[r].op = "end"
         /\ UNCHANGED <<chatVars, messageVars>>
BY DEF SendEnd, TypeOK, Insertion

\* A closing leaves no open thread under a closed root.
LEMMA CloseKeepsTree ==
  ASSUME TypeOK, ChatInv, WholeTree, NEW c \in Chats, Close(c)
  PROVE  WholeTree'
<1> SUFFICES ASSUME NEW d \in Chats, state'[d] = "OPEN"
             PROVE  state'[root[d]] = "OPEN"
  BY DEF WholeTree, Close
<1>1. d \notin Closed(c) /\ state[d] = "OPEN"
  BY DEF Close
<1>2. root[d] \in Chats /\ root[root[d]] = root[d] /\ state[root[d]] = "OPEN"
  BY <1>1 DEF ChatInv, WholeTree
<1>3. root[d] \notin Closed(c)
  <2>1. CASE root[c] = c
    BY <1>1, <1>2, <2>1 DEF Closed
  <2>2. CASE root[c] # c
    BY <1>2, <2>2 DEF Closed
  <2>3. QED
    BY <2>1, <2>2
<1>4. QED
  BY <1>2, <1>3 DEF Close

\* Every step keeps the types; a thread is not deeper than the limit.
LEMMA TypeStep ==
  ASSUME TypeOK, ChatInv, RequestInv, [Next]_vars
  PROVE  TypeOK'
<1> USE ThreadsAssumption
<1>1. ASSUME NEW c \in Chats, CreateChat(c)
      PROVE  TypeOK'
  BY <1>1 DEF CreateChat, TypeOK, ChatInv, RequestInv, Stored, Insertion,
     CanInsert, chatVars, messageVars
<1>2. ASSUME NEW c \in Chats, CloseChat(c)
      PROVE  TypeOK'
  BY <1>2 DEF CloseChat, Close, Closed, TypeOK, ChatInv, RequestInv, Stored,
     Insertion, CanInsert, chatVars, messageVars
<1>3. ASSUME NEW r \in Requests, NEW c \in Chats, CheckSend(r, c)
      PROVE  TypeOK'
  BY <1>3 DEF CheckSend, Check, TypeOK, ChatInv, RequestInv, Stored, Insertion,
     CanInsert, chatVars, messageVars
<1>4. ASSUME NEW r \in Requests, NEW c \in Chats, EndCommand(r, c)
      PROVE  TypeOK'
  BY <1>4 DEF EndCommand, Close, Closed, TypeOK, ChatInv, RequestInv, Stored,
     Insertion, CanInsert, chatVars, messageVars
<1>5. ASSUME NEW r \in Requests, NEW m \in Messages, CheckThread(r, m)
      PROVE  TypeOK'
  BY <1>5 DEF CheckThread, Check, TypeOK, ChatInv, RequestInv, Stored,
     Insertion, CanInsert, chatVars, messageVars
<1>6. ASSUME NEW r \in Requests, NEW m \in Messages, CheckCopy(r, m)
      PROVE  TypeOK'
  BY <1>6 DEF CheckCopy, Check, TypeOK, ChatInv, RequestInv, Stored, Insertion,
     CanInsert, chatVars, messageVars
<1>7. ASSUME NEW r \in Requests, NEW c \in Chats, NEW m \in Messages,
             CheckShare(r, c, m)
      PROVE  TypeOK'
  BY <1>7 DEF CheckShare, Check, TypeOK, ChatInv, RequestInv, Stored,
     Insertion, CanInsert, chatVars, messageVars
<1>8. ASSUME NEW r \in Requests, SendEnd(r)
      PROVE  TypeOK'
  BY <1>8 DEF SendEnd, TypeOK, ChatInv, RequestInv, Stored, Insertion,
     CanInsert, chatVars, messageVars
<1>9. ASSUME NEW r \in Requests, Stop(r)
      PROVE  TypeOK'
  BY <1>9 DEF Stop, TypeOK, ChatInv, RequestInv, Stored, Insertion, CanInsert,
     chatVars, messageVars
<1>10. ASSUME NEW r \in Requests, NEW n \in Messages, Send(r, n)
      PROVE  TypeOK'
  BY <1>10 DEF Send, Insert, TypeOK, ChatInv, RequestInv, Stored, Insertion,
     CanInsert, chatVars, messageVars
<1>11. ASSUME NEW r \in Requests, NEW n \in Messages, PostToParent(r, n)
      PROVE  TypeOK'
  BY <1>11 DEF PostToParent, Insert, TypeOK, ChatInv, RequestInv, Stored,
     Insertion, CanInsert, chatVars, messageVars
<1>12. ASSUME NEW r \in Requests, NEW n \in Messages, Share(r, n)
      PROVE  TypeOK'
  BY <1>12 DEF Share, Insert, TypeOK, ChatInv, RequestInv, Stored, Insertion,
     CanInsert, chatVars, messageVars
<1>13. ASSUME NEW r \in Requests, NEW n \in Messages, NEW t \in Chats,
             StartThread(r, n, t)
      PROVE  TypeOK'
  BY <1>13 DEF StartThread, Insert, TypeOK, ChatInv, RequestInv, Stored,
     Insertion, CanInsert, chatVars, messageVars
<1>14. CASE UNCHANGED vars
  BY <1>14 DEF vars, TypeOK, ChatInv, RequestInv, Stored, Insertion, CanInsert
<1>15. QED
  BY <1>1, <1>2, <1>3, <1>4, <1>5, <1>6, <1>7, <1>8, <1>9, <1>10, <1>11, <1>12,
     <1>13, <1>14
  DEF Next, ChatStep, CheckStep, InsertStep

\* Every step keeps the chats trees.
LEMMA ChatStepInv ==
  ASSUME TypeOK, ChatInv, RequestInv, MessageInv, [Next]_vars
  PROVE  ChatInv'
<1> USE ThreadsAssumption
<1>1. ASSUME NEW c \in Chats, CreateChat(c)
      PROVE  ChatInv'
  BY <1>1 DEF CreateChat, TypeOK, ChatInv, RequestInv, MessageInv, Stored,
     Insertion, chatVars, messageVars
<1>2. ASSUME NEW c \in Chats, CloseChat(c)
      PROVE  ChatInv'
  BY <1>2 DEF CloseChat, Close, Closed, TypeOK, ChatInv, RequestInv,
     MessageInv, Stored, Insertion, chatVars, messageVars
<1>3. ASSUME NEW r \in Requests, NEW c \in Chats, CheckSend(r, c)
      PROVE  ChatInv'
  BY <1>3 DEF CheckSend, Check, TypeOK, ChatInv, RequestInv, MessageInv,
     Stored, Insertion, chatVars, messageVars
<1>4. ASSUME NEW r \in Requests, NEW c \in Chats, EndCommand(r, c)
      PROVE  ChatInv'
  BY <1>4 DEF EndCommand, Close, Closed, TypeOK, ChatInv, RequestInv,
     MessageInv, Stored, Insertion, chatVars, messageVars
<1>5. ASSUME NEW r \in Requests, NEW m \in Messages, CheckThread(r, m)
      PROVE  ChatInv'
  BY <1>5 DEF CheckThread, Check, TypeOK, ChatInv, RequestInv, MessageInv,
     Stored, Insertion, chatVars, messageVars
<1>6. ASSUME NEW r \in Requests, NEW m \in Messages, CheckCopy(r, m)
      PROVE  ChatInv'
  BY <1>6 DEF CheckCopy, Check, TypeOK, ChatInv, RequestInv, MessageInv,
     Stored, Insertion, chatVars, messageVars
<1>7. ASSUME NEW r \in Requests, NEW c \in Chats, NEW m \in Messages,
             CheckShare(r, c, m)
      PROVE  ChatInv'
  BY <1>7 DEF CheckShare, Check, TypeOK, ChatInv, RequestInv, MessageInv,
     Stored, Insertion, chatVars, messageVars
<1>8. ASSUME NEW r \in Requests, SendEnd(r)
      PROVE  ChatInv'
  BY <1>8 DEF SendEnd, TypeOK, ChatInv, RequestInv, MessageInv, Stored,
     Insertion, chatVars, messageVars
<1>9. ASSUME NEW r \in Requests, Stop(r)
      PROVE  ChatInv'
  BY <1>9 DEF Stop, TypeOK, ChatInv, RequestInv, MessageInv, Stored, Insertion,
     chatVars, messageVars
<1>10. ASSUME NEW r \in Requests, NEW n \in Messages, Send(r, n)
      PROVE  ChatInv'
  BY <1>10 DEF Send, Insert, TypeOK, ChatInv, RequestInv, MessageInv, Stored,
     Insertion, chatVars, messageVars
<1>11. ASSUME NEW r \in Requests, NEW n \in Messages, PostToParent(r, n)
      PROVE  ChatInv'
  BY <1>11 DEF PostToParent, Insert, TypeOK, ChatInv, RequestInv, MessageInv,
     Stored, Insertion, chatVars, messageVars
<1>12. ASSUME NEW r \in Requests, NEW n \in Messages, Share(r, n)
      PROVE  ChatInv'
  BY <1>12 DEF Share, Insert, TypeOK, ChatInv, RequestInv, MessageInv, Stored,
     Insertion, chatVars, messageVars
<1>13. ASSUME NEW r \in Requests, NEW n \in Messages, NEW t \in Chats,
             StartThread(r, n, t)
      PROVE  ChatInv'
  BY <1>13 DEF StartThread, Insert, TypeOK, ChatInv, RequestInv, MessageInv,
     Stored, Insertion, chatVars, messageVars
<1>14. CASE UNCHANGED vars
  BY <1>14 DEF vars, TypeOK, ChatInv, RequestInv, MessageInv, Stored, Insertion
<1>15. QED
  BY <1>1, <1>2, <1>3, <1>4, <1>5, <1>6, <1>7, <1>8, <1>9, <1>10, <1>11, <1>12,
     <1>13, <1>14
  DEF Next, ChatStep, CheckStep, InsertStep

\* What a request found stays true.
LEMMA RequestStep ==
  ASSUME TypeOK, ChatInv, RequestInv, MessageInv, [Next]_vars
  PROVE  RequestInv'
<1> USE ThreadsAssumption
<1>1. ASSUME NEW c \in Chats, CreateChat(c)
      PROVE  RequestInv'
  BY <1>1 DEF CreateChat, TypeOK, ChatInv, RequestInv, MessageInv, Stored,
     Insertion, CanInsert, chatVars, messageVars
<1>2. ASSUME NEW c \in Chats, CloseChat(c)
      PROVE  RequestInv'
  BY <1>2 DEF CloseChat, Close, Closed, TypeOK, ChatInv, RequestInv,
     MessageInv, Stored, Insertion, CanInsert, chatVars, messageVars
<1>3. ASSUME NEW r \in Requests, NEW c \in Chats, CheckSend(r, c)
      PROVE  RequestInv'
  BY <1>3 DEF CheckSend, Check, TypeOK, ChatInv, RequestInv, MessageInv,
     Stored, Insertion, CanInsert, chatVars, messageVars
<1>4. ASSUME NEW r \in Requests, NEW c \in Chats, EndCommand(r, c)
      PROVE  RequestInv'
  BY <1>4 DEF EndCommand, Close, Closed, TypeOK, ChatInv, RequestInv,
     MessageInv, Stored, Insertion, CanInsert, chatVars, messageVars
<1>5. ASSUME NEW r \in Requests, NEW m \in Messages, CheckThread(r, m)
      PROVE  RequestInv'
  BY <1>5 DEF CheckThread, Check, TypeOK, ChatInv, RequestInv, MessageInv,
     Stored, Insertion, CanInsert, chatVars, messageVars
<1>6. ASSUME NEW r \in Requests, NEW m \in Messages, CheckCopy(r, m)
      PROVE  RequestInv'
  BY <1>6 DEF CheckCopy, Check, TypeOK, ChatInv, RequestInv, MessageInv,
     Stored, Insertion, CanInsert, chatVars, messageVars
<1>7. ASSUME NEW r \in Requests, NEW c \in Chats, NEW m \in Messages,
             CheckShare(r, c, m)
      PROVE  RequestInv'
  BY <1>7 DEF CheckShare, Check, TypeOK, ChatInv, RequestInv, MessageInv,
     Stored, Insertion, CanInsert, chatVars, messageVars
<1>8. ASSUME NEW r \in Requests, SendEnd(r)
      PROVE  RequestInv'
  BY <1>8, EndSent DEF RequestInv, CanInsert, Stored, chatVars, messageVars
<1>9. ASSUME NEW r \in Requests, Stop(r)
      PROVE  RequestInv'
  BY <1>9 DEF Stop, TypeOK, ChatInv, RequestInv, MessageInv, Stored, Insertion,
     CanInsert, chatVars, messageVars
<1>10. ASSUME NEW r \in Requests, NEW n \in Messages, Send(r, n)
      PROVE  RequestInv'
  BY <1>10 DEF Send, Insert, TypeOK, ChatInv, RequestInv, MessageInv, Stored,
     Insertion, CanInsert, chatVars, messageVars
<1>11. ASSUME NEW r \in Requests, NEW n \in Messages, PostToParent(r, n)
      PROVE  RequestInv'
  BY <1>11 DEF PostToParent, Insert, TypeOK, ChatInv, RequestInv, MessageInv,
     Stored, Insertion, CanInsert, chatVars, messageVars
<1>12. ASSUME NEW r \in Requests, NEW n \in Messages, Share(r, n)
      PROVE  RequestInv'
  BY <1>12 DEF Share, Insert, TypeOK, ChatInv, RequestInv, MessageInv, Stored,
     Insertion, CanInsert, chatVars, messageVars
<1>13. ASSUME NEW r \in Requests, NEW n \in Messages, NEW t \in Chats,
             StartThread(r, n, t)
      PROVE  RequestInv'
  BY <1>13 DEF StartThread, Insert, TypeOK, ChatInv, RequestInv, MessageInv,
     Stored, Insertion, CanInsert, chatVars, messageVars
<1>14. CASE UNCHANGED vars
  BY <1>14 DEF vars, TypeOK, ChatInv, RequestInv, MessageInv, Stored,
     Insertion, CanInsert
<1>15. QED
  BY <1>1, <1>2, <1>3, <1>4, <1>5, <1>6, <1>7, <1>8, <1>9, <1>10, <1>11, <1>12,
     <1>13, <1>14
  DEF Next, ChatStep, CheckStep, InsertStep

\* Copies and shares keep naming the message they should.
LEMMA MessageStep ==
  ASSUME TypeOK, ChatInv, RequestInv, MessageInv, [Next]_vars
  PROVE  MessageInv'
<1> USE ThreadsAssumption
<1>1. ASSUME NEW c \in Chats, CreateChat(c)
      PROVE  MessageInv'
  BY <1>1 DEF CreateChat, TypeOK, ChatInv, RequestInv, MessageInv,
     CopyBesideThread, ShareNamesOriginal, Stored, Insertion, chatVars,
     messageVars
<1>2. ASSUME NEW c \in Chats, CloseChat(c)
      PROVE  MessageInv'
  BY <1>2 DEF CloseChat, Close, Closed, TypeOK, ChatInv, RequestInv,
     MessageInv, CopyBesideThread, ShareNamesOriginal, Stored, Insertion,
     chatVars, messageVars
<1>3. ASSUME NEW r \in Requests, NEW c \in Chats, CheckSend(r, c)
      PROVE  MessageInv'
  BY <1>3 DEF CheckSend, Check, TypeOK, ChatInv, RequestInv, MessageInv,
     CopyBesideThread, ShareNamesOriginal, Stored, Insertion, chatVars,
     messageVars
<1>4. ASSUME NEW r \in Requests, NEW c \in Chats, EndCommand(r, c)
      PROVE  MessageInv'
  BY <1>4 DEF EndCommand, Close, Closed, TypeOK, ChatInv, RequestInv,
     MessageInv, CopyBesideThread, ShareNamesOriginal, Stored, Insertion,
     chatVars, messageVars
<1>5. ASSUME NEW r \in Requests, NEW m \in Messages, CheckThread(r, m)
      PROVE  MessageInv'
  BY <1>5 DEF CheckThread, Check, TypeOK, ChatInv, RequestInv, MessageInv,
     CopyBesideThread, ShareNamesOriginal, Stored, Insertion, chatVars,
     messageVars
<1>6. ASSUME NEW r \in Requests, NEW m \in Messages, CheckCopy(r, m)
      PROVE  MessageInv'
  BY <1>6 DEF CheckCopy, Check, TypeOK, ChatInv, RequestInv, MessageInv,
     CopyBesideThread, ShareNamesOriginal, Stored, Insertion, chatVars,
     messageVars
<1>7. ASSUME NEW r \in Requests, NEW c \in Chats, NEW m \in Messages,
             CheckShare(r, c, m)
      PROVE  MessageInv'
  BY <1>7 DEF CheckShare, Check, TypeOK, ChatInv, RequestInv, MessageInv,
     CopyBesideThread, ShareNamesOriginal, Stored, Insertion, chatVars,
     messageVars
<1>8. ASSUME NEW r \in Requests, SendEnd(r)
      PROVE  MessageInv'
  BY <1>8 DEF SendEnd, TypeOK, ChatInv, RequestInv, MessageInv,
     CopyBesideThread, ShareNamesOriginal, Stored, Insertion, chatVars,
     messageVars
<1>9. ASSUME NEW r \in Requests, Stop(r)
      PROVE  MessageInv'
  BY <1>9 DEF Stop, TypeOK, ChatInv, RequestInv, MessageInv, CopyBesideThread,
     ShareNamesOriginal, Stored, Insertion, chatVars, messageVars
<1>10. ASSUME NEW r \in Requests, NEW n \in Messages, Send(r, n)
      PROVE  MessageInv'
  BY <1>10 DEF Send, Insert, TypeOK, ChatInv, RequestInv, MessageInv,
     CopyBesideThread, ShareNamesOriginal, Stored, Insertion, chatVars,
     messageVars
<1>11. ASSUME NEW r \in Requests, NEW n \in Messages, PostToParent(r, n)
      PROVE  MessageInv'
  BY <1>11 DEF PostToParent, Insert, TypeOK, ChatInv, RequestInv, MessageInv,
     CopyBesideThread, ShareNamesOriginal, Stored, Insertion, chatVars,
     messageVars
<1>12. ASSUME NEW r \in Requests, NEW n \in Messages, Share(r, n)
      PROVE  MessageInv'
  BY <1>12 DEF Share, Insert, TypeOK, ChatInv, RequestInv, MessageInv,
     CopyBesideThread, ShareNamesOriginal, Stored, Insertion, chatVars,
     messageVars
<1>13. ASSUME NEW r \in Requests, NEW n \in Messages, NEW t \in Chats,
             StartThread(r, n, t)
      PROVE  MessageInv'
  BY <1>13 DEF StartThread, Insert, TypeOK, ChatInv, RequestInv, MessageInv,
     CopyBesideThread, ShareNamesOriginal, Stored, Insertion, chatVars,
     messageVars
<1>14. CASE UNCHANGED vars
  BY <1>14 DEF vars, TypeOK, ChatInv, RequestInv, MessageInv, CopyBesideThread,
     ShareNamesOriginal, Stored, Insertion
<1>15. QED
  BY <1>1, <1>2, <1>3, <1>4, <1>5, <1>6, <1>7, <1>8, <1>9, <1>10, <1>11, <1>12,
     <1>13, <1>14
  DEF Next, ChatStep, CheckStep, InsertStep

\* A closing either overtakes a thread or leaves every checked thread its chat.
LEMMA ClosingStep ==
  ASSUME TypeOK, ChatInv, ClosedInv, NEW c \in Chats, Close(c),
         \A q \in Requests : pending'[q] # None /\ pending'[q].op = "thread"
                              => pending'[q] = pending[q]
  PROVE  ClosedInv'
<1> SUFFICES ASSUME ~overtaken'
             PROVE  /\ WholeTree'
                    /\ \A q \in Requests :
                         pending'[q] # None /\ pending'[q].op = "thread"
                         => state'[pending'[q].chat] = "OPEN"
  BY DEF ClosedInv
<1>1. ~overtaken /\ \A q \in Requests :
        ~(Heading(q, Closed(c)) /\ pending[q].op = "thread")
  BY DEF Close
<1>2. WholeTree'
  BY <1>1, CloseKeepsTree DEF ClosedInv
<1>3. ASSUME NEW q \in Requests, pending'[q] # None, pending'[q].op = "thread"
      PROVE  state'[pending'[q].chat] = "OPEN"
  <2>1. pending'[q] = pending[q]
    BY <1>3
  <2>2. pending[q].chat \in Chats /\ pending[q].chat \notin Closed(c)
    BY <1>1, <1>3, <2>1 DEF Heading, TypeOK, Insertion
  <2>3. state[pending[q].chat] = "OPEN"
    BY <1>1, <1>3, <2>1 DEF ClosedInv
  <2>4. QED
    BY <2>1, <2>2, <2>3 DEF Close
<1>4. QED
  BY <1>2, <1>3

\* Unless a closing overtook it, the chat of a thread is open at the INSERT.
LEMMA ClosedStep ==
  ASSUME TypeOK, ChatInv, RequestInv, ClosedInv, [Next]_vars
  PROVE  ClosedInv'
<1> USE ThreadsAssumption
<1>1. ASSUME NEW c \in Chats, CreateChat(c)
      PROVE  ClosedInv'
  BY <1>1 DEF CreateChat, TypeOK, ChatInv, RequestInv, ClosedInv, WholeTree,
     Heading, CanInsert, Stored, Insertion, chatVars, messageVars
<1>2. ASSUME NEW c \in Chats, CloseChat(c)
      PROVE  ClosedInv'
  BY <1>2, ClosingStep DEF CloseChat
<1>3. ASSUME NEW r \in Requests, NEW c \in Chats, CheckSend(r, c)
      PROVE  ClosedInv'
  BY <1>3 DEF CheckSend, Check, TypeOK, ChatInv, RequestInv, ClosedInv,
     WholeTree, Heading, CanInsert, Stored, Insertion, chatVars, messageVars
<1>4. ASSUME NEW r \in Requests, NEW c \in Chats, EndCommand(r, c)
      PROVE  ClosedInv'
  <2>1. \A q \in Requests : pending'[q] # None /\ pending'[q].op = "thread"
                             => pending'[q] = pending[q]
    BY <1>4 DEF EndCommand, TypeOK
  <2>2. QED
    BY <1>4, <2>1, ClosingStep DEF EndCommand
<1>5. ASSUME NEW r \in Requests, NEW m \in Messages, CheckThread(r, m)
      PROVE  ClosedInv'
  BY <1>5 DEF CheckThread, Check, TypeOK, ChatInv, RequestInv, ClosedInv,
     WholeTree, Heading, CanInsert, Stored, Insertion, chatVars, messageVars
<1>6. ASSUME NEW r \in Requests, NEW m \in Messages, CheckCopy(r, m)
      PROVE  ClosedInv'
  BY <1>6 DEF CheckCopy, Check, TypeOK, ChatInv, RequestInv, ClosedInv,
     WholeTree, Heading, CanInsert, Stored, Insertion, chatVars, messageVars
<1>7. ASSUME NEW r \in Requests, NEW c \in Chats, NEW m \in Messages,
             CheckShare(r, c, m)
      PROVE  ClosedInv'
  BY <1>7 DEF CheckShare, Check, TypeOK, ChatInv, RequestInv, ClosedInv,
     WholeTree, Heading, CanInsert, Stored, Insertion, chatVars, messageVars
<1>8. ASSUME NEW r \in Requests, SendEnd(r)
      PROVE  ClosedInv'
  BY <1>8 DEF SendEnd, TypeOK, ChatInv, RequestInv, ClosedInv, WholeTree,
     Heading, CanInsert, Stored, Insertion, chatVars, messageVars
<1>9. ASSUME NEW r \in Requests, Stop(r)
      PROVE  ClosedInv'
  BY <1>9 DEF Stop, TypeOK, ChatInv, RequestInv, ClosedInv, WholeTree,
     Heading, CanInsert, Stored, Insertion, chatVars, messageVars
<1>10. ASSUME NEW r \in Requests, NEW n \in Messages, Send(r, n)
      PROVE  ClosedInv'
  BY <1>10 DEF Send, Insert, TypeOK, ChatInv, RequestInv, ClosedInv,
     WholeTree, Heading, CanInsert, Stored, Insertion, chatVars, messageVars
<1>11. ASSUME NEW r \in Requests, NEW n \in Messages, PostToParent(r, n)
      PROVE  ClosedInv'
  BY <1>11 DEF PostToParent, Insert, TypeOK, ChatInv, RequestInv, ClosedInv,
     WholeTree, Heading, CanInsert, Stored, Insertion, chatVars, messageVars
<1>12. ASSUME NEW r \in Requests, NEW n \in Messages, Share(r, n)
      PROVE  ClosedInv'
  BY <1>12 DEF Share, Insert, TypeOK, ChatInv, RequestInv, ClosedInv,
     WholeTree, Heading, CanInsert, Stored, Insertion, chatVars, messageVars
<1>13. ASSUME NEW r \in Requests, NEW n \in Messages, NEW t \in Chats,
             StartThread(r, n, t)
      PROVE  ClosedInv'
  BY <1>13 DEF StartThread, Insert, TypeOK, ChatInv, RequestInv, ClosedInv,
     WholeTree, Heading, CanInsert, Stored, Insertion, chatVars, messageVars
<1>14. CASE UNCHANGED vars
  BY <1>14 DEF vars, TypeOK, ChatInv, RequestInv, ClosedInv, WholeTree,
     Heading, CanInsert, Stored, Insertion
<1>15. QED
  BY <1>1, <1>2, <1>3, <1>4, <1>5, <1>6, <1>7, <1>8, <1>9, <1>10, <1>11, <1>12,
     <1>13, <1>14
  DEF Next, ChatStep, CheckStep, InsertStep

-----------------------------------------------------------------------------
(* How far a thread exceeds its limit.                                     *)

\* The sets that are counted are finite.
LEMMA Counted ==
  ASSUME NEW c \in Chats
  PROVE  /\ IsFiniteSet(In(c)) /\ Cardinality(In(c)) \in Nat
         /\ IsFiniteSet(Own(c)) /\ Cardinality(Own(c)) \in Nat
         /\ Cardinality(Own(c)) <= Cardinality(In(c))
         /\ IsFiniteSet(Passed(c)) /\ Cardinality(Passed(c)) \in Nat
         /\ Cardinality(Passed(c)) <= Cardinality(Requests)
         /\ Cardinality(Requests) \in Nat
<1>1. IsFiniteSet(In(c))
  BY ThreadsAssumption, FS_Subset DEF In
<1>2. IsFiniteSet(Own(c)) /\ Cardinality(Own(c)) <= Cardinality(In(c))
  BY <1>1, FS_Subset DEF Own
<1>3. IsFiniteSet(Passed(c)) /\ Cardinality(Passed(c)) <= Cardinality(Requests)
  BY ThreadsAssumption, FS_Subset DEF Passed
<1>4. QED
  BY <1>1, <1>2, <1>3, ThreadsAssumption, FS_CardinalityType

\* The same for the next state.
LEMMA CountedNext ==
  ASSUME NEW c \in Chats
  PROVE  /\ IsFiniteSet(Own(c)') /\ Cardinality(Own(c)') \in Nat
         /\ IsFiniteSet(Passed(c)') /\ Cardinality(Passed(c)') \in Nat
         /\ Cardinality(Passed(c)') <= Cardinality(Requests)
<1>1. Own(c)' \subseteq Messages /\ Passed(c)' \subseteq Requests
  BY DEF Own, In, Passed
<1>2. QED
  BY <1>1, ThreadsAssumption, FS_Subset, FS_CardinalityType

\* Steps that store nothing that counts and let no request pass.
LEMMA QuietStep ==
  ASSUME OverrunInv, UNCHANGED level,
         \A c \in Chats : Own(c)' = Own(c) /\ Passed(c)' \subseteq Passed(c)
  PROVE  OverrunInv'
<1> SUFFICES ASSUME NEW c \in Chats, level[c] > 0
             PROVE  Cardinality(Own(c)') + Cardinality(Passed(c)')
                      <= MaxMessages + Cardinality(Requests) - 1
  BY DEF OverrunInv
<1>1. Cardinality(Own(c)) + Cardinality(Passed(c))
        <= MaxMessages + Cardinality(Requests) - 1
  BY DEF OverrunInv
<1>2. Cardinality(Passed(c)') <= Cardinality(Passed(c))
  BY Counted, FS_Subset
<1>3. QED
  BY <1>1, <1>2, Counted, CountedNext, ThreadsAssumption

\* A request that passes found less than the limit; all others may have, too.
LEMMA PassStep ==
  ASSUME OverrunInv, NEW c \in Chats, CanInsert(c),
         UNCHANGED <<chatVars, messageVars>>,
         \A d \in Chats \ {c} : Passed(d)' \subseteq Passed(d)
  PROVE  OverrunInv'
<1> SUFFICES ASSUME NEW d \in Chats, level[d] > 0
             PROVE  Cardinality(Own(d)') + Cardinality(Passed(d)')
                      <= MaxMessages + Cardinality(Requests) - 1
  BY DEF OverrunInv, chatVars
<1>1. Own(d)' = Own(d)
  BY DEF Own, In, messageVars
<1>2. CASE d = c
  <2>1. Cardinality(In(d)) < MaxMessages
    BY <1>2, Counted, ThreadsAssumption DEF CanInsert, Full
  <2>2. QED
    BY <1>1, <2>1, Counted, CountedNext, ThreadsAssumption
<1>3. CASE d # c
  <2>1. Cardinality(Own(d)) + Cardinality(Passed(d))
          <= MaxMessages + Cardinality(Requests) - 1
    BY DEF OverrunInv
  <2>2. Cardinality(Passed(d)') <= Cardinality(Passed(d))
    BY <1>3, Counted, FS_Subset
  <2>3. QED
    BY <1>1, <2>1, <2>2, Counted, CountedNext, ThreadsAssumption
<1>4. QED
  BY <1>2, <1>3

\* An INSERT of a request that passed takes the place of the request.
LEMMA InsertKeeps ==
  ASSUME TypeOK, MessageInv, OverrunInv, UNCHANGED chatVars,
         NEW r \in Requests, NEW n \in Messages, ~Stored(n),
         pending[r] # None, pending[r].op \in {"send", "copy"},
         pending' = [pending EXCEPT ![r] = None],
         chat' = [chat EXCEPT ![n] = pending[r].chat], UNCHANGED shareOf
  PROVE  OverrunInv'
<1> DEFINE c == pending[r].chat
<1>1. c \in Chats /\ shareOf[n] = None
  BY DEF TypeOK, Insertion, MessageInv
<1> SUFFICES ASSUME NEW d \in Chats, level[d] > 0
             PROVE  Cardinality(Own(d)') + Cardinality(Passed(d)')
                      <= MaxMessages + Cardinality(Requests) - 1
  BY DEF OverrunInv, chatVars
<1>2. Cardinality(Own(d)) + Cardinality(Passed(d))
        <= MaxMessages + Cardinality(Requests) - 1
  BY DEF OverrunInv
<1>3. CASE d = c
  <2>1. Own(d)' = Own(d) \cup {n} /\ n \notin Own(d)
    BY <1>1, <1>3, ThreadsAssumption DEF Own, In, Stored, TypeOK
  <2>2. Passed(d)' = Passed(d) \ {r} /\ r \in Passed(d)
    BY <1>1, <1>3 DEF Passed, Heading, TypeOK
  <2>3. Cardinality(Own(d)') = Cardinality(Own(d)) + 1
    BY <2>1, Counted, FS_AddElement
  <2>4. Cardinality(Passed(d)') = Cardinality(Passed(d)) - 1
    BY <2>2, Counted, FS_RemoveElement
  <2>5. QED
    BY <1>2, <2>3, <2>4, Counted, ThreadsAssumption
<1>4. CASE d # c
  <2>1. Own(d)' = Own(d)
    BY <1>1, <1>4, ThreadsAssumption DEF Own, In, Stored, TypeOK
  <2>2. Passed(d)' = Passed(d)
    BY <1>1, <1>4 DEF Passed, Heading, TypeOK
  <2>3. QED
    BY <1>2, <2>1, <2>2
<1>5. QED
  BY <1>3, <1>4

\* A thread starts with one message.
LEMMA StartKeeps ==
  ASSUME TypeOK, ChatInv, RequestInv, MessageInv, OverrunInv,
         NEW r \in Requests, NEW n \in Messages, NEW t \in Chats,
         StartThread(r, n, t)
  PROVE  OverrunInv'
<1> SUFFICES ASSUME NEW d \in Chats, level'[d] > 0
             PROVE  Cardinality(Own(d)') + Cardinality(Passed(d)')
                      <= MaxMessages + Cardinality(Requests) - 1
  BY DEF OverrunInv
<1>1. CASE d = t
  <2>1. Own(d)' \subseteq {n}
    <3>1. \A m \in Messages \ {n} : chat'[m] = chat[m]
      BY DEF StartThread, Insert, TypeOK
    <3>2. \A m \in Messages : chat[m] # d
      BY <1>1, ThreadsAssumption DEF StartThread, Stored, MessageInv
    <3>3. QED
      BY <3>1, <3>2 DEF Own, In
  <2>2. Passed(d)' = {}
    BY <1>1 DEF StartThread, Insert, Passed, Heading, RequestInv, TypeOK, Insertion
  <2>3. Cardinality(Own(d)') <= 1
    <3>1. IsFiniteSet({n}) /\ Cardinality({n}) = 1
      BY FS_Singleton
    <3>2. QED
      BY <2>1, <3>1, FS_Subset
  <2>4. Cardinality(Passed(d)') = 0
    BY <2>2, FS_EmptySet
  <2>5. Cardinality(Requests) >= 1
    BY ThreadsAssumption, FS_EmptySet, FS_CardinalityType
  <2>6. QED
    BY <2>3, <2>4, <2>5, Counted, CountedNext, ThreadsAssumption
<1>2. CASE d # t
  <2>1. Own(d)' = Own(d)
    BY <1>2, ThreadsAssumption DEF StartThread, Insert, Own, In, Stored, TypeOK
  <2>2. Passed(d)' \subseteq Passed(d)
    BY <1>2 DEF StartThread, Insert, Passed, Heading, TypeOK
  <2>3. level[d] > 0
    BY <1>2 DEF StartThread, TypeOK
  <2>4. Cardinality(Passed(d)') <= Cardinality(Passed(d))
    BY <2>2, Counted, FS_Subset
  <2>5. Cardinality(Own(d)) + Cardinality(Passed(d))
          <= MaxMessages + Cardinality(Requests) - 1
    BY <2>3 DEF OverrunInv
  <2>6. QED
    BY <2>1, <2>4, <2>5, Counted, CountedNext, ThreadsAssumption
<1>3. QED
  BY <1>1, <1>2

\* Every step keeps a thread and the requests that passed within the bound.
LEMMA OverrunStep ==
  ASSUME TypeOK, ChatInv, RequestInv, MessageInv, OverrunInv, [Next]_vars
  PROVE  OverrunInv'
<1> USE ThreadsAssumption
<1>1. ASSUME NEW c \in Chats, CreateChat(c)
      PROVE  OverrunInv'
  <2>1. UNCHANGED level /\ \A d \in Chats : Own(d)' = Own(d)
    BY <1>1 DEF CreateChat, Own, In, chatVars, messageVars
  <2>2. \A d \in Chats : Passed(d)' \subseteq Passed(d)
    BY <1>1 DEF CreateChat, Passed, Heading, TypeOK, Insertion
  <2>3. QED
    BY <2>1, <2>2, QuietStep
<1>2. ASSUME NEW c \in Chats, CloseChat(c)
      PROVE  OverrunInv'
  <2>1. UNCHANGED level /\ \A d \in Chats : Own(d)' = Own(d)
    BY <1>2 DEF CloseChat, Close, Closed, Own, In, chatVars, messageVars
  <2>2. \A d \in Chats : Passed(d)' \subseteq Passed(d)
    BY <1>2 DEF CloseChat, Close, Closed, Passed, Heading, TypeOK, Insertion
  <2>3. QED
    BY <2>1, <2>2, QuietStep
<1>3. ASSUME NEW r \in Requests, NEW c \in Chats, CheckSend(r, c)
      PROVE  OverrunInv'
  <2>1. \A d \in Chats \ {c} : Passed(d)' \subseteq Passed(d)
    BY <1>3 DEF CheckSend, Check, Passed, Heading, TypeOK, Insertion
  <2>2. QED
    BY <1>3, <2>1, PassStep DEF CheckSend, Check
<1>4. ASSUME NEW r \in Requests, NEW c \in Chats, EndCommand(r, c)
      PROVE  OverrunInv'
  <2>1. UNCHANGED level /\ \A d \in Chats : Own(d)' = Own(d)
    BY <1>4 DEF EndCommand, Close, Closed, Own, In, chatVars, messageVars
  <2>2. \A d \in Chats : Passed(d)' \subseteq Passed(d)
    BY <1>4 DEF EndCommand, Close, Closed, Passed, Heading, TypeOK, Insertion
  <2>3. QED
    BY <2>1, <2>2, QuietStep
<1>5. ASSUME NEW r \in Requests, NEW m \in Messages, CheckThread(r, m)
      PROVE  OverrunInv'
  <2>1. UNCHANGED level /\ \A d \in Chats : Own(d)' = Own(d)
    BY <1>5 DEF CheckThread, Check, Own, In, chatVars, messageVars
  <2>2. \A d \in Chats : Passed(d)' \subseteq Passed(d)
    BY <1>5 DEF CheckThread, Check, Passed, Heading, TypeOK, Insertion
  <2>3. QED
    BY <2>1, <2>2, QuietStep
<1>6. ASSUME NEW r \in Requests, NEW m \in Messages, CheckCopy(r, m)
      PROVE  OverrunInv'
  <2> DEFINE c == parent[chat[m]]
  <2>1. c \in Chats
    BY <1>6 DEF CheckCopy, Stored, TypeOK
  <2>2. \A d \in Chats \ {c} : Passed(d)' \subseteq Passed(d)
    BY <1>6 DEF CheckCopy, Check, Passed, Heading, TypeOK, Insertion
  <2>3. QED
    BY <1>6, <2>1, <2>2, PassStep DEF CheckCopy, Check
<1>7. ASSUME NEW r \in Requests, NEW c \in Chats, NEW m \in Messages,
             CheckShare(r, c, m)
      PROVE  OverrunInv'
  <2>1. UNCHANGED level /\ \A d \in Chats : Own(d)' = Own(d)
    BY <1>7 DEF CheckShare, Check, Own, In, chatVars, messageVars
  <2>2. \A d \in Chats : Passed(d)' \subseteq Passed(d)
    BY <1>7 DEF CheckShare, Check, Passed, Heading, TypeOK, Insertion
  <2>3. QED
    BY <2>1, <2>2, QuietStep
<1>8. ASSUME NEW r \in Requests, SendEnd(r)
      PROVE  OverrunInv'
  <2>1. CASE pending'[r] = None
    <3>1. \A d \in Chats : Own(d)' = Own(d) /\ Passed(d)' \subseteq Passed(d)
      BY <1>8, <2>1, EndSent DEF Own, In, Passed, Heading, messageVars
    <3>2. QED
      BY <1>8, <3>1, EndSent, QuietStep DEF chatVars
  <2>2. CASE pending'[r] # None
    <3> DEFINE c == pending[r].chat
    <3>1. c \in Chats /\ CanInsert(c)
      BY <1>8, <2>2, EndSent DEF TypeOK, Insertion
    <3>2. \A d \in Chats \ {c} : Passed(d)' \subseteq Passed(d)
      BY <1>8, <2>2, EndSent DEF Passed, Heading
    <3>3. QED
      BY <1>8, <3>1, <3>2, EndSent, PassStep
  <2>3. QED
    BY <2>1, <2>2
<1>9. ASSUME NEW r \in Requests, Stop(r)
      PROVE  OverrunInv'
  <2>1. UNCHANGED level /\ \A d \in Chats : Own(d)' = Own(d)
    BY <1>9 DEF Stop, Own, In, chatVars, messageVars
  <2>2. \A d \in Chats : Passed(d)' \subseteq Passed(d)
    BY <1>9 DEF Stop, Passed, Heading, TypeOK, Insertion
  <2>3. QED
    BY <2>1, <2>2, QuietStep
<1>10. ASSUME NEW r \in Requests, NEW n \in Messages, Send(r, n)
      PROVE  OverrunInv'
  BY <1>10, InsertKeeps DEF Send, Insert
<1>11. ASSUME NEW r \in Requests, NEW n \in Messages, PostToParent(r, n)
      PROVE  OverrunInv'
  BY <1>11, InsertKeeps DEF PostToParent, Insert
<1>12. ASSUME NEW r \in Requests, NEW n \in Messages, Share(r, n)
      PROVE  OverrunInv'
  <2>1. shareOf'[n] # None
    BY <1>12 DEF Share, Insert, RequestInv, MessageInv, ShareNamesOriginal, TypeOK
  <2>2. UNCHANGED level /\ \A d \in Chats : Own(d)' = Own(d)
    BY <1>12, <2>1 DEF Share, Insert, Own, In, Stored, chatVars, TypeOK
  <2>3. \A d \in Chats : Passed(d)' \subseteq Passed(d)
    BY <1>12 DEF Share, Insert, Passed, Heading, TypeOK
  <2>4. QED
    BY <2>2, <2>3, QuietStep
<1>13. ASSUME NEW r \in Requests, NEW n \in Messages, NEW t \in Chats,
             StartThread(r, n, t)
      PROVE  OverrunInv'
  BY <1>13, StartKeeps
<1>14. CASE UNCHANGED vars
  BY <1>14 DEF vars, OverrunInv, Own, In, Passed, Heading
<1>15. QED
  BY <1>1, <1>2, <1>3, <1>4, <1>5, <1>6, <1>7, <1>8, <1>9, <1>10, <1>11, <1>12,
     <1>13, <1>14
  DEF Next, ChatStep, CheckStep, InsertStep

\* Nothing exists at the start.
LEMMA InitInv ==
  Init => TypeOK /\ ChatInv /\ RequestInv /\ MessageInv /\ ClosedInv /\ OverrunInv
<1> USE ThreadsAssumption
<1> SUFFICES ASSUME Init
             PROVE  TypeOK /\ ChatInv /\ RequestInv /\ MessageInv /\ ClosedInv /\ OverrunInv
  OBVIOUS
<1>1. TypeOK /\ ChatInv /\ RequestInv
  <2>1. overtaken \in BOOLEAN
    BY Zenon DEF Init
  <2>2. QED
    BY <2>1 DEF Init, TypeOK, ChatInv, RequestInv
<1>2. MessageInv /\ ClosedInv /\ OverrunInv
  BY DEF Init, MessageInv, CopyBesideThread, ShareNamesOriginal, Stored, ClosedInv,
         WholeTree, OverrunInv
<1>3. QED
  BY <1>1, <1>2

-----------------------------------------------------------------------------
(* The way up.                                                             *)

\* Induction on numbers, in the form the provers can use: a nonempty set of them
\* has a least element.
LEMMA LeastNumber ==
  ASSUME NEW S \in SUBSET Nat, S # {}
  PROVE  \E n \in S : \A m \in S : n <= m
<1> DEFINE R == OpToRel(<, Nat)
<1>1. IsWellFoundedOn(R, Nat)
  BY NatLessThanWellFounded
<1>2. \A x, y \in Nat : x < y => <<x, y>> \in R
  BY DEF OpToRel
<1> HIDE DEF R
<1>3. \E n \in S : \A m \in S : <<m, n>> \notin R
  BY <1>1, WFMin
<1>4. PICK n \in S : \A m \in S : <<m, n>> \notin R
  BY <1>3
<1>5. ASSUME NEW m \in S
      PROVE  n <= m
  <2>1. ~(m < n)
    BY <1>2, <1>4
  <2>2. QED
    BY <2>1
<1>6. QED
  BY <1>5

\* The recursive definition of the way up has a solution, for any number of steps.
LEMMA WayExists ==
  ASSUME NEW c, NEW n \in Nat
  PROVE  \E f : f = [i \in 0..n |-> IF i = 0 THEN c ELSE Above(f[i - 1])]
<1> DEFINE IsWay(f, k) == f = [i \in 0..k |-> IF i = 0 THEN c ELSE Above(f[i - 1])]
           Bad == {k \in Nat : ~ \E f : IsWay(f, k)}
<1>1. ASSUME Bad # {}
      PROVE  FALSE
  <2>1. PICK k \in Bad : \A m \in Bad : k <= m
    BY <1>1, LeastNumber
  <2>2. CASE k = 0
    <3>1. IsWay([i \in 0..0 |-> c], 0)
      OBVIOUS
    <3>2. QED
      BY <2>1, <2>2, <3>1
  <2>3. CASE k # 0
    <3>1. k - 1 \in Nat /\ k - 1 \notin Bad
      BY <2>1, <2>3
    <3>2. PICK f : IsWay(f, k - 1)
      BY <3>1
    <3> DEFINE g == [i \in 0..k |-> IF i = k THEN Above(f[k - 1]) ELSE f[i]]
    <3>3. \A i \in 0..k : g[i] = IF i = 0 THEN c ELSE Above(g[i - 1])
      <4>1. TAKE i \in 0..k
      <4>2. \A j \in 0..(k - 1) : f[j] = IF j = 0 THEN c ELSE Above(f[j - 1])
        BY <3>2
      <4>3. CASE i = k
        <5>1. g[i] = Above(f[k - 1]) /\ g[k - 1] = f[k - 1]
          BY <3>1, <4>3
        <5>2. QED
          BY <2>3, <4>3, <5>1
      <4>4. CASE i # k
        <5>1. i \in 0..(k - 1) /\ g[i] = f[i] /\ (i # 0 => g[i - 1] = f[i - 1])
          BY <4>4
        <5>2. QED
          BY <4>2, <5>1
      <4>5. QED
        BY <4>3, <4>4
    <3>4. IsWay(g, k)
      BY <3>3
    <3>5. QED
      BY <2>1, <3>4
  <2>4. QED
    BY <2>2, <2>3
<1>2. QED
  BY <1>1

LEMMA WayUp ==
  ASSUME NEW c
  PROVE  \A i \in 0..MaxLevel : Way(c)[i] = IF i = 0 THEN c ELSE Above(Way(c)[i - 1])
<1>1. Way(c) = [i \in 0..MaxLevel |-> IF i = 0 THEN c ELSE Above(Way(c)[i - 1])]
  BY WayExists, ThreadsAssumption DEF Way
<1>2. QED
  BY <1>1

\* Each step of the way stays in the tree of c and goes up one level until it is at
\* its root.
LEMMA WayClimbs ==
  ASSUME TypeOK, ChatInv, NEW c \in Chats, state[c] # "none", NEW i \in 0..MaxLevel
  PROVE  /\ Way(c)[i] \in Chats
         /\ state[Way(c)[i]] # "none"
         /\ root[Way(c)[i]] = root[c]
         /\ IsRoot(Way(c)[i]) \/ level[Way(c)[i]] + i = level[c]
<1> USE ThreadsAssumption
<1> DEFINE Climbs(k) == /\ Way(c)[k] \in Chats
                        /\ state[Way(c)[k]] # "none"
                        /\ root[Way(c)[k]] = root[c]
                        /\ IsRoot(Way(c)[k]) \/ level[Way(c)[k]] + k = level[c]
           Bad == {k \in 0..MaxLevel : ~Climbs(k)}
<1>1. ASSUME Bad # {}
      PROVE  FALSE
  <2>1. PICK k \in Bad : \A m \in Bad : k <= m
    <3>1. Bad \in SUBSET Nat
      OBVIOUS
    <3> HIDE DEF Bad
    <3>2. QED
      BY <1>1, <3>1, LeastNumber
  <2>2. CASE k = 0
    <3>1. Way(c)[0] = c
      BY WayUp
    <3>2. Climbs(0)
      BY <3>1 DEF TypeOK
    <3>3. QED
      BY <2>1, <2>2, <3>2
  <2>3. CASE k # 0
    <3>1. k - 1 \in 0..MaxLevel /\ Climbs(k - 1)
      BY <2>1, <2>3
    <3>2. Way(c)[k] = Above(Way(c)[k - 1])
      BY <2>3, WayUp
    <3>3. Climbs(k)
      BY <3>1, <3>2 DEF Above, IsRoot, TypeOK, ChatInv
    <3>4. QED
      BY <2>1, <3>3
  <2>4. QED
    BY <2>2, <2>3
<1>2. QED
  BY <1>1

\* MaxLevel steps lead from anywhere to the root of the tree.
LEMMA SessionFoundInv ==
  ASSUME TypeOK, ChatInv
  PROVE  SessionFound
<1> USE ThreadsAssumption
<1> SUFFICES ASSUME NEW c \in Chats, state[c] # "none"
             PROVE  Lookup(c) = root[c]
  BY DEF SessionFound
<1> DEFINE top == Way(c)[MaxLevel]
<1>1. /\ top \in Chats /\ state[top] # "none" /\ root[top] = root[c]
      /\ IsRoot(top) \/ level[top] + MaxLevel = level[c]
  BY WayClimbs
<1>2. IsRoot(top)
  BY <1>1 DEF IsRoot, TypeOK, ChatInv
<1>3. QED
  BY <1>1, <1>2 DEF Lookup

-----------------------------------------------------------------------------
(* Theorems.                                                               *)

\* Types, the depth of the tree of threads, and what each request relies on.
THEOREM TypeCorrect == Spec => [](TypeOK /\ ChatInv /\ RequestInv /\ MessageInv)
<1>1. /\ TypeOK /\ ChatInv /\ RequestInv /\ MessageInv
      /\ [Next]_vars
      => (TypeOK /\ ChatInv /\ RequestInv /\ MessageInv)'
  BY TypeStep, ChatStepInv, RequestStep, MessageStep
<1>2. QED
  BY InitInv, <1>1, PTL DEF Spec

\* A copy posted to the parent stands beside the message its thread started
\* from (messages.rs, post_to_parent), whatever races.
THEOREM CopyBesideThreadCorrect == Spec => []CopyBesideThread
<1>1. MessageInv => CopyBesideThread
  BY DEF MessageInv
<1>2. QED
  BY TypeCorrect, <1>1, PTL

\* A shared copy names the first original, however often it is shared
\* (messages.rs, share_message), whatever races.
THEOREM ShareNamesOriginalCorrect == Spec => []ShareNamesOriginal
<1>1. MessageInv => ShareNamesOriginal
  BY DEF MessageInv
<1>2. QED
  BY TypeCorrect, <1>1, PTL

\* The session of every chat is the one of its root and found within the bound of the
\* walk (chats.rs, root_workstation_id), at every level that a thread can have.
THEOREM SessionFoundCorrect == Spec => []SessionFound
BY TypeCorrect, SessionFoundInv, PTL

\* As long as no closing overtook a thread between its checks and its INSERT,
\* a closed root chat has no open thread (chats.rs, close_chat).
THEOREM ClosedTreeCorrect == Spec => []ClosedTree
<1>1. TypeOK /\ ChatInv /\ RequestInv /\ ClosedInv /\ [Next]_vars => ClosedInv'
  BY ClosedStep
<1>2. ClosedInv => ClosedTree
  BY DEF ClosedInv, ClosedTree, WholeTree
<1>3. QED
  BY InitInv, TypeCorrect, <1>1, <1>2, PTL DEF Spec

\* Shared copies aside, a thread has at most MaxMessages messages and one more
\* for every other request that runs at the time (messages.rs, thread_full).
THEOREM OverrunBoundedCorrect == Spec => []OverrunBounded
<1>1. TypeOK /\ ChatInv /\ RequestInv /\ MessageInv /\ OverrunInv /\ [Next]_vars
      => OverrunInv'
  BY OverrunStep
<1>2. OverrunInv => OverrunBounded
  BY Counted, ThreadsAssumption DEF OverrunInv, OverrunBounded
<1>3. QED
  BY InitInv, TypeCorrect, <1>1, <1>2, PTL DEF Spec
=============================================================================
