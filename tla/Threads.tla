------------------------------ MODULE Threads ------------------------------
(***************************************************************************)
(* Chats, threads and messages (chat/chats.rs, chat/messages.rs and the    *)
(* handlers of server.rs that call them; the agent runtime calls the same  *)
(* functions on the same database).                                        *)
(*                                                                         *)
(* Every insertion is a check followed, in another statement, by the       *)
(* INSERT; other requests interleave and a request may die in between.     *)
(* overtaken records that a chat was closed in between.                    *)
(* Rights of users only refuse requests, which then change nothing; who is *)
(* allowed is left open.                                                   *)
(***************************************************************************)
EXTENDS Integers, FiniteSets

CONSTANTS
  Chats, Messages, Requests,
  MaxLevel,     \* max_chat_level()
  MaxMessages,  \* max_thread_messages()
  None

ASSUME ThreadsAssumption ==
  /\ MaxLevel \in Nat \ {0} /\ MaxMessages \in Nat \ {0}
  /\ None \notin Chats \cup Messages
  /\ IsFiniteSet(Messages) /\ IsFiniteSet(Requests)

VARIABLES
  state, root, parent, level, start,  \* the columns of chats
  chat, threadOf, shareOf,            \* the columns of messages
  pending,   \* what a request has checked and not yet inserted
  overtaken  \* history: a chat was closed for which a thread had passed its checks

chatVars    == <<state, root, parent, level, start>>
messageVars == <<chat, threadOf, shareOf>>
vars == <<state, root, parent, level, start, chat, threadOf, shareOf, pending,
          overtaken>>

\* What a request is about to insert into a chat, from which message.
Insertion == [op : {"send", "thread", "copy", "share", "end"},
              chat : Chats, source : Messages \cup {None}]

In(c) == {m \in Messages : chat[m] = c}

Stored(m) == chat[m] # None

FullLate(c) == level[c] > 0 /\ Cardinality(In(c)) > MaxMessages   \* faulty variant

\* thread_full: chats of level 0 are not limited.
Full(c) == level[c] > 0 /\ Cardinality(In(c)) >= MaxMessages

CanInsert(c) == state[c] = "OPEN" /\ ~Full(c)

ClosedAlone(c) == {c}                                              \* faulty variant

\* The chats that close_chat closes with c.
Closed(c) == IF root[c] = c THEN {d \in Chats : root[d] = c} ELSE {c}

\* root_workstation_id and project_id_for_chat: at most MaxLevel + 1 chats are
\* read on the way up; the session is the one of the root of the last.
IsRoot(c) == parent[c] = None \/ root[c] = c

\* The way up from c; a root stays where it is.
Above(c) == IF IsRoot(c) THEN c ELSE parent[c]
Way(c) == LET up[i \in 0..MaxLevel] == IF i = 0 THEN c ELSE Above(up[i - 1]) IN up

LookupShort(c) ==                       \* faulty variant: one chat too few
  LET top == Way(c)[MaxLevel - 1] IN IF IsRoot(top) THEN root[top] ELSE None

Lookup(c) ==
  LET top == Way(c)[MaxLevel] IN IF IsRoot(top) THEN root[top] ELSE None

\* Request q has passed its checks and not yet inserted into a chat of D.
Heading(q, D) == pending[q] # None /\ pending[q].chat \in D

-----------------------------------------------------------------------------
CreateChat(c) ==
  /\ state[c] = "none"
  /\ state' = [state EXCEPT ![c] = "OPEN"]
  /\ root' = [root EXCEPT ![c] = c]
  /\ UNCHANGED <<parent, level, start, messageVars, pending, overtaken>>

\* A request that passed its checks will insert into c.
Check(r, op, c, m) ==
  /\ pending[r] = None
  /\ pending' = [pending EXCEPT ![r] = [op |-> op, chat |-> c, source |-> m]]
  /\ UNCHANGED <<chatVars, messageVars, overtaken>>

CheckSend(r, c) == CanInsert(c) /\ Check(r, "send", c, None)

CheckThread(r, m) ==
  /\ Stored(m)
  /\ state[chat[m]] = "OPEN" /\ level[chat[m]] + 1 <= MaxLevel
  /\ Check(r, "thread", chat[m], m)

CheckCopyToRoot(r, m) ==                \* faulty variant: the root instead of the parent
  /\ Stored(m)
  /\ parent[chat[m]] # None /\ start[chat[m]] # None
  /\ CanInsert(root[chat[m]])
  /\ Check(r, "copy", root[chat[m]], m)

\* A chat without a start message is no thread: it has no parent either.
CheckCopy(r, m) ==
  /\ Stored(m)
  /\ parent[chat[m]] # None /\ start[chat[m]] # None
  /\ CanInsert(parent[chat[m]])
  /\ Check(r, "copy", parent[chat[m]], m)

\* share_message does not ask thread_full.
CheckShare(r, c, m) ==
  /\ Stored(m) /\ state[c] = "OPEN" /\ c # chat[m]
  /\ Check(r, "share", c, m)

-----------------------------------------------------------------------------
\* The INSERT of request r creates message n.
Insert(r, op, n) ==
  /\ pending[r] # None /\ pending[r].op = op /\ ~Stored(n)
  /\ pending' = [pending EXCEPT ![r] = None]

Send(r, n) ==
  /\ Insert(r, "send", n)
  /\ chat' = [chat EXCEPT ![n] = pending[r].chat]
  /\ UNCHANGED <<chatVars, threadOf, shareOf, overtaken>>

\* The thread and its first message, in one transaction.
StartThread(r, n, t) ==
  /\ Insert(r, "thread", n) /\ state[t] = "none"
  /\ LET c == pending[r].chat IN
       /\ root' = [root EXCEPT ![t] = root[c]]
       /\ parent' = [parent EXCEPT ![t] = c]
       /\ level' = [level EXCEPT ![t] = level[c] + 1]
  /\ state' = [state EXCEPT ![t] = "OPEN"]
  /\ start' = [start EXCEPT ![t] = pending[r].source]
  /\ chat' = [chat EXCEPT ![n] = t]
  /\ UNCHANGED <<threadOf, shareOf, overtaken>>

PostToParent(r, n) ==
  /\ Insert(r, "copy", n)
  /\ chat' = [chat EXCEPT ![n] = pending[r].chat]
  /\ threadOf' = [threadOf EXCEPT ![n] = start[chat[pending[r].source]]]
  /\ UNCHANGED <<chatVars, shareOf, overtaken>>

Share(r, n) ==
  /\ Insert(r, "share", n)
  /\ chat' = [chat EXCEPT ![n] = pending[r].chat]
  /\ LET m == pending[r].source IN
       shareOf' = [shareOf EXCEPT ![n] = IF shareOf[m] = None THEN m ELSE shareOf[m]]
  /\ UNCHANGED <<chatVars, threadOf, overtaken>>

-----------------------------------------------------------------------------
Close(c) ==
  /\ state[c] # "none"
  /\ state' = [d \in Chats |-> IF d \in Closed(c) THEN "CLOSED" ELSE state[d]]
  /\ overtaken' = (overtaken \/ \E q \in Requests : Heading(q, Closed(c))
                                                 /\ pending[q].op = "thread")
  /\ UNCHANGED <<root, parent, level, start, messageVars>>

CloseChat(c) == Close(c) /\ UNCHANGED pending

\* "#end" of an owner: the chat is closed, then the message is to be sent.
EndCommand(r, c) ==
  /\ pending[r] = None
  /\ Close(c)
  /\ pending' = [pending EXCEPT ![r] = [op |-> "end", chat |-> c, source |-> None]]

SendEnd(r) ==
  /\ pending[r] # None /\ pending[r].op = "end"
  /\ pending' = [pending EXCEPT ![r] =
       IF CanInsert(@.chat) THEN [@ EXCEPT !.op = "send"] ELSE None]
  /\ UNCHANGED <<chatVars, messageVars, overtaken>>

\* The request dies: the process, the connection or a failed statement.
Stop(r) ==
  /\ pending[r] # None
  /\ pending' = [pending EXCEPT ![r] = None]
  /\ UNCHANGED <<chatVars, messageVars, overtaken>>

Init ==
  /\ state = [c \in Chats |-> "none"]
  /\ root = [c \in Chats |-> None]
  /\ parent = [c \in Chats |-> None]
  /\ level = [c \in Chats |-> 0]
  /\ start = [c \in Chats |-> None]
  /\ chat = [m \in Messages |-> None]
  /\ threadOf = [m \in Messages |-> None]
  /\ shareOf = [m \in Messages |-> None]
  /\ pending = [r \in Requests |-> None]
  /\ overtaken = FALSE

ChatStep(c) == CreateChat(c) \/ CloseChat(c)

CheckStep(r) ==
  \/ \E c \in Chats : CheckSend(r, c) \/ EndCommand(r, c)
  \/ \E m \in Messages : CheckThread(r, m) \/ CheckCopy(r, m)
  \/ \E c \in Chats, m \in Messages : CheckShare(r, c, m)
  \/ SendEnd(r) \/ Stop(r)

InsertStep(r, n) ==
  \/ Send(r, n) \/ PostToParent(r, n) \/ Share(r, n)
  \/ \E t \in Chats : StartThread(r, n, t)

Next == \/ \E c \in Chats : ChatStep(c)
        \/ \E r \in Requests : CheckStep(r)
        \/ \E r \in Requests, n \in Messages : InsertStep(r, n)

Spec == Init /\ [][Next]_vars

-----------------------------------------------------------------------------
(* Properties.                                                             *)

TypeOK ==
  /\ state \in [Chats -> {"none", "OPEN", "CLOSED"}]
  /\ root \in [Chats -> Chats \cup {None}]
  /\ parent \in [Chats -> Chats \cup {None}]
  /\ level \in [Chats -> 0..MaxLevel]
  /\ start \in [Chats -> Messages \cup {None}]
  /\ chat \in [Messages -> Chats \cup {None}]
  /\ threadOf \in [Messages -> Messages \cup {None}]
  /\ shareOf \in [Messages -> Messages \cup {None}]
  /\ pending \in [Requests -> Insertion \cup {None}]
  /\ overtaken \in BOOLEAN

\* The session of every chat is found on the bounded way up its parents, and it
\* is the one whose closing closes the chat (root_id): a thread of the deepest
\* level still has its workstation and its project.
SessionFound == \A c \in Chats : state[c] # "none" => Lookup(c) = root[c]

\* A copy posted to the parent stands beside the message its thread started
\* from, where the page of the parent draws the thread.
CopyBesideThread ==
  \A m \in Messages : threadOf[m] # None => Stored(m) /\ chat[threadOf[m]] = chat[m]

\* However often it is shared, a copy names the first original, which is none
\* itself (comment at share_message).
ShareNamesOriginal ==
  \A m \in Messages : shareOf[m] # None =>
    Stored(shareOf[m]) /\ shareOf[shareOf[m]] = None

\* Closing a root chat "closes the whole tree" (comment above add_artifact): no
\* thread of it is open, whatever is closed and started again, unless a closing
\* overtook a thread between its checks and its INSERT.
ClosedTree ==
  ~overtaken => \A c \in Chats : state[c] = "OPEN" => state[root[c]] = "OPEN"

\* The same without the proviso.
WholeTree == \A c \in Chats : state[c] = "OPEN" => state[root[c]] = "OPEN"

Own(c) == {m \in In(c) : shareOf[m] = None}

\* A thread exceeds its limit by less than the insertions that run at a time,
\* shared copies aside.
OverrunBounded ==
  \A c \in Chats : level[c] > 0 =>
    Cardinality(Own(c)) <= MaxMessages + Cardinality(Requests) - 1

\* The limit "of messages in one thread" (comment in types.rs), of which shared
\* copies are messages, too.
ThreadLimit == \A c \in Chats : level[c] > 0 => Cardinality(In(c)) <= MaxMessages

-----------------------------------------------------------------------------
(* What the proofs need besides the properties.                            *)

\* Chats form trees: a thread hangs one level below the chat of its message.
ChatInv ==
  \A c \in Chats :
    /\ state[c] = "none" => level[c] = 0 /\ parent[c] = None
    /\ state[c] # "none" => /\ root[c] \in Chats /\ state[root[c]] # "none"
                           /\ root[root[c]] = root[c]
    /\ parent[c] # None => /\ state[c] # "none" /\ state[parent[c]] # "none"
                           /\ root[parent[c]] = root[c]
                           /\ level[c] = level[parent[c]] + 1
                           /\ start[c] \in Messages /\ chat[start[c]] = parent[c]

\* What a request found when it checked and no later step changes.
RequestInv ==
  \A r \in Requests : pending[r] # None =>
    LET p == pending[r] IN
      /\ state[p.chat] # "none"
      /\ p.op = "thread" => /\ p.source \in Messages /\ chat[p.source] = p.chat
                            /\ level[p.chat] + 1 <= MaxLevel
      /\ p.op = "copy" => /\ p.source \in Messages /\ Stored(p.source)
                          /\ parent[chat[p.source]] = p.chat
      /\ p.op = "share" => p.source \in Messages /\ Stored(p.source)

MessageInv ==
  /\ CopyBesideThread /\ ShareNamesOriginal
  /\ \A m \in Messages :
       /\ Stored(m) => state[chat[m]] # "none"
       /\ ~Stored(m) => threadOf[m] = None /\ shareOf[m] = None

\* Unless it was overtaken the chat of a thread is still open at the INSERT.
ClosedInv ==
  ~overtaken =>
    /\ WholeTree
    /\ \A r \in Requests :
         pending[r] # None /\ pending[r].op = "thread" => state[pending[r].chat] = "OPEN"

\* Requests that passed thread_full of c.
Passed(c) == {r \in Requests : Heading(r, {c}) /\ pending[r].op \in {"send", "copy"}}

OverrunInv ==
  \A c \in Chats : level[c] > 0 =>
    Cardinality(Own(c)) + Cardinality(Passed(c)) <= MaxMessages + Cardinality(Requests) - 1
=============================================================================
