------------------------------- MODULE Access --------------------------------
(***************************************************************************)
(* Who may do what: keys that tokens are verified with (main.rs), accounts *)
(* made and updated by the requests themselves (auth.rs), participants and *)
(* rights in a chat, and the commands #invite, #kick and #end, which act   *)
(* before the message that holds them is sent (server.rs).                 *)
(*                                                                         *)
(* Every query of a handler is a step, and the handler may end before each *)
(* of them: it answers an error when a query fails whose result it needs.  *)
(* The chat is a root chat; accounts have ids in the order they were made: *)
(* Anonymous, Agent, people.                                               *)
(***************************************************************************)
EXTENDS Integers, FiniteSets, FiniteSetsExt

CONSTANTS
  Subjects,     \* sub of tokens
  Requests,     \* requests under way at the same time
  MaxUsers,     \* bound on accounts
  MaxAttempts,  \* ATTEMPTS to load the keys
  MaxEvents,    \* bound on requests, new signing keys, failed readings of them, failed queries
  Unset

ASSUME AccessAssumption ==
  /\ MaxUsers \in Nat /\ MaxUsers >= 3  \* Anonymous, Agent and a person
  /\ MaxAttempts \in Nat \ {0} /\ MaxEvents \in Nat
  /\ Unset \notin Subjects \cup Nat \cup {"ok", "forbidden"}
  /\ \A keys \in SUBSET (1..MaxEvents + 1) : Unset # keys

VARIABLES
  sso,       \* is SSO on, with an address of the keys?
  server,    \* "starting", "up", or "failed"
  current,   \* signing key of Keycloak: keys are numbered as they are made
  verifier,  \* keys of sso_verifier; None is no verifier
  attempts, faults,
  subject,   \* subject[i]: sso_subject of account i
  super,     \* accounts with is_super_user
  chat, owner, members,  \* state, created_by_id and participants of the chat
  req,       \* the requests
  arrivals,
  joined,    \* history: accounts that have been participants
  together   \* history: subjects of which two requests found no account

keyVars  == <<sso, server, current, verifier, attempts, faults>>
userVars == <<subject, super>>
chatVars == <<chat, owner, members, joined>>
accessVars == <<keyVars, userVars, chatVars, req, arrivals, together>>

Anonymous == 1
Agent == 2
Ids == 1..MaxUsers

\* Accounts are rows of one table; a query for one of several finds the first.
Accounts(s) == {i \in Ids : subject[i] = s}
Account(s) == IF Accounts(s) = {} THEN Unset ELSE Min(Accounts(s))
Free == {i \in Ids : i > Agent /\ subject[i] = Unset}
Registered == {Anonymous, Agent} \cup {i \in Ids : subject[i] # Unset}

Idle == [at |-> "idle", op |-> "say", who |-> Unset, admin |-> FALSE, user |-> Unset,
         target |-> Unset, invited |-> Unset, reply |-> Unset,
         made |-> FALSE, crossed |-> FALSE, blind |-> FALSE, did |-> {}]

-----------------------------------------------------------------------------
(* Keys.                                                                   *)

Fault == faults + arrivals < MaxEvents /\ faults' = faults + 1

\* The realm is imported again: tokens are signed by a new key.
NewKey ==
  /\ Fault /\ current' = current + 1
  /\ UNCHANGED <<sso, server, verifier, attempts, userVars, chatVars, req, arrivals, together>>

\* One attempt of main: the keys; no connection; an error page, of which fetch_jwks does
\* not look at the status: JSON without keys is taken for the keys, anything else ends
\* the process.
FetchKeys ==
  /\ server = "starting"
  /\ \/ verifier' = {current} /\ server' = "up" /\ UNCHANGED <<attempts, faults>>
     \/ Fault /\ verifier' = {} /\ server' = "up" /\ UNCHANGED attempts
     \/ Fault /\ server' = "failed" /\ UNCHANGED <<attempts, verifier>>
     \/ /\ Fault /\ attempts' = attempts + 1
        /\ server' = IF attempts' = MaxAttempts THEN "failed" ELSE server
        /\ UNCHANGED verifier
  /\ UNCHANGED <<sso, current, userVars, chatVars, req, arrivals, together>>

RefreshOnlyOnce ==              \* faulty variant: a failure ends the loop
  /\ server = "up" /\ verifier # Unset
  /\ faults = 0 /\ verifier' = {current}
  /\ UNCHANGED <<sso, server, current, attempts, faults, userVars, chatVars, req,
                 arrivals, together>>

\* refresh_jwks_loop; a failure that is not JSON changes nothing.
RefreshKeys ==
  /\ server = "up" /\ verifier # Unset
  /\ verifier' = {current}
  /\ UNCHANGED <<sso, server, current, attempts, faults, userVars, chatVars, req,
                 arrivals, together>>

RefreshFails ==
  /\ server = "up" /\ verifier # Unset
  /\ Fault /\ verifier' \in {{}, verifier}
  /\ UNCHANGED <<sso, server, current, attempts, userVars, chatVars, req, arrivals, together>>

-----------------------------------------------------------------------------
(* The account of a request.                                               *)

At(r, pc) == req[r].at = pc

Goes(r, now) == req' = [req EXCEPT ![r] = now]

\* Where a handler goes when it knows its user, and when can_write allowed it.
Entry(op) ==
  IF op = "remove" THEN "rights" ELSE "super"
Allowed(op) ==
  CASE op = "say" -> "send" [] op \in {"invite", "add"} -> "adding" [] OTHER -> "rights"

NewAccount(now) ==              \* faulty variant: does not look for the account
  [now EXCEPT !.at = "insert"]

\* find_user_by_sso.
Find(now) ==
  LET a == Account(now.who) IN
  [now EXCEPT !.at = IF a = Unset THEN "insert" ELSE "role", !.user = a]

\* Another request of the subject has found no account and is about to insert one.
Inserting(s) == Account(s) = Unset /\ \E q \in Requests : At(q, "insert") /\ req[q].who = s

\* A request with a token of subject s, whose role may have changed while older tokens
\* are valid.  Without a verifier the token is not looked at; a token signed by a key the
\* verifier does not have is refused.  The verifier is locked until the account is found.
Arrive(r, s, op) ==
  /\ server = "up" /\ req[r].at \in {"idle", "done"} /\ faults + arrivals < MaxEvents
  /\ arrivals' = arrivals + 1
  /\ LET new == [Idle EXCEPT !.op = op] IN
     IF verifier = Unset
       THEN /\ Goes(r, [new EXCEPT !.at = Entry(op), !.user = Anonymous, !.admin = TRUE])
            /\ UNCHANGED together
       ELSE \/ /\ \E k \in 1..current : k \notin verifier
               /\ Goes(r, [Idle EXCEPT !.at = "done", !.reply = "unauthorized"])
               /\ UNCHANGED together
            \/ /\ verifier # {}
               /\ \E adm \in BOOLEAN : Goes(r, Find([new EXCEPT !.who = s, !.admin = adm]))
               /\ together' = IF Inserting(s) THEN together \cup {s} ELSE together
  /\ UNCHANGED <<keyVars, userVars, chatVars>>

\* insert_user; sso_subject is not UNIQUE.
InsertUser(r) ==
  /\ At(r, "insert") /\ Free # {}
  /\ LET i == Min(Free) IN
     /\ subject' = [subject EXCEPT ![i] = req[r].who]
     /\ super' = IF req[r].admin THEN super \cup {i} ELSE super
     /\ Goes(r, [req[r] EXCEPT !.at = Entry(req[r].op), !.user = i, !.made = TRUE])
  /\ UNCHANGED <<keyVars, chatVars, arrivals, together>>

\* The requests with the account i now find another role than that of their token.
Crossed(r, i, adm) ==
  [q \in Requests |->
     IF q # r /\ req[q].user = i /\ req[q].admin # adm /\ ~At(q, "role")
       THEN [req[q] EXCEPT !.crossed = TRUE] ELSE req[q]]

RaiseOnly(r) ==                 \* faulty variant: a role that was taken away stays
  /\ At(r, "role")
  /\ super' = IF req[r].admin THEN super \cup {req[r].user} ELSE super
  /\ req' = [Crossed(r, req[r].user, req[r].admin) EXCEPT ![r].at = Entry(req[r].op)]
  /\ UNCHANGED <<keyVars, subject, chatVars, arrivals, together>>

\* set_super_user; its failure is ignored.  So is that of update_user_name: see Named.
SetRole(r) ==
  /\ At(r, "role")
  /\ LET i == req[r].user  adm == req[r].admin IN
     \/ /\ super' = IF adm THEN super \cup {i} ELSE super \ {i}
        /\ req' = [Crossed(r, i, adm) EXCEPT ![r].at = Entry(req[r].op)]
     \/ /\ Goes(r, [req[r] EXCEPT !.at = Entry(req[r].op), !.crossed = (i \in super) # adm])
        /\ UNCHANGED super
  /\ UNCHANGED <<keyVars, subject, chatVars, arrivals, together>>

-----------------------------------------------------------------------------
(* Handlers.                                                               *)

Unchanged == UNCHANGED <<keyVars, userVars, arrivals, together>>

\* The answer is sent; what the request was about is forgotten.
Finished(now, answer) ==
  [now EXCEPT !.at = "done", !.reply = answer, !.who = Unset, !.target = Unset, !.made = FALSE,
              !.blind = IF answer = "forbidden" THEN @ ELSE FALSE]
Done(r, answer) == Finished(req[r], answer)

\* A query about a right, which goes on with yes or with no.  unwrap_or(false): one that
\* fails has the answer no, whatever holds.
Query(r, holds, yes, no) ==
  /\ \/ Goes(r, IF holds THEN yes ELSE no) /\ UNCHANGED faults
     \/ holds /\ Fault /\ Goes(r, [no EXCEPT !.blind = TRUE])
  /\ UNCHANGED <<sso, server, current, verifier, attempts, userVars, chatVars, arrivals, together>>

\* can_write: super-users always may,
CheckSuper(r) ==
  /\ At(r, "super")
  /\ Query(r, req[r].user \in super,
           [req[r] EXCEPT !.at = Allowed(req[r].op)], [req[r] EXCEPT !.at = "open"])

\* ... others when the chat is open
CheckOpen(r) ==
  /\ At(r, "open")
  /\ Query(r, chat = "OPEN", [req[r] EXCEPT !.at = "member"], Done(r, "forbidden"))

\* ... and they take part in it.
CheckMember(r) ==
  /\ At(r, "member")
  /\ Query(r, req[r].user \in members,
           [req[r] EXCEPT !.at = Allowed(req[r].op)], Done(r, "forbidden"))

\* Whom a request is about: #invite and #kick give a name, which any account may have or
\* none has, for names are not unique and update_user_name changes them at any time; the
\* requests about participants give the id of an account; a run makes its agent one.
Named(op) ==
  IF op = "run" THEN {Agent}
  ELSE Registered \cup IF op = "add" THEN {} ELSE {Unset}

\* #invite and add_participant: is the chat open?  The answer is not used: a name that
\* was not added is listed, and the handler replies OK.
CheckAdd(r) ==
  /\ At(r, "adding")
  /\ \E t \in Named(req[r].op) :
     Goes(r, IF t # Unset /\ chat = "OPEN"
               THEN [req[r] EXCEPT !.at = "insertp", !.target = t]
               ELSE IF req[r].op = "invite"
                      THEN [req[r] EXCEPT !.at = "send", !.invited = t]
                      ELSE Done(r, "ok"))
  /\ UNCHANGED chatVars /\ Unchanged

AddParticipant(r) ==
  /\ At(r, "insertp")
  /\ members' = members \cup {req[r].target} /\ joined' = joined \cup {req[r].target}
  /\ LET now == [req[r] EXCEPT !.did = @ \cup {"added"}] IN
     Goes(r, IF req[r].op = "invite"
               THEN [now EXCEPT !.at = "send", !.invited = req[r].target]
               ELSE Finished(now, "ok"))
  /\ UNCHANGED <<chat, owner>> /\ Unchanged

\* #kick, #end and remove_participant: is_super_user, then is_owner of an owner who
\* never changes; each of both may fail.
CheckRights(r) ==
  /\ At(r, "rights")
  /\ Query(r, req[r].user \in super \cup {owner}, [req[r] EXCEPT !.at = "effect"],
           IF req[r].op = "remove" THEN Done(r, "forbidden") ELSE [req[r] EXCEPT !.at = "send"])

RemoveParticipant(r) ==
  /\ At(r, "effect") /\ req[r].op \in {"kick", "remove"}
  /\ \E t \in Named(req[r].op) : members' = members \ {t}
  /\ LET gone == members' # members
         now == [req[r] EXCEPT !.did = IF gone THEN {"removed"} ELSE {}] IN
     Goes(r, IF req[r].op = "kick" THEN [now EXCEPT !.at = "send"]
             ELSE Finished(now, IF gone THEN "ok" ELSE "notFound"))
  /\ UNCHANGED <<chat, owner, joined>> /\ Unchanged

End(r) ==
  /\ At(r, "effect") /\ req[r].op = "end"
  /\ chat' = "CLOSED"
  /\ Goes(r, [req[r] EXCEPT !.at = "send", !.did = IF chat' # chat THEN {"ended"} ELSE {}])
  /\ UNCHANGED <<owner, members, joined>> /\ Unchanged

\* insert_message looks at the state of the chat, not at the participants,
CheckSend(r) ==
  /\ At(r, "send")
  /\ Goes(r, IF chat = "OPEN" THEN [req[r] EXCEPT !.at = "write"] ELSE Done(r, "badRequest"))
  /\ UNCHANGED chatVars /\ Unchanged

\* ... and inserts the message.
Write(r) ==
  /\ At(r, "write")
  /\ Goes(r, Finished([req[r] EXCEPT !.did = @ \cup {"said"}], "ok"))
  /\ UNCHANGED chatVars /\ Unchanged

\* A run of an agent makes its account a participant: ensure_participant.
StartRun(r) ==
  /\ server = "up" /\ req[r].at \in {"idle", "done"} /\ faults + arrivals < MaxEvents
  /\ arrivals' = arrivals + 1
  /\ Goes(r, [Idle EXCEPT !.at = "adding", !.op = "run", !.user = Agent])
  /\ UNCHANGED <<keyVars, userVars, chatVars, together>>

-----------------------------------------------------------------------------
\* With SSO the keys are loaded first, and the chat is that of a person; another person
\* is still to come.
InitAccess ==
  /\ sso \in BOOLEAN /\ server = IF sso THEN "starting" ELSE "up"
  /\ verifier = Unset /\ current = 1 /\ attempts = 0 /\ faults = 0
  /\ super = {Anonymous}
  /\ \E s \in Subjects : subject = [i \in Ids |-> IF sso /\ i = Agent + 1 THEN s ELSE Unset]
  /\ chat = "OPEN" /\ owner = IF sso THEN Agent + 1 ELSE Anonymous
  /\ members = {owner} /\ joined = members
  /\ req = [r \in Requests |-> Idle] /\ arrivals = 0 /\ together = {}

Ops == {"say", "invite", "add", "kick", "remove", "end"}

Handle(r) ==
  \/ InsertUser(r) \/ SetRole(r)
  \/ CheckSuper(r) \/ CheckOpen(r) \/ CheckMember(r) \/ CheckAdd(r) \/ AddParticipant(r)
  \/ CheckRights(r) \/ RemoveParticipant(r) \/ End(r)
  \/ CheckSend(r) \/ Write(r)

NextAccess ==
  \/ NewKey \/ FetchKeys \/ RefreshKeys \/ RefreshFails
  \/ \E r \in Requests :
       \/ \E s \in Subjects, op \in Ops : Arrive(r, s, op)
       \/ StartRun(r) \/ Handle(r)

SpecAccess == InitAccess /\ [][NextAccess]_accessVars

\* The loop of the keys goes on.
FairAccess == SpecAccess /\ WF_accessVars(RefreshKeys)

-----------------------------------------------------------------------------
(* Properties.                                                             *)

AccessTypeOK ==
  /\ server \in {"starting", "up", "failed"}
  /\ verifier = Unset \/ verifier \subseteq 1..current
  /\ attempts \in 0..MaxAttempts /\ faults + arrivals \in 0..MaxEvents
  /\ subject \in [Ids -> Subjects \cup {Unset}] /\ super \subseteq Ids
  /\ chat \in {"OPEN", "CLOSED"} /\ owner \in Ids
  /\ members \subseteq Ids /\ members \subseteq joined
  /\ \A r \in Requests : req[r].user \in Ids \cup {Unset} /\ req[r].invited \in Ids \cup {Unset}

\* A subject has one account unless two of its first requests crossed, and then all
\* later requests agree on the first one: another one is used by nobody but the request
\* that made it.
OneAccount ==
  /\ \A s \in Subjects : s \notin together => Cardinality(Accounts(s)) <= 1
  /\ \A r \in Requests :
       req[r].who # Unset /\ req[r].user # Unset /\ ~req[r].made
         => req[r].user = Account(req[r].who)

\* What a request does it does by the role in its own token, as the owner or as one who
\* took part in the chat, unless a request of the same person with another role crossed
\* it, or the role could not be stored.
ActsByOwnRight ==
  \A r \in Requests : req[r].did # {} /\ req[r].op # "run" =>
    \/ req[r].admin \/ req[r].crossed
    \/ /\ req[r].user \in joined
       /\ req[r].did \cap {"removed", "ended"} # {} => req[r].user = owner

\* Neither an admin, whatever the state of the chat, nor an owner who removes a
\* participant is told that he may not, unless the role was crossed or a query about
\* the right failed.
RightsAreGranted ==
  \A r \in Requests : req[r].reply = "forbidden" /\ (req[r].admin \/ req[r].op = "remove") =>
    req[r].crossed \/ req[r].blind \/ (~req[r].admin /\ req[r].user # owner)

\* A name that a sent message is answered to have invited has been a participant,
\* although the answer of add_participant is not looked at: a closed chat takes no
\* message either.
InvitedIsTrue ==
  \A r \in Requests : req[r].reply = "ok" /\ req[r].invited # Unset => req[r].invited \in joined

\* With SSO nobody acts as the anonymous super-user, however the keys failed to load.
NeverAnonymous ==
  sso => \A r \in Requests : req[r].user # Anonymous

\* Who a request acts for, and what it may do.
AccountsOK == AccessTypeOK /\ OneAccount /\ NeverAnonymous
RightsOK == ActsByOwnRight /\ RightsAreGranted /\ InvitedIsTrue

\* In the end the server accepts the tokens of the current key, whatever it was told in
\* between, unless it has no SSO or could not start.
FreshTokensAccepted == <>[](server = "up" /\ sso => verifier # Unset /\ current \in verifier)
=============================================================================
