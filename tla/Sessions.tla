------------------------------ MODULE Sessions ------------------------------
(***************************************************************************)
(* Workstations and the sessions they serve (chat/sessions.rs,             *)
(* chat/chats.rs, the handlers of server.rs, ws_ops.rs).                   *)
(*                                                                         *)
(* Every handler of the HTTP server is a sequence of statements and        *)
(* commands with awaits between them; any two handlers interleave, and a   *)
(* handler may stop anywhere (the server dies, the client goes away).  The *)
(* command in a station that it awaits then goes on without it.            *)
(* Between the check of a handler and what it protects there is a window   *)
(* that other handlers may enter; the history variable entered says which  *)
(* windows were, and the properties say which of them they depend on.      *)
(***************************************************************************)
EXTENDS Integers

CONSTANTS
  Stations, Sessions, Projects,
  Closers,   \* requests that close a session
  None

ASSUME SessionsAssumption == None \notin Sessions \cup Projects \cup Stations

VARIABLES
  state,      \* workstations.state, "absent" before and "deleted" after the row
  current,    \* workstations.current_session_id
  pod,        \* stations whose pod exists
  workspace,  \* project and branch in /work/project of a station
  creator, releaser, deleter,  \* handlers of a station that are under way
  at,         \* at[c]: how far the handler that opens session c has come; done when it ended,
              \* wherever it did
  station, project,            \* what session c was asked for
  chat,       \* chats.state of the root chat of the session
  closedAt,   \* sessions with closed_at
  continues,  \* sessions.continues_session_id
  deployed,   \* sessions whose project was deployed
  adrift,     \* adrift[c]: the command that the handler which opened c left running
  closing, closes,            \* handlers that close, and the session they close
  entered     \* history: the windows that another handler has entered

stationVars == <<state, current, pod, workspace, creator, releaser, deleter>>
openVars    == <<at, station, project, continues, deployed, adrift, entered>>
closeVars   == <<chat, closedAt, closing, closes>>
vars == <<state, current, pod, workspace, creator, releaser, deleter,
          at, station, project, continues, deployed, adrift,
          chat, closedAt, closing, closes, entered>>

Exists(s) == state[s] \notin {"absent", "deleted"}

Empty == [project |-> None, branch |-> None]

\* active_session_id: the current session counts only while it is open.
Active(s) == current[s] # None /\ chat[current[s]] = "OPEN" /\ current[s] \notin closedAt

\* interrupted_session_for_project, without the order by updated_at: messages
\* to the chats may put any of them first.
Interrupted(p) ==
  {c \in Sessions : /\ chat[c] = "OPEN" /\ c \notin closedAt
                    /\ project[c] = p /\ state[station[c]] = "down"}

\* The windows: a second opening between check and transaction of the first, a
\* release against that of an opening, a closing before the commands of an opening
\* have ended (its handler may have stopped before), a mark before the search for
\* the session that is continued.
Windows == {"open", "release", "deploy", "down"}

Enter(window, condition) == IF condition THEN {window} ELSE {}

\* Openings of a station that have passed their checks and are not finished.
Opening(s, stages) == \E c \in Sessions : station[c] = s /\ at[c] \in stages

-----------------------------------------------------------------------------
(* Workstations.                                                           *)

CreateWorkstation(s) ==
  /\ state[s] = "absent"
  /\ state' = [state EXCEPT ![s] = "creating"]
  /\ creator' = [creator EXCEPT ![s] = "pod"]
  /\ UNCHANGED <<current, pod, workspace, releaser, deleter, openVars, closeVars>>

CreatePod(s) ==
  /\ creator[s] = "pod"
  /\ \/ /\ pod' = pod \cup {s}
        /\ creator' = [creator EXCEPT ![s] = "wait"]
        /\ UNCHANGED state
     \/ /\ creator' = [creator EXCEPT ![s] = "idle"]
        /\ state' = [state EXCEPT ![s] = IF Exists(s) THEN "failed" ELSE @]
        /\ UNCHANGED pod
  /\ UNCHANGED <<current, workspace, releaser, deleter, openVars, closeVars>>

\* wait_ready, up to a minute, then an unconditional UPDATE (or a timeout).
WaitReady(s) ==
  /\ creator[s] = "wait"
  /\ creator' = [creator EXCEPT ![s] = "idle"]
  /\ \/ /\ s \in pod
        /\ state' = [state EXCEPT ![s] = IF Exists(s) THEN "ready" ELSE @]
     \/ UNCHANGED state
  /\ UNCHANGED <<current, pod, workspace, releaser, deleter, openVars, closeVars>>

MarkDown(s) ==
  /\ Exists(s)
  /\ state' = [state EXCEPT ![s] = "down"]
  /\ entered' = entered \cup Enter("down", Opening(s, {"checked", "committed"}))
  /\ UNCHANGED <<current, pod, workspace, creator, releaser, deleter, at, station, project,
                 continues, deployed, adrift, closeVars>>

\* delete_workstation: first the pod, then the row.
DeletePod(s) ==
  /\ Exists(s) /\ deleter[s] = "idle"
  /\ pod' = pod \ {s}
  /\ deleter' = [deleter EXCEPT ![s] = "row"]
  /\ UNCHANGED <<state, current, workspace, creator, releaser, openVars, closeVars>>

\* The foreign key of sessions refuses a station that ever had a session.
DeleteRow(s) ==
  /\ deleter[s] = "row"
  /\ deleter' = [deleter EXCEPT ![s] = "idle"]
  /\ state' = [state EXCEPT ![s] =
       IF \E c \in Sessions : station[c] = s /\ chat[c] # "none" THEN @ ELSE "deleted"]
  /\ UNCHANGED <<current, pod, workspace, creator, releaser, openVars, closeVars>>

ReleaseUnchecked(s) ==                  \* faulty variant: busy stations as well
  /\ Exists(s) /\ releaser[s] = "idle"
  /\ releaser' = [releaser EXCEPT ![s] = "clear"]
  /\ entered' = entered \cup Enter("release", Opening(s, {"checked"}))
  /\ UNCHANGED <<state, current, pod, workspace, creator, deleter, at, station, project,
                 continues, deployed, adrift, closeVars>>

ReleaseCheck(s) ==
  /\ Exists(s) /\ releaser[s] = "idle"
  /\ ~Active(s)
  /\ releaser' = [releaser EXCEPT ![s] = "clear"]
  /\ entered' = entered \cup Enter("release", Opening(s, {"checked"}))
  /\ UNCHANGED <<state, current, pod, workspace, creator, deleter, at, station, project,
                 continues, deployed, adrift, closeVars>>

\* release_workspace: the command may fail, which is only logged.
ReleaseClear(s) ==
  /\ releaser[s] = "clear"
  /\ releaser' = [releaser EXCEPT ![s] = "idle"]
  /\ \/ s \in pod /\ workspace' = [workspace EXCEPT ![s] = Empty]
     \/ UNCHANGED workspace
  /\ UNCHANGED <<state, current, pod, creator, deleter, openVars, closeVars>>

-----------------------------------------------------------------------------
(* Opening a session.                                                      *)

\* The checks, before the transaction begins.
OpenCheck(c, s, p) ==
  /\ at[c] = "idle"
  /\ state[s] = "ready" /\ ~Active(s)
  /\ at' = [at EXCEPT ![c] = "checked"]
  /\ station' = [station EXCEPT ![c] = s]
  /\ project' = [project EXCEPT ![c] = p]
  /\ entered' = entered \cup Enter("open", Opening(s, {"checked"}))
                        \cup Enter("release", releaser[s] # "idle")
  /\ UNCHANGED <<continues, deployed, adrift, stationVars, closeVars>>

\* The transaction; the foreign key refuses a station that was deleted.
OpenCommit(c) ==
  /\ at[c] = "checked"
  /\ IF Exists(station[c])
       THEN /\ at' = [at EXCEPT ![c] = "committed"]
            /\ chat' = [chat EXCEPT ![c] = "OPEN"]
            /\ current' = [current EXCEPT ![station[c]] = c]
       ELSE /\ at' = [at EXCEPT ![c] = "done"]
            /\ UNCHANGED <<chat, current>>
  /\ UNCHANGED <<state, pod, workspace, creator, releaser, deleter, station, project,
                 continues, deployed, adrift, entered, closedAt, closing, closes>>

ContinueAny(c) ==                       \* faulty variant: any open session of the project
  /\ at[c] = "committed"
  /\ at' = [at EXCEPT ![c] = "linked"]
  /\ \E d \in {d \in Sessions : chat[d] = "OPEN" /\ project[d] = project[c]} :
       continues' = [continues EXCEPT ![c] = d]
  /\ UNCHANGED <<station, project, deployed, adrift, entered, stationVars, closeVars>>

ContinueInterrupted(c) ==
  /\ at[c] = "committed"
  /\ at' = [at EXCEPT ![c] = "linked"]
  /\ IF Interrupted(project[c]) = {}
       THEN UNCHANGED continues
       ELSE \E d \in Interrupted(project[c]) : continues' = [continues EXCEPT ![c] = d]
  /\ UNCHANGED <<station, project, deployed, adrift, entered, stationVars, closeVars>>

\* What a clone that succeeds leaves: the files of the project on a branch named
\* after the station.
Cloned(c) ==
  /\ station[c] \in pod
  /\ workspace' = [workspace EXCEPT ![station[c]] =
       [project |-> project[c], branch |-> station[c]]]
  /\ deployed' = deployed \cup {c}

\* What a checkout that succeeds leaves.
CheckedOut(c) ==
  /\ continues[c] # None /\ station[c] \in pod
  /\ workspace[station[c]] # Empty
  /\ workspace' = [workspace EXCEPT ![station[c]].branch = station[continues[c]]]

\* replace_project: a failure leaves the files as they are and is only logged.
Deploy(c) ==
  /\ at[c] = "linked"
  /\ at' = [at EXCEPT ![c] = "deployed"]
  /\ Cloned(c) \/ UNCHANGED <<workspace, deployed>>
  /\ UNCHANGED <<state, current, pod, creator, releaser, deleter, station, project,
                 continues, adrift, entered, closeVars>>

\* restore_workspace checks out session_branch of the session it continues.
Restore(c) ==
  /\ at[c] = "deployed"
  /\ at' = [at EXCEPT ![c] = "done"]
  /\ CheckedOut(c) \/ UNCHANGED workspace
  /\ UNCHANGED <<state, current, pod, creator, releaser, deleter, station, project,
                 continues, deployed, adrift, entered, closeVars>>

\* A child of tokio outlives the future that awaits it (no kill_on_drop).
StopOpening(c) ==
  /\ at[c] \in {"checked", "committed", "linked", "deployed"}
  /\ at' = [at EXCEPT ![c] = "done"]
  /\ \/ UNCHANGED adrift
     \/ at[c] = "linked" /\ adrift' = [adrift EXCEPT ![c] = "clone"]
     \/ /\ at[c] = "deployed" /\ continues[c] # None
        /\ adrift' = [adrift EXCEPT ![c] = "checkout"]
  /\ UNCHANGED <<station, project, continues, deployed, entered, stationVars, closeVars>>

\* The command that was left running ends, whoever uses the station by then.
EndAdrift(c) ==
  /\ adrift[c] # "none"
  /\ adrift' = [adrift EXCEPT ![c] = "none"]
  /\ \/ adrift[c] = "clone" /\ Cloned(c)
     \/ adrift[c] = "checkout" /\ CheckedOut(c) /\ UNCHANGED deployed
     \/ UNCHANGED <<workspace, deployed>>
  /\ UNCHANGED <<state, current, pod, creator, releaser, deleter, at, station, project,
                 continues, entered, closeVars>>

-----------------------------------------------------------------------------
(* Closing a session: statements without a transaction.                    *)

CloseChats(k, c) ==
  /\ closing[k] = "idle" /\ chat[c] # "none"
  /\ closing' = [closing EXCEPT ![k] = "chats"]
  /\ closes' = [closes EXCEPT ![k] = c]
  /\ chat' = [chat EXCEPT ![c] = "CLOSED"]
  /\ entered' = entered \cup Enter("deploy", at[c] # "done" \/ adrift[c] # "none")
  /\ UNCHANGED <<closedAt, at, station, project, continues, deployed, adrift, stationVars>>

\* A request that ends forgets its session.
EndClosing(k) ==
  /\ closing' = [closing EXCEPT ![k] = "idle"]
  /\ closes' = [closes EXCEPT ![k] = None]

SelectSession(k) ==
  /\ closing[k] = "chats"
  /\ IF closes[k] \in closedAt
       THEN EndClosing(k)
       ELSE closing' = [closing EXCEPT ![k] = "selected"] /\ UNCHANGED closes
  /\ UNCHANGED <<chat, closedAt, openVars, stationVars>>

MarkClosed(k) ==
  /\ closing[k] = "selected"
  /\ closing' = [closing EXCEPT ![k] = "marked"]
  /\ closedAt' = closedAt \cup {closes[k]}
  /\ UNCHANGED <<chat, closes, openVars, stationVars>>

FreeStationAny(k) ==                    \* faulty variant: whatever its session is
  /\ closing[k] = "marked"
  /\ EndClosing(k)
  /\ current' = [current EXCEPT ![station[closes[k]]] = None]
  /\ UNCHANGED <<state, pod, workspace, creator, releaser, deleter, chat, closedAt,
                 openVars>>

FreeStation(k) ==
  /\ closing[k] = "marked"
  /\ EndClosing(k)
  /\ current' = [current EXCEPT ![station[closes[k]]] = IF @ = closes[k] THEN None ELSE @]
  /\ UNCHANGED <<state, pod, workspace, creator, releaser, deleter, chat, closedAt,
                 openVars>>

StopClosing(k) ==
  /\ closing[k] # "idle"
  /\ EndClosing(k)
  /\ UNCHANGED <<chat, closedAt, openVars, stationVars>>

-----------------------------------------------------------------------------
Init ==
  /\ state = [s \in Stations |-> "absent"]
  /\ current = [s \in Stations |-> None]
  /\ pod = {}
  /\ workspace = [s \in Stations |-> Empty]
  /\ creator = [s \in Stations |-> "idle"]
  /\ releaser = [s \in Stations |-> "idle"]
  /\ deleter = [s \in Stations |-> "idle"]
  /\ at = [c \in Sessions |-> "idle"]
  /\ station = [c \in Sessions |-> None]
  /\ project = [c \in Sessions |-> None]
  /\ chat = [c \in Sessions |-> "none"]
  /\ closedAt = {}
  /\ continues = [c \in Sessions |-> None]
  /\ deployed = {}
  /\ adrift = [c \in Sessions |-> "none"]
  /\ closing = [k \in Closers |-> "idle"]
  /\ closes = [k \in Closers |-> None]
  /\ entered = {}

StationStep(s) ==
  \/ CreateWorkstation(s) \/ CreatePod(s) \/ WaitReady(s) \/ MarkDown(s)
  \/ DeletePod(s) \/ DeleteRow(s) \/ ReleaseCheck(s) \/ ReleaseClear(s)

OpenStep(c) ==
  \/ \E s \in Stations, p \in Projects : OpenCheck(c, s, p)
  \/ OpenCommit(c) \/ ContinueInterrupted(c) \/ Deploy(c) \/ Restore(c)
  \/ StopOpening(c) \/ EndAdrift(c)

CloseStep(k) ==
  \/ \E c \in Sessions : CloseChats(k, c)
  \/ SelectSession(k) \/ MarkClosed(k) \/ FreeStation(k) \/ StopClosing(k)

Next == \/ \E s \in Stations : StationStep(s)
        \/ \E c \in Sessions : OpenStep(c)
        \/ \E k \in Closers : CloseStep(k)

Spec == Init /\ [][Next]_vars

-----------------------------------------------------------------------------
(* Properties.                                                             *)

TypeOK ==
  /\ state \in [Stations -> {"absent", "creating", "failed", "ready", "down", "deleted"}]
  /\ current \in [Stations -> Sessions \cup {None}]
  /\ pod \subseteq Stations
  /\ workspace \in [Stations -> [project : Projects \cup {None},
                                 branch : Stations \cup {None}]]
  /\ creator \in [Stations -> {"idle", "pod", "wait"}]
  /\ releaser \in [Stations -> {"idle", "clear"}]
  /\ deleter \in [Stations -> {"idle", "row"}]
  /\ at \in [Sessions -> {"idle", "checked", "committed", "linked", "deployed",
                          "done"}]
  /\ station \in [Sessions -> Stations \cup {None}]
  /\ project \in [Sessions -> Projects \cup {None}]
  /\ chat \in [Sessions -> {"none", "OPEN", "CLOSED"}]
  /\ closedAt \subseteq Sessions
  /\ continues \in [Sessions -> Sessions \cup {None}]
  /\ deployed \subseteq Sessions
  /\ adrift \in [Sessions -> {"none", "clone", "checkout"}]
  /\ closing \in [Closers -> {"idle", "chats", "selected", "marked"}]
  /\ closes \in [Closers -> Sessions \cup {None}]
  /\ entered \subseteq Windows

\* An open session is the current session of its station, and of no other: it
\* can be found, closed and continued.  It holds however many requests close
\* sessions and wherever a handler stops, unless openings of a station raced.
OpenIsCurrent ==
  "open" \notin entered =>
    \A c \in Sessions : chat[c] = "OPEN" =>
      /\ station[c] \in Stations
      /\ \A s \in Stations : current[s] = c <=> s = station[c]

HasItsProject(c) ==
  /\ chat[c] = "OPEN" /\ current[station[c]] = c
  /\ at[c] = "done" /\ c \in deployed /\ station[c] \in pod
  => workspace[station[c]].project = project[c]

\* The files of a station are those of its open session, once they were
\* deployed: a session never works in the project of another, unless a closing or
\* a release got into an opening, or another opening, or a session was closed whose
\* clone, left by its handler, was still running.
SessionHasItsProject ==
  entered \cap {"open", "deploy", "release"} = {} => \A c \in Sessions : HasItsProject(c)

Continues(c, d) == project[d] = project[c] /\ station[d] # station[c]

\* A session continues an earlier one of its project, on another station, unless
\* its station was marked as down while it was being opened.
ContinuesAnother ==
  "down" \notin entered =>
    \A c \in Sessions : continues[c] # None => Continues(c, continues[c])

\* The same without the proviso: "the project is given here and deployed"
\* (comment at create_session).
DeployedHasItsProject == \A c \in Sessions : HasItsProject(c)

\* "One active session on a station" (README).
OneOpenSession ==
  \A c, d \in Sessions :
    chat[c] = "OPEN" /\ chat[d] = "OPEN" /\ station[c] = station[d] => c = d

\* A released station "must be free anyway" (comment at release_workstation):
\* files are cleared only where no session is open.
ReleaseSparesSessions ==
  [][\A s \in Stations : ReleaseClear(s) /\ workspace' # workspace => ~Active(s)]_vars

\* "The branch the session worked on" (comment at session_branch) is the one
\* that is checked out for it, even if nobody interfered.
SessionWorksOnItsBranch ==
  entered = {} => \A c \in Sessions :
    /\ chat[c] = "OPEN" /\ current[station[c]] = c
    /\ at[c] = "done" /\ c \in deployed /\ station[c] \in pod
    => workspace[station[c]].branch = station[c]

-----------------------------------------------------------------------------
(* What the proofs need besides the properties.                            *)

\* What holds of a session by the order of the statements alone.
OrderInv ==
  /\ \A c \in Sessions :
       /\ at[c] # "idle" => station[c] \in Stations /\ project[c] \in Projects
       /\ at[c] \in {"idle", "checked"} => chat[c] = "none"
       /\ at[c] \in {"committed", "linked", "deployed"} => chat[c] # "none"
       /\ adrift[c] # "none" => at[c] = "done" /\ chat[c] # "none"
       /\ c \in closedAt => chat[c] = "CLOSED"
  /\ \A k \in Closers : closing[k] # "idle" =>
       closes[k] \in Sessions /\ chat[closes[k]] = "CLOSED"
  /\ \A s \in Stations : current[s] # None =>
       station[current[s]] = s /\ chat[current[s]] # "none"

\* Without racing openings: what the checks found still holds at the commit.
OpenInv ==
  "open" \notin entered =>
    /\ OpenIsCurrent
    /\ \A c \in Sessions : at[c] = "checked" =>
         /\ ~Active(station[c])
         /\ \A d \in Sessions : at[d] = "checked" /\ station[d] = station[c] => d = c

\* Without racing closings and releases: who may write the files of a station.
FileInv ==
  entered \cap {"open", "deploy", "release"} = {} =>
    /\ \A s \in Stations : releaser[s] = "clear" => ~Active(s) /\ ~Opening(s, {"checked"})
    /\ \A c \in Sessions :
         /\ at[c] \in {"committed", "linked", "deployed"} \/ adrift[c] # "none" =>
              chat[c] = "OPEN"
         /\ c \in deployed => at[c] \in {"deployed", "done"}
         /\ chat[c] = "OPEN" /\ at[c] \in {"deployed", "done"} /\ c \in deployed =>
              workspace[station[c]].project = project[c]

\* Without a station that goes down under an opening.
RecoverInv ==
  "down" \notin entered =>
    /\ ContinuesAnother
    /\ \A s \in Stations : creator[s] = "pod" => state[s] # "ready"
    /\ \A c \in Sessions :
         /\ at[c] \in {"checked", "committed"} => state[station[c]] \in {"ready", "deleted"}
         /\ continues[c] # None => at[c] # "idle" /\ at[continues[c]] # "idle"
=============================================================================
