------------------------------ MODULE Cluster ------------------------------
(***************************************************************************)
(* The machines of the workstations: creation and deletion of a station by *)
(* the handlers of server.rs through kubectl or docker (cluster.rs).       *)
(*                                                                         *)
(* A station is a row of the database and a pod (a container in Docker)    *)
(* named after the row.  The handler that creates a station goes through   *)
(* both in several steps, the one that deletes it through both in the same *)
(* order, and nothing excludes one while the other is under way, or keeps  *)
(* the handler alive between two steps.  A command a handler has started   *)
(* goes on without it.  Sessions sees the same stations from above, with   *)
(* the creation of a pod as one step.                                      *)
(***************************************************************************)
EXTENDS Integers, FiniteSets

CONSTANTS
  Stations,   \* ids of workstations
  None,       \* no secret
  MaxTrouble  \* bound: failed commands, restarts of the server, pods that fall

Secrets == {"aga", "own"}   \* the shared key of the instance, a secret named in the request

ASSUME ClusterAssumption == MaxTrouble \in Nat /\ None \notin Secrets

VARIABLES
  backend,    \* Cluster.backend: "k8s" or "docker"
  hasKey,     \* AGA_SSH_PRIVATE_KEY is set
  row,        \* workstations.state, "absent" before and "deleted" after the row
  secret,     \* workstations.secret
  stored,     \* Secrets of the cluster
  pod,        \* the pod or container named after the station
  mounts,     \* mounts[w]: the secret its pod mounts
  keyed,      \* containers with the key in ~/.ssh
  creator,    \* how far the handler that creates the station has come
  deleter,    \* how far the handler that deletes it has come
  adrift,     \* adrift[w]: the stage whose command goes on without its handler
  used,       \* stations that have had a session
  seenReady,  \* history: stations whose pod was ready during their creation
  crossed,    \* history: stations that were created and deleted at the same time
  gaveUp,     \* history: stations whose creation waited in vain or was interrupted
  unwritten,  \* history: stations whose new state could not be written
  unkeyed,    \* history: containers whose key could not be stored
  trouble     \* count of failures, for the bound

machine == <<stored, pod, mounts, keyed>>
handlers == <<creator, deleter, adrift>>
history == <<seenReady, crossed, gaveUp, unwritten, unkeyed>>
config == <<backend, hasKey>>
vars == <<backend, hasKey, row, secret, stored, pod, mounts, keyed, creator, deleter, adrift,
          used, seenReady, crossed, gaveUp, unwritten, unkeyed, trouble>>

Exists(w) == row[w] \notin {"absent", "deleted"}

\* UPDATE ... SET state: a row that is gone stays gone.
SetState(w, s) == row' = [row EXCEPT ![w] = IF Exists(w) THEN s ELSE @]

At(w, stage) == creator' = [creator EXCEPT ![w] = stage]

Trouble == trouble < MaxTrouble /\ trouble' = trouble + 1

\* What is under way on a station, with its handler or without.
Making(w) == creator[w] # "idle" \/ adrift[w] # "none"

-----------------------------------------------------------------------------
(* Creation of a station.                                                  *)

\* private_key_from_env and the secret of the request, which goes first.
CreateRow(w) ==
  /\ row[w] = "absent" /\ creator[w] = "idle"
  /\ row' = [row EXCEPT ![w] = "creating"]
  /\ \E named \in {"own", IF hasKey THEN "aga" ELSE None} :
       secret' = [secret EXCEPT ![w] = named]
  /\ At(w, IF hasKey /\ backend = "k8s" THEN "secret" ELSE "pod")
  /\ crossed' = crossed \cup (IF deleter[w] = "row" THEN {w} ELSE {})
  /\ UNCHANGED <<machine, deleter, adrift, used, seenReady, gaveUp, unwritten, unkeyed, config,
                 trouble>>

FailSilently(w) ==                      \* faulty variant: the state is not set
  /\ Trouble
  /\ At(w, "idle")
  /\ UNCHANGED <<row, secret, machine, deleter, adrift, used, history, config>>

\* The handler ends with a new state of the station.  An UPDATE that fails is not
\* looked at, and the row stays as it is.
EndWith(w, s) ==
  /\ \/ SetState(w, s) /\ UNCHANGED unwritten
     \/ unwritten' = unwritten \cup {w} /\ UNCHANGED row
  /\ At(w, "idle")
  /\ UNCHANGED <<secret, machine, deleter, adrift, used, seenReady, crossed, gaveUp, unkeyed,
                 config>>

\* A step of the creation fails: the row is marked, the handler answers 500.
Fail(w) == Trouble /\ EndWith(w, "failed")

EnsureSecret(w) ==
  /\ creator[w] = "secret"
  /\ \/ /\ stored' = stored \cup {"aga"}
        /\ At(w, "pod")
        /\ UNCHANGED <<row, secret, pod, mounts, keyed, deleter, adrift, used, history, config,
                       trouble>>
     \/ Fail(w)

\* What follows once there is a pod: the key goes into a container.
Created(w) == At(w, IF hasKey /\ backend = "docker" THEN "inject" ELSE "wait")

\* The manifest: a secret of the station is mounted.
NewPod(w) ==
  /\ pod[w] = "none"
  /\ pod' = [pod EXCEPT ![w] = "starting"]
  /\ mounts' = [mounts EXCEPT ![w] = secret[w]]

\* The arguments of docker run: a container mounts no secret.
NewContainer(w) ==
  /\ pod[w] = "none"
  /\ pod' = [pod EXCEPT ![w] = "starting"]
  /\ UNCHANGED mounts

\* kubectl apply: a pod of that name stays as it is.
ApplyPod(w) ==
  /\ creator[w] = "pod" /\ backend = "k8s"
  /\ \/ /\ NewPod(w) \/ (pod[w] # "none" /\ UNCHANGED <<pod, mounts>>)
        /\ Created(w)
        /\ UNCHANGED <<row, secret, stored, keyed, deleter, adrift, used, history, config, trouble>>
     \/ Fail(w)

\* docker inspect: a container that runs is used as it is.
InspectContainer(w) ==
  /\ creator[w] = "pod" /\ backend = "docker"
  /\ \/ pod[w] \in {"starting", "ready"} /\ Created(w)
     \/ pod[w] = "stopped" /\ At(w, "start")
     \/ pod[w] = "none" /\ At(w, "run")
  /\ UNCHANGED <<row, secret, machine, deleter, adrift, used, history, config, trouble>>

\* docker start fails for a container that was removed since.
StartContainer(w) ==
  /\ creator[w] = "start"
  /\ \/ /\ pod[w] # "none"
        /\ pod' = [pod EXCEPT ![w] = IF @ = "stopped" THEN "starting" ELSE @]
        /\ Created(w)
        /\ UNCHANGED <<row, secret, stored, mounts, keyed, deleter, adrift, used, history, config,
                       trouble>>
     \/ /\ pod[w] = "none"
        /\ EndWith(w, "failed") /\ UNCHANGED trouble
     \/ Fail(w)

\* docker run, which no container of that name can be in the way of: only the
\* creation makes one.
RunContainer(w) ==
  /\ creator[w] = "run"
  /\ \/ /\ NewContainer(w)
        /\ Created(w)
        /\ UNCHANGED <<row, secret, stored, keyed, deleter, adrift, used, history, config, trouble>>
     \/ Fail(w)

\* docker exec; its failure does not stop the creation.
InjectKey(w) ==
  /\ creator[w] = "inject"
  /\ At(w, "wait")
  /\ \/ /\ pod[w] \in {"starting", "ready"}
        /\ keyed' = keyed \cup {w}
        /\ UNCHANGED <<unkeyed, trouble>>
     \/ /\ (pod[w] \notin {"starting", "ready"} /\ UNCHANGED trouble) \/ Trouble
        /\ unkeyed' = unkeyed \cup {w}
        /\ UNCHANGED keyed
  /\ UNCHANGED <<row, secret, stored, pod, mounts, deleter, adrift, used, seenReady, crossed,
                 gaveUp, unwritten, config>>

SeeReady(w) ==
  /\ creator[w] = "wait" /\ pod[w] = "ready"
  /\ At(w, "ready")
  /\ seenReady' = seenReady \cup {w}
  /\ UNCHANGED <<row, secret, machine, deleter, adrift, used, crossed, gaveUp, unwritten,
                 unkeyed, config, trouble>>

\* The deadline has passed between two looks, or the command cannot be run: the
\* row stays as it is.
GiveUp(w) ==
  /\ creator[w] = "wait"
  /\ At(w, "idle")
  /\ gaveUp' = gaveUp \cup {w}
  /\ UNCHANGED <<row, secret, machine, deleter, adrift, used, seenReady, crossed, unwritten,
                 unkeyed, config, trouble>>

WaitForEver(w) == SeeReady(w)           \* faulty variant: no deadline

\* wait_ready looks again until it is there or the deadline has passed.
WaitReady(w) == SeeReady(w) \/ GiveUp(w)

\* The UPDATE asks for no state.
SetReady(w) ==
  /\ creator[w] = "ready"
  /\ EndWith(w, "ready")
  /\ UNCHANGED trouble

CreateStep(w) ==
  \/ EnsureSecret(w) \/ ApplyPod(w) \/ InspectContainer(w) \/ StartContainer(w)
  \/ RunContainer(w) \/ InjectKey(w) \/ WaitReady(w) \/ SetReady(w)

\* Without kill_on_drop a command outlives the handler that waits for it; to look
\* and to wait change nothing.
LeftRunning(w) ==
  IF creator[w] \in {"secret", "start", "run", "inject"}
       \/ (creator[w] = "pod" /\ backend = "k8s")
    THEN creator[w] ELSE "none"

\* The client goes away, and its handler with it.
StopCreating(w) ==
  /\ Trouble
  /\ creator[w] # "idle"
  /\ At(w, "idle")
  /\ adrift' = [adrift EXCEPT ![w] = LeftRunning(w)]
  /\ gaveUp' = gaveUp \cup {w}
  /\ UNCHANGED <<row, secret, machine, deleter, used, seenReady, crossed, unwritten, unkeyed,
                 config>>

\* What a command nobody waits for does in the end.
TakesEffect(w) ==
  \/ /\ adrift[w] = "secret"
     /\ stored' = stored \cup {"aga"}
     /\ UNCHANGED <<pod, mounts, keyed>>
  \/ adrift[w] = "pod" /\ NewPod(w) /\ UNCHANGED <<stored, keyed>>
  \/ adrift[w] = "run" /\ NewContainer(w) /\ UNCHANGED <<stored, keyed>>
  \/ /\ adrift[w] = "start" /\ pod[w] = "stopped"
     /\ pod' = [pod EXCEPT ![w] = "starting"]
     /\ UNCHANGED <<stored, mounts, keyed>>
  \/ /\ adrift[w] = "inject" /\ pod[w] \in {"starting", "ready"}
     /\ keyed' = keyed \cup {w}
     /\ UNCHANGED <<stored, pod, mounts>>

EndAdrift(w) ==
  /\ adrift[w] # "none"
  /\ TakesEffect(w) \/ UNCHANGED machine
  /\ adrift' = [adrift EXCEPT ![w] = "none"]
  /\ UNCHANGED <<row, secret, creator, deleter, used, history, config, trouble>>

-----------------------------------------------------------------------------
(* Deletion of a station.                                                  *)

Removed(w) ==
  /\ pod' = [pod EXCEPT ![w] = "none"]
  /\ mounts' = [mounts EXCEPT ![w] = None]
  /\ keyed' = keyed \ {w}

DeletePodIgnored(w) ==                  \* faulty variant: a failure is only logged
  /\ deleter[w] = "idle"
  /\ Removed(w) \/ UNCHANGED <<pod, mounts, keyed>>
  /\ deleter' = [deleter EXCEPT ![w] = "row"]
  /\ crossed' = crossed \cup (IF Making(w) THEN {w} ELSE {})
  /\ UNCHANGED <<backend, hasKey, row, secret, stored, creator, adrift, used, seenReady, gaveUp,
                 unwritten, unkeyed, trouble>>

\* The pod first; the row is not looked at.  When the command fails, nothing has
\* happened and the handler ends; when the handler is gone, the command goes on.
DeletePod(w) ==
  /\ Removed(w)
  /\ \/ deleter[w] = "idle" /\ deleter' = [deleter EXCEPT ![w] = "row"]
     \/ UNCHANGED deleter
  /\ crossed' = crossed \cup (IF Making(w) THEN {w} ELSE {})
  /\ UNCHANGED <<backend, hasKey, row, secret, stored, creator, adrift, used, seenReady, gaveUp,
                 unwritten, unkeyed, trouble>>

\* The sessions of a station keep its row.
DeleteRow(w) ==
  /\ deleter[w] = "row"
  /\ row' = [row EXCEPT ![w] = IF Exists(w) /\ w \notin used THEN "deleted" ELSE @]
  /\ deleter' = [deleter EXCEPT ![w] = "idle"]
  /\ UNCHANGED <<secret, machine, creator, adrift, used, history, config, trouble>>

-----------------------------------------------------------------------------
(* The rest of the system.                                                 *)

MarkDown(w) ==
  /\ Exists(w)
  /\ row' = [row EXCEPT ![w] = "down"]
  /\ UNCHANGED <<secret, machine, handlers, used, history, config, trouble>>

\* A session opens on a station that is ready (Sessions).
OpenSession(w) ==
  /\ row[w] = "ready"
  /\ used' = used \cup {w}
  /\ UNCHANGED <<row, secret, machine, handlers, history, config, trouble>>

\* The kubelet does not start a pod whose secret is missing.
PodStarts(w) ==
  /\ pod[w] = "starting"
  /\ mounts[w] \in stored \cup {None}
  /\ pod' = [pod EXCEPT ![w] = "ready"]
  /\ UNCHANGED <<row, secret, stored, mounts, keyed, handlers, used, history, config, trouble>>

\* restartPolicy: OnFailure; a container is not restarted.
PodFalls(w) ==
  /\ Trouble
  /\ pod[w] \in {"starting", "ready"}
  /\ pod' = [pod EXCEPT ![w] = IF backend = "k8s" THEN "starting" ELSE "stopped"]
  /\ UNCHANGED <<row, secret, stored, mounts, keyed, handlers, used, history, config>>

\* An administrator stores the secret that requests name.
StoreOwn ==
  /\ "own" \notin stored
  /\ stored' = stored \cup {"own"}
  /\ UNCHANGED <<row, secret, pod, mounts, keyed, handlers, used, history, config, trouble>>

\* The server dies with its handlers and starts again; the commands go on.
Restart ==
  /\ Trouble
  /\ creator' = [w \in Stations |-> "idle"]
  /\ deleter' = [w \in Stations |-> "idle"]
  /\ adrift' = [w \in Stations |-> IF creator[w] = "idle" THEN adrift[w] ELSE LeftRunning(w)]
  /\ gaveUp' = gaveUp \cup {w \in Stations : creator[w] # "idle"}
  /\ UNCHANGED <<row, secret, machine, used, seenReady, crossed, unwritten, unkeyed, config>>

Init ==
  /\ backend \in {"k8s", "docker"} /\ hasKey \in BOOLEAN
  /\ row = [w \in Stations |-> "absent"]
  /\ secret = [w \in Stations |-> None]
  /\ stored \in SUBSET Secrets
  /\ pod \in [Stations -> IF backend = "docker" THEN {"none", "starting", "stopped"}
                                            ELSE {"none"}]
  /\ mounts = [w \in Stations |-> None]
  /\ keyed = {}
  /\ creator = [w \in Stations |-> "idle"]
  /\ deleter = [w \in Stations |-> "idle"]
  /\ adrift = [w \in Stations |-> "none"]
  /\ used = {}
  /\ seenReady = {} /\ crossed = {} /\ gaveUp = {} /\ unwritten = {} /\ unkeyed = {}
  /\ trouble = 0

Next ==
  \/ \E w \in Stations :
       \/ CreateRow(w) \/ CreateStep(w) \/ StopCreating(w) \/ EndAdrift(w)
       \/ DeletePod(w) \/ DeleteRow(w)
       \/ MarkDown(w) \/ OpenSession(w) \/ PodStarts(w) \/ PodFalls(w)
  \/ StoreOwn \/ Restart

Spec == Init /\ [][Next]_vars

\* Handlers are tasks of tokio and the commands they run end.
FairSpec == Spec /\ \A w \in Stations : WF_vars(CreateStep(w))

-----------------------------------------------------------------------------
(* Properties.                                                             *)

TypeOK ==
  /\ backend \in {"k8s", "docker"} /\ hasKey \in BOOLEAN
  /\ row \in [Stations -> {"absent", "creating", "failed", "ready", "down", "deleted"}]
  /\ secret \in [Stations -> Secrets \cup {None}]
  /\ stored \subseteq Secrets
  /\ pod \in [Stations -> {"none", "stopped", "starting", "ready"}]
  /\ mounts \in [Stations -> Secrets \cup {None}]
  /\ creator \in [Stations -> {"idle", "secret", "pod", "start", "run", "inject", "wait", "ready"}]
  /\ deleter \in [Stations -> {"idle", "row"}]
  /\ adrift \in [Stations -> {"none", "secret", "pod", "start", "run", "inject"}]
  /\ \A w \in Stations : pod[w] = "none" => mounts[w] = None /\ w \notin keyed
  /\ keyed \cup used \cup seenReady \cup crossed \cup gaveUp \cup unwritten
       \cup unkeyed \subseteq Stations
  /\ trouble \in 0..MaxTrouble

\* A pod that mounts the shared secret finds it: the server stores it before it
\* makes the pod, and makes none when it could not (create_workstation).
SharedSecretStored == \A w \in Stations : mounts[w] = "aga" => "aga" \in stored

\* A station is ready only if its pod was seen to be, whatever failed or raced
\* on the way.
ReadyWasSeen == \A w \in Stations : row[w] = "ready" => w \in seenReady

\* A station is left in "creating" only by a creation that waited in vain, was
\* interrupted or could not write its end; any other failure is written down.
LeftCreating ==
  \A w \in Stations :
    row[w] = "creating" /\ creator[w] = "idle" => w \in gaveUp \cup unwritten

\* A station with a pod that became ready has the key of the instance, or the
\* secret named for it, unless its container refused the key.
KeyInPlace ==
  hasKey =>
    \A w \in Stations : row[w] = "ready" /\ pod[w] # "none" =>
      IF backend = "k8s" THEN mounts[w] = secret[w] /\ mounts[w] # None
                         ELSE w \in keyed \cup unkeyed

\* A deleted station leaves no pod behind and nothing that would make one, unless
\* it was still being created, by a handler or by a command that has lost it.
NoOrphan ==
  \A w \in Stations :
    row[w] = "deleted" => w \in crossed \/ (pod[w] = "none" /\ ~Making(w))

\* What the row of a station says was seen or came about, whoever writes it last.
StateIsTrue == ReadyWasSeen /\ LeftCreating

\* Pods and containers have their keys and outlive their row only where creation and
\* deletion crossed.
MachinesOK == TypeOK /\ SharedSecretStored /\ KeyInPlace /\ NoOrphan

\* The handler that creates a station answers, even if its pod never gets ready.
CreationEnds == \A w \in Stations : creator[w] # "idle" ~> creator[w] = "idle"

-----------------------------------------------------------------------------
(* What the proofs need besides the properties.                            *)

\* A station is created once, and is not ready before its creation ends, or after
\* it was interrupted.
CreateInv ==
  \A w \in Stations :
    /\ row[w] \in {"absent", "ready"} => ~Making(w)
    /\ adrift[w] # "none" => creator[w] = "idle"
    /\ creator[w] = "ready" => w \in seenReady

\* Where the keys are, from the row to the machine.
KeyInv ==
  \A w \in Stations :
    /\ backend = "k8s" /\ "pod" \in {creator[w], adrift[w]} /\ secret[w] = "aga" =>
         "aga" \in stored
    /\ hasKey /\ row[w] # "absent" => secret[w] # None
    /\ "run" \in {creator[w], adrift[w]} => backend = "docker"
    /\ adrift[w] = "pod" => backend = "k8s"
    /\ backend = "k8s" /\ pod[w] # "none" => row[w] # "absent" /\ mounts[w] = secret[w]
    /\ backend = "docker" /\ hasKey /\ (row[w] = "ready" \/ creator[w] \in {"wait", "ready"}) =>
         pod[w] = "none" \/ w \in keyed \cup unkeyed

\* Once its pod was deleted nobody makes another, unless creation and deletion crossed.
DeleteInv ==
  \A w \in Stations :
    row[w] = "deleted" \/ deleter[w] = "row" =>
      w \in crossed \/ (pod[w] = "none" /\ ~Making(w))
=============================================================================
