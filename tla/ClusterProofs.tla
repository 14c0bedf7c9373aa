--------------------------- MODULE ClusterProofs ---------------------------
(* Proofs about the machines of workstations (Cluster) and about the start *)
(* of the stores (Startup), two components that share nothing.             *)
EXTENDS Cluster, Startup, FiniteSetTheorems, SequenceTheorems, TLAPS

\* The states of a row and the stages of a creation are told apart by these.
Inv == TypeOK /\ CreateInv /\ KeyInv /\ DeleteInv

-----------------------------------------------------------------------------
(* Types.                                                                  *)

LEMMA InitType == Init => TypeOK
<1> SUFFICES ASSUME Init PROVE TypeOK OBVIOUS
<1>1. pod \in [Stations -> {"none", "stopped", "starting", "ready"}] BY DEF Init
<1>2. trouble \in 0..MaxTrouble BY ClusterAssumption DEF Init
<1> QED BY <1>1, <1>2 DEF Init, TypeOK, Secrets

LEMMA FailType == ASSUME TypeOK, NEW w \in Stations, Fail(w) PROVE TypeOK'
<1>1. trouble' \in 0..MaxTrouble BY ClusterAssumption DEF Fail, Trouble, TypeOK
<1> QED BY <1>1 DEF Fail, EndWith, SetState, At, TypeOK, machine, history, config

LEMMA TypeStep == ASSUME TypeOK, [Next]_vars PROVE TypeOK'
<1> USE DEF machine, history, config, handlers
<1>1. ASSUME NEW w \in Stations, CreateRow(w) PROVE TypeOK'
  <2>1. secret' \in [Stations -> Secrets \cup {None}] BY <1>1 DEF CreateRow, TypeOK, Secrets
  <2>2. row' \in [Stations -> {"absent", "creating", "failed", "ready", "down", "deleted"}]
    BY <1>1 DEF CreateRow, TypeOK
  <2>3. creator' \in [Stations ->
          {"idle", "secret", "pod", "start", "run", "inject", "wait", "ready"}]
    BY <1>1 DEF CreateRow, At, TypeOK
  <2> QED BY <1>1, <2>1, <2>2, <2>3 DEF CreateRow, TypeOK
<1>2. ASSUME NEW w \in Stations, EnsureSecret(w) PROVE TypeOK'
  <2>1. CASE Fail(w) BY <2>1, FailType
  <2>2. CASE ~Fail(w)
    <3>1. stored' \subseteq Secrets BY <1>2, <2>2 DEF EnsureSecret, TypeOK, Secrets
    <3> QED BY <1>2, <2>2, <3>1 DEF EnsureSecret, At, TypeOK
  <2> QED BY <2>1, <2>2
<1>3. ASSUME NEW w \in Stations, ApplyPod(w) PROVE TypeOK'
  BY <1>3, FailType DEF ApplyPod, NewPod, Created, At, TypeOK
<1>4. ASSUME NEW w \in Stations, InspectContainer(w) PROVE TypeOK'
  BY <1>4 DEF InspectContainer, Created, At, TypeOK
<1>5. ASSUME NEW w \in Stations, StartContainer(w) PROVE TypeOK'
  BY <1>5, FailType DEF StartContainer, EndWith, SetState, Created, At, TypeOK
<1>6. ASSUME NEW w \in Stations, RunContainer(w) PROVE TypeOK'
  BY <1>6, FailType DEF RunContainer, NewContainer, Created, At, TypeOK
<1>7. ASSUME NEW w \in Stations, InjectKey(w) PROVE TypeOK'
  <2>1. trouble' \in 0..MaxTrouble
    BY <1>7, ClusterAssumption DEF InjectKey, Trouble, TypeOK
  <2> QED BY <1>7, <2>1 DEF InjectKey, At, TypeOK
<1>8. ASSUME NEW w \in Stations, WaitReady(w) PROVE TypeOK'
  BY <1>8 DEF WaitReady, SeeReady, GiveUp, At, TypeOK
<1>9. ASSUME NEW w \in Stations, SetReady(w) PROVE TypeOK'
  BY <1>9 DEF SetReady, EndWith, SetState, At, TypeOK
<1>10. ASSUME NEW w \in Stations, DeletePod(w) PROVE TypeOK'
  BY <1>10 DEF DeletePod, Removed, TypeOK
<1>11. ASSUME NEW w \in Stations, DeleteRow(w) PROVE TypeOK'
  BY <1>11 DEF DeleteRow, TypeOK
<1>12. ASSUME NEW w \in Stations, MarkDown(w) PROVE TypeOK'
  BY <1>12 DEF MarkDown, TypeOK
<1>13. ASSUME NEW w \in Stations, OpenSession(w) PROVE TypeOK'
  BY <1>13 DEF OpenSession, TypeOK
<1>14. ASSUME NEW w \in Stations, PodStarts(w) PROVE TypeOK'
  BY <1>14 DEF PodStarts, TypeOK
<1>15. ASSUME NEW w \in Stations, PodFalls(w) PROVE TypeOK'
  <2>1. trouble' \in 0..MaxTrouble
    BY <1>15, ClusterAssumption DEF PodFalls, Trouble, TypeOK
  <2> QED BY <1>15, <2>1 DEF PodFalls, TypeOK
<1>16. CASE StoreOwn BY <1>16 DEF StoreOwn, TypeOK, Secrets
<1>17. CASE Restart
  <2>1. trouble' \in 0..MaxTrouble
    BY <1>17, ClusterAssumption DEF Restart, Trouble, TypeOK
  <2> QED BY <1>17, <2>1 DEF Restart, LeftRunning, TypeOK
<1>19. ASSUME NEW w \in Stations, StopCreating(w) PROVE TypeOK'
  <2>1. trouble' \in 0..MaxTrouble
    BY <1>19, ClusterAssumption DEF StopCreating, Trouble, TypeOK
  <2> QED BY <1>19, <2>1 DEF StopCreating, LeftRunning, At, TypeOK
<1>20. ASSUME NEW w \in Stations, EndAdrift(w) PROVE TypeOK'
  <2>1. stored' \subseteq Secrets BY <1>20 DEF EndAdrift, TakesEffect, TypeOK, Secrets
  <2> QED BY <1>20, <2>1 DEF EndAdrift, TakesEffect, NewPod, NewContainer, TypeOK
<1>18. CASE UNCHANGED vars BY <1>18 DEF vars, TypeOK
<1> QED
  BY <1>1, <1>2, <1>3, <1>4, <1>5, <1>6, <1>7, <1>8, <1>9, <1>10, <1>11, <1>12, <1>13,
     <1>14,
     <1>15, <1>16, <1>17, <1>18, <1>19, <1>20 DEF Next, CreateStep

-----------------------------------------------------------------------------
(* What the properties rest on.                                            *)

\* A creation runs once and ends with the state.
LEMMA CreateStepKeeps == ASSUME TypeOK, CreateInv, [Next]_vars PROVE CreateInv'
<1> USE DEF machine, history, config, handlers
<1>1. ASSUME NEW w \in Stations, CreateRow(w) PROVE CreateInv'
  BY <1>1 DEF CreateRow, At, TypeOK, CreateInv, Making, Exists
<1>2. ASSUME NEW w \in Stations, EnsureSecret(w) PROVE CreateInv'
  BY <1>2 DEF EnsureSecret, Fail, EndWith, SetState, At, TypeOK, CreateInv, Making, Exists
<1>3. ASSUME NEW w \in Stations, ApplyPod(w) PROVE CreateInv'
  BY <1>3 DEF ApplyPod, Fail, EndWith, SetState, NewPod, Created, At, TypeOK, CreateInv,
     Making, Exists
<1>4. ASSUME NEW w \in Stations, InspectContainer(w) PROVE CreateInv'
  BY <1>4 DEF InspectContainer, Created, At, TypeOK, CreateInv, Making, Exists
<1>5. ASSUME NEW w \in Stations, StartContainer(w) PROVE CreateInv'
  BY <1>5 DEF StartContainer, Fail, EndWith, SetState, Created, At, TypeOK, CreateInv,
     Making, Exists
<1>6. ASSUME NEW w \in Stations, RunContainer(w) PROVE CreateInv'
  BY <1>6 DEF RunContainer, Fail, EndWith, SetState, NewContainer, Created, At, TypeOK,
     CreateInv, Making, Exists
<1>7. ASSUME NEW w \in Stations, InjectKey(w) PROVE CreateInv'
  BY <1>7 DEF InjectKey, At, TypeOK, CreateInv, Making, Exists
<1>8. ASSUME NEW w \in Stations, WaitReady(w) PROVE CreateInv'
  BY <1>8 DEF WaitReady, SeeReady, GiveUp, At, TypeOK, CreateInv, Making, Exists
<1>9. ASSUME NEW w \in Stations, SetReady(w) PROVE CreateInv'
  BY <1>9 DEF SetReady, EndWith, SetState, At, TypeOK, CreateInv, Making, Exists
<1>10. ASSUME NEW w \in Stations, DeletePod(w) PROVE CreateInv'
  BY <1>10 DEF DeletePod, Removed, TypeOK, CreateInv, Making, Exists
<1>11. ASSUME NEW w \in Stations, DeleteRow(w) PROVE CreateInv'
  BY <1>11 DEF DeleteRow, TypeOK, CreateInv, Making, Exists
<1>12. ASSUME NEW w \in Stations, MarkDown(w) PROVE CreateInv'
  BY <1>12 DEF MarkDown, TypeOK, CreateInv, Making, Exists
<1>13. ASSUME NEW w \in Stations, OpenSession(w) PROVE CreateInv'
  BY <1>13 DEF OpenSession, TypeOK, CreateInv, Making, Exists
<1>14. ASSUME NEW w \in Stations, PodStarts(w) PROVE CreateInv'
  BY <1>14 DEF PodStarts, TypeOK, CreateInv, Making, Exists
<1>15. ASSUME NEW w \in Stations, PodFalls(w) PROVE CreateInv'
  BY <1>15 DEF PodFalls, TypeOK, CreateInv, Making, Exists
<1>16. CASE StoreOwn BY <1>16 DEF StoreOwn, TypeOK, CreateInv, Making, Exists
<1>17. CASE Restart BY <1>17 DEF Restart, LeftRunning, TypeOK, CreateInv, Making, Exists
<1>19. ASSUME NEW w \in Stations, StopCreating(w) PROVE CreateInv'
  BY <1>19 DEF StopCreating, LeftRunning, At, TypeOK, CreateInv, Making, Exists
<1>20. ASSUME NEW w \in Stations, EndAdrift(w) PROVE CreateInv'
  BY <1>20 DEF EndAdrift, TakesEffect, NewPod, NewContainer, TypeOK, CreateInv, Making,
     Exists
<1>18. CASE UNCHANGED vars BY <1>18 DEF vars, TypeOK, CreateInv, Making, Exists
<1> QED
  BY <1>1, <1>2, <1>3, <1>4, <1>5, <1>6, <1>7, <1>8, <1>9, <1>10, <1>11, <1>12, <1>13,
     <1>14,
     <1>15, <1>16, <1>17, <1>18, <1>19, <1>20 DEF Next, CreateStep

\* Keys are stored before pods, and given to containers before stations are ready.
LEMMA KeyStep == ASSUME TypeOK, CreateInv, KeyInv, [Next]_vars PROVE KeyInv'
<1> USE DEF machine, history, config, handlers
<1>1. ASSUME NEW w \in Stations, CreateRow(w) PROVE KeyInv'
  <2>1. hasKey => secret'[w] # None /\ secret'[w] \in Secrets
    BY <1>1, ClusterAssumption DEF CreateRow, TypeOK, Secrets
  <2>2. \A v \in Stations \ {w} :
          row'[v] = row[v] /\ secret'[v] = secret[v] /\ creator'[v] = creator[v]
    BY <1>1 DEF CreateRow, At, TypeOK
  <2>3. creator'[w] = "secret" \/ (creator'[w] = "pod" /\ ~(hasKey /\ backend = "k8s"))
    BY <1>1 DEF CreateRow, At, TypeOK
  <2>4. hasKey \/ secret'[w] # "aga"
    BY <1>1, ClusterAssumption DEF CreateRow, TypeOK, Secrets
  <2>5. row'[w] = "creating" /\ row[w] = "absent"
    BY <1>1 DEF CreateRow, TypeOK
  <2>6. /\ adrift[w] = "none"
        /\ UNCHANGED <<pod, mounts, keyed, unkeyed, stored, adrift, hasKey, backend>>
    BY <1>1 DEF CreateRow, CreateInv, Making
  <2> QED BY <1>1, <2>1, <2>2, <2>3, <2>4, <2>5, <2>6 DEF KeyInv
<1>2. ASSUME NEW w \in Stations, EnsureSecret(w) PROVE KeyInv'
  BY <1>2 DEF EnsureSecret, Fail, EndWith, SetState, At, TypeOK, CreateInv, Making, KeyInv,
     Exists
<1>3. ASSUME NEW w \in Stations, ApplyPod(w) PROVE KeyInv'
  BY <1>3 DEF ApplyPod, Fail, EndWith, SetState, NewPod, Created, At, TypeOK, CreateInv,
     Making, KeyInv, Exists
<1>4. ASSUME NEW w \in Stations, InspectContainer(w) PROVE KeyInv'
  BY <1>4 DEF InspectContainer, Created, At, TypeOK, CreateInv, Making, KeyInv, Exists
<1>5. ASSUME NEW w \in Stations, StartContainer(w) PROVE KeyInv'
  BY <1>5 DEF StartContainer, Fail, EndWith, SetState, Created, At, TypeOK, CreateInv,
     Making, KeyInv, Exists
<1>6. ASSUME NEW w \in Stations, RunContainer(w) PROVE KeyInv'
  BY <1>6 DEF RunContainer, Fail, EndWith, SetState, NewContainer, Created, At, TypeOK,
     CreateInv, Making, KeyInv, Exists
<1>7. ASSUME NEW w \in Stations, InjectKey(w) PROVE KeyInv'
  BY <1>7 DEF InjectKey, At, TypeOK, CreateInv, Making, KeyInv, Exists
<1>8. ASSUME NEW w \in Stations, WaitReady(w) PROVE KeyInv'
  BY <1>8 DEF WaitReady, SeeReady, GiveUp, At, TypeOK, CreateInv, Making, KeyInv, Exists
<1>9. ASSUME NEW w \in Stations, SetReady(w) PROVE KeyInv'
  BY <1>9 DEF SetReady, EndWith, SetState, At, TypeOK, CreateInv, Making, KeyInv, Exists
<1>10. ASSUME NEW w \in Stations, DeletePod(w) PROVE KeyInv'
  BY <1>10 DEF DeletePod, Removed, TypeOK, CreateInv, Making, KeyInv, Exists
<1>11. ASSUME NEW w \in Stations, DeleteRow(w) PROVE KeyInv'
  BY <1>11 DEF DeleteRow, TypeOK, CreateInv, Making, KeyInv, Exists
<1>12. ASSUME NEW w \in Stations, MarkDown(w) PROVE KeyInv'
  BY <1>12 DEF MarkDown, TypeOK, CreateInv, Making, KeyInv, Exists
<1>13. ASSUME NEW w \in Stations, OpenSession(w) PROVE KeyInv'
  BY <1>13 DEF OpenSession, TypeOK, CreateInv, Making, KeyInv, Exists
<1>14. ASSUME NEW w \in Stations, PodStarts(w) PROVE KeyInv'
  BY <1>14 DEF PodStarts, TypeOK, CreateInv, Making, KeyInv, Exists
<1>15. ASSUME NEW w \in Stations, PodFalls(w) PROVE KeyInv'
  BY <1>15 DEF PodFalls, TypeOK, CreateInv, Making, KeyInv, Exists
<1>16. CASE StoreOwn BY <1>16 DEF StoreOwn, TypeOK, CreateInv, Making, KeyInv, Exists
<1>17. CASE Restart
  BY <1>17 DEF Restart, LeftRunning, TypeOK, CreateInv, Making, KeyInv, Exists
<1>19. ASSUME NEW w \in Stations, StopCreating(w) PROVE KeyInv'
  BY <1>19 DEF StopCreating, LeftRunning, At, TypeOK, CreateInv, Making, KeyInv, Exists
<1>20. ASSUME NEW w \in Stations, EndAdrift(w) PROVE KeyInv'
  BY <1>20 DEF EndAdrift, TakesEffect, NewPod, NewContainer, TypeOK, CreateInv, Making,
     KeyInv, Exists
<1>18. CASE UNCHANGED vars BY <1>18 DEF vars, TypeOK, CreateInv, Making, KeyInv, Exists
<1> QED
  BY <1>1, <1>2, <1>3, <1>4, <1>5, <1>6, <1>7, <1>8, <1>9, <1>10, <1>11, <1>12, <1>13,
     <1>14,
     <1>15, <1>16, <1>17, <1>18, <1>19, <1>20 DEF Next, CreateStep

\* Without a creation under way nothing makes a pod again.
LEMMA DeleteStep == ASSUME TypeOK, CreateInv, DeleteInv, [Next]_vars PROVE DeleteInv'
<1> USE DEF machine, history, config, handlers
<1>1. ASSUME NEW w \in Stations, CreateRow(w) PROVE DeleteInv'
  BY <1>1 DEF CreateRow, At, TypeOK, CreateInv, Making, DeleteInv, Exists
<1>2. ASSUME NEW w \in Stations, EnsureSecret(w) PROVE DeleteInv'
  BY <1>2 DEF EnsureSecret, Fail, EndWith, SetState, At, TypeOK, CreateInv, Making,
     DeleteInv, Exists
<1>3. ASSUME NEW w \in Stations, ApplyPod(w) PROVE DeleteInv'
  BY <1>3 DEF ApplyPod, Fail, EndWith, SetState, NewPod, Created, At, TypeOK, CreateInv,
     Making, DeleteInv, Exists
<1>4. ASSUME NEW w \in Stations, InspectContainer(w) PROVE DeleteInv'
  BY <1>4 DEF InspectContainer, Created, At, TypeOK, CreateInv, Making, DeleteInv, Exists
<1>5. ASSUME NEW w \in Stations, StartContainer(w) PROVE DeleteInv'
  BY <1>5 DEF StartContainer, Fail, EndWith, SetState, Created, At, TypeOK, CreateInv,
     Making, DeleteInv, Exists
<1>6. ASSUME NEW w \in Stations, RunContainer(w) PROVE DeleteInv'
  BY <1>6 DEF RunContainer, Fail, EndWith, SetState, NewContainer, Created, At, TypeOK,
     CreateInv, Making, DeleteInv, Exists
<1>7. ASSUME NEW w \in Stations, InjectKey(w) PROVE DeleteInv'
  BY <1>7 DEF InjectKey, At, TypeOK, CreateInv, Making, DeleteInv, Exists
<1>8. ASSUME NEW w \in Stations, WaitReady(w) PROVE DeleteInv'
  BY <1>8 DEF WaitReady, SeeReady, GiveUp, At, TypeOK, CreateInv, Making, DeleteInv, Exists
<1>9. ASSUME NEW w \in Stations, SetReady(w) PROVE DeleteInv'
  BY <1>9 DEF SetReady, EndWith, SetState, At, TypeOK, CreateInv, Making, DeleteInv, Exists
<1>10. ASSUME NEW w \in Stations, DeletePod(w) PROVE DeleteInv'
  BY <1>10 DEF DeletePod, Removed, TypeOK, CreateInv, Making, DeleteInv, Exists
<1>11. ASSUME NEW w \in Stations, DeleteRow(w) PROVE DeleteInv'
  BY <1>11 DEF DeleteRow, TypeOK, CreateInv, Making, DeleteInv, Exists
<1>12. ASSUME NEW w \in Stations, MarkDown(w) PROVE DeleteInv'
  BY <1>12 DEF MarkDown, TypeOK, CreateInv, Making, DeleteInv, Exists
<1>13. ASSUME NEW w \in Stations, OpenSession(w) PROVE DeleteInv'
  BY <1>13 DEF OpenSession, TypeOK, CreateInv, Making, DeleteInv, Exists
<1>14. ASSUME NEW w \in Stations, PodStarts(w) PROVE DeleteInv'
  BY <1>14 DEF PodStarts, TypeOK, CreateInv, Making, DeleteInv, Exists
<1>15. ASSUME NEW w \in Stations, PodFalls(w) PROVE DeleteInv'
  BY <1>15 DEF PodFalls, TypeOK, CreateInv, Making, DeleteInv, Exists
<1>16. CASE StoreOwn BY <1>16 DEF StoreOwn, TypeOK, CreateInv, Making, DeleteInv, Exists
<1>17. CASE Restart
  BY <1>17 DEF Restart, LeftRunning, TypeOK, CreateInv, Making, DeleteInv, Exists
<1>19. ASSUME NEW w \in Stations, StopCreating(w) PROVE DeleteInv'
  BY <1>19 DEF StopCreating, LeftRunning, At, TypeOK, CreateInv, Making, DeleteInv, Exists
<1>20. ASSUME NEW w \in Stations, EndAdrift(w) PROVE DeleteInv'
  BY <1>20 DEF EndAdrift, TakesEffect, NewPod, NewContainer, TypeOK, CreateInv, Making,
     DeleteInv, Exists
<1>18. CASE UNCHANGED vars BY <1>18 DEF vars, TypeOK, CreateInv, Making, DeleteInv, Exists
<1> QED
  BY <1>1, <1>2, <1>3, <1>4, <1>5, <1>6, <1>7, <1>8, <1>9, <1>10, <1>11, <1>12, <1>13,
     <1>14,
     <1>15, <1>16, <1>17, <1>18, <1>19, <1>20 DEF Next, CreateStep

\* Secrets are never taken out of the cluster.
LEMMA SecretStep == ASSUME TypeOK, KeyInv, SharedSecretStored,
     [Next]_vars PROVE SharedSecretStored'
<1> USE DEF machine, history, config, handlers
<1>1. ASSUME NEW w \in Stations, CreateRow(w) PROVE SharedSecretStored'
  BY <1>1 DEF CreateRow, At, TypeOK, KeyInv, SharedSecretStored
<1>2. ASSUME NEW w \in Stations, EnsureSecret(w) PROVE SharedSecretStored'
  BY <1>2 DEF EnsureSecret, Fail, EndWith, SetState, At, TypeOK, KeyInv, SharedSecretStored
<1>3. ASSUME NEW w \in Stations, ApplyPod(w) PROVE SharedSecretStored'
  BY <1>3 DEF ApplyPod, Fail, EndWith, SetState, NewPod, Created, At, TypeOK, KeyInv,
     SharedSecretStored
<1>4. ASSUME NEW w \in Stations, InspectContainer(w) PROVE SharedSecretStored'
  BY <1>4 DEF InspectContainer, Created, At, TypeOK, KeyInv, SharedSecretStored
<1>5. ASSUME NEW w \in Stations, StartContainer(w) PROVE SharedSecretStored'
  BY <1>5 DEF StartContainer, Fail, EndWith, SetState, Created, At, TypeOK, KeyInv,
     SharedSecretStored
<1>6. ASSUME NEW w \in Stations, RunContainer(w) PROVE SharedSecretStored'
  BY <1>6 DEF RunContainer, Fail, EndWith, SetState, NewContainer, Created, At, TypeOK,
     KeyInv, SharedSecretStored
<1>7. ASSUME NEW w \in Stations, InjectKey(w) PROVE SharedSecretStored'
  BY <1>7 DEF InjectKey, At, TypeOK, KeyInv, SharedSecretStored
<1>8. ASSUME NEW w \in Stations, WaitReady(w) PROVE SharedSecretStored'
  BY <1>8 DEF WaitReady, SeeReady, GiveUp, At, TypeOK, KeyInv, SharedSecretStored
<1>9. ASSUME NEW w \in Stations, SetReady(w) PROVE SharedSecretStored'
  BY <1>9 DEF SetReady, EndWith, SetState, At, TypeOK, KeyInv, SharedSecretStored
<1>10. ASSUME NEW w \in Stations, DeletePod(w) PROVE SharedSecretStored'
  BY <1>10, ClusterAssumption DEF DeletePod, Removed, TypeOK, SharedSecretStored, Secrets
<1>11. ASSUME NEW w \in Stations, DeleteRow(w) PROVE SharedSecretStored'
  BY <1>11 DEF DeleteRow, TypeOK, KeyInv, SharedSecretStored
<1>12. ASSUME NEW w \in Stations, MarkDown(w) PROVE SharedSecretStored'
  BY <1>12 DEF MarkDown, TypeOK, KeyInv, SharedSecretStored
<1>13. ASSUME NEW w \in Stations, OpenSession(w) PROVE SharedSecretStored'
  BY <1>13 DEF OpenSession, TypeOK, KeyInv, SharedSecretStored
<1>14. ASSUME NEW w \in Stations, PodStarts(w) PROVE SharedSecretStored'
  BY <1>14 DEF PodStarts, TypeOK, KeyInv, SharedSecretStored
<1>15. ASSUME NEW w \in Stations, PodFalls(w) PROVE SharedSecretStored'
  BY <1>15 DEF PodFalls, TypeOK, KeyInv, SharedSecretStored
<1>16. CASE StoreOwn BY <1>16 DEF StoreOwn, TypeOK, KeyInv, SharedSecretStored
<1>17. CASE Restart BY <1>17 DEF Restart, LeftRunning, TypeOK, KeyInv, SharedSecretStored
<1>19. ASSUME NEW w \in Stations, StopCreating(w) PROVE SharedSecretStored'
  BY <1>19 DEF StopCreating, LeftRunning, At, TypeOK, KeyInv, SharedSecretStored
<1>20. ASSUME NEW w \in Stations, EndAdrift(w) PROVE SharedSecretStored'
  BY <1>20 DEF EndAdrift, TakesEffect, NewPod, NewContainer, TypeOK, KeyInv,
     SharedSecretStored
<1>18. CASE UNCHANGED vars BY <1>18 DEF vars, TypeOK, KeyInv, SharedSecretStored
<1> QED
  BY <1>1, <1>2, <1>3, <1>4, <1>5, <1>6, <1>7, <1>8, <1>9, <1>10, <1>11, <1>12, <1>13,
     <1>14,
     <1>15, <1>16, <1>17, <1>18, <1>19, <1>20 DEF Next, CreateStep

\* Every end of a creation but two writes the state.
LEMMA LeftStep == ASSUME TypeOK, LeftCreating, [Next]_vars PROVE LeftCreating'
<1> USE DEF machine, history, config, handlers
<1>1. ASSUME NEW w \in Stations, CreateRow(w) PROVE LeftCreating'
  BY <1>1 DEF CreateRow, At, TypeOK, LeftCreating, Exists
<1>2. ASSUME NEW w \in Stations, EnsureSecret(w) PROVE LeftCreating'
  BY <1>2 DEF EnsureSecret, Fail, EndWith, SetState, At, TypeOK, LeftCreating, Exists
<1>3. ASSUME NEW w \in Stations, ApplyPod(w) PROVE LeftCreating'
  BY <1>3 DEF ApplyPod, Fail, EndWith, SetState, NewPod, Created, At, TypeOK, LeftCreating,
     Exists
<1>4. ASSUME NEW w \in Stations, InspectContainer(w) PROVE LeftCreating'
  BY <1>4 DEF InspectContainer, Created, At, TypeOK, LeftCreating, Exists
<1>5. ASSUME NEW w \in Stations, StartContainer(w) PROVE LeftCreating'
  BY <1>5 DEF StartContainer, Fail, EndWith, SetState, Created, At, TypeOK, LeftCreating,
     Exists
<1>6. ASSUME NEW w \in Stations, RunContainer(w) PROVE LeftCreating'
  BY <1>6 DEF RunContainer, Fail, EndWith, SetState, NewContainer, Created, At, TypeOK,
     LeftCreating, Exists
<1>7. ASSUME NEW w \in Stations, InjectKey(w) PROVE LeftCreating'
  BY <1>7 DEF InjectKey, At, TypeOK, LeftCreating, Exists
<1>8. ASSUME NEW w \in Stations, WaitReady(w) PROVE LeftCreating'
  BY <1>8 DEF WaitReady, SeeReady, GiveUp, At, TypeOK, LeftCreating, Exists
<1>9. ASSUME NEW w \in Stations, SetReady(w) PROVE LeftCreating'
  BY <1>9 DEF SetReady, EndWith, SetState, At, TypeOK, LeftCreating, Exists
<1>10. ASSUME NEW w \in Stations, DeletePod(w) PROVE LeftCreating'
  BY <1>10 DEF DeletePod, Removed, TypeOK, LeftCreating, Exists
<1>11. ASSUME NEW w \in Stations, DeleteRow(w) PROVE LeftCreating'
  BY <1>11 DEF DeleteRow, TypeOK, LeftCreating, Exists
<1>12. ASSUME NEW w \in Stations, MarkDown(w) PROVE LeftCreating'
  BY <1>12 DEF MarkDown, TypeOK, LeftCreating, Exists
<1>13. ASSUME NEW w \in Stations, OpenSession(w) PROVE LeftCreating'
  BY <1>13 DEF OpenSession, TypeOK, LeftCreating, Exists
<1>14. ASSUME NEW w \in Stations, PodStarts(w) PROVE LeftCreating'
  BY <1>14 DEF PodStarts, TypeOK, LeftCreating, Exists
<1>15. ASSUME NEW w \in Stations, PodFalls(w) PROVE LeftCreating'
  BY <1>15 DEF PodFalls, TypeOK, LeftCreating, Exists
<1>16. CASE StoreOwn BY <1>16 DEF StoreOwn, TypeOK, LeftCreating, Exists
<1>17. CASE Restart BY <1>17 DEF Restart, LeftRunning, TypeOK, LeftCreating, Exists
<1>19. ASSUME NEW w \in Stations, StopCreating(w) PROVE LeftCreating'
  BY <1>19 DEF StopCreating, LeftRunning, At, TypeOK, LeftCreating, Exists
<1>20. ASSUME NEW w \in Stations, EndAdrift(w) PROVE LeftCreating'
  BY <1>20 DEF EndAdrift, TakesEffect, NewPod, NewContainer, TypeOK, LeftCreating, Exists
<1>18. CASE UNCHANGED vars BY <1>18 DEF vars, TypeOK, LeftCreating, Exists
<1> QED
  BY <1>1, <1>2, <1>3, <1>4, <1>5, <1>6, <1>7, <1>8, <1>9, <1>10, <1>11, <1>12, <1>13,
     <1>14,
     <1>15, <1>16, <1>17, <1>18, <1>19, <1>20 DEF Next, CreateStep

\* The state is set after the pod was seen.
LEMMA ReadyStep == ASSUME TypeOK, CreateInv, ReadyWasSeen, [Next]_vars PROVE ReadyWasSeen'
<1> USE DEF machine, history, config, handlers
<1>1. ASSUME NEW w \in Stations, CreateRow(w) PROVE ReadyWasSeen'
  BY <1>1 DEF CreateRow, At, TypeOK, CreateInv, Making, ReadyWasSeen, Exists
<1>2. ASSUME NEW w \in Stations, EnsureSecret(w) PROVE ReadyWasSeen'
  BY <1>2 DEF EnsureSecret, Fail, EndWith, SetState, At, TypeOK, CreateInv, Making,
     ReadyWasSeen, Exists
<1>3. ASSUME NEW w \in Stations, ApplyPod(w) PROVE ReadyWasSeen'
  BY <1>3 DEF ApplyPod, Fail, EndWith, SetState, NewPod, Created, At, TypeOK, CreateInv,
     Making, ReadyWasSeen, Exists
<1>4. ASSUME NEW w \in Stations, InspectContainer(w) PROVE ReadyWasSeen'
  BY <1>4 DEF InspectContainer, Created, At, TypeOK, CreateInv, Making, ReadyWasSeen, Exists
<1>5. ASSUME NEW w \in Stations, StartContainer(w) PROVE ReadyWasSeen'
  BY <1>5 DEF StartContainer, Fail, EndWith, SetState, Created, At, TypeOK, CreateInv,
     Making, ReadyWasSeen, Exists
<1>6. ASSUME NEW w \in Stations, RunContainer(w) PROVE ReadyWasSeen'
  BY <1>6 DEF RunContainer, Fail, EndWith, SetState, NewContainer, Created, At, TypeOK,
     CreateInv, Making, ReadyWasSeen, Exists
<1>7. ASSUME NEW w \in Stations, InjectKey(w) PROVE ReadyWasSeen'
  BY <1>7 DEF InjectKey, At, TypeOK, CreateInv, Making, ReadyWasSeen, Exists
<1>8. ASSUME NEW w \in Stations, WaitReady(w) PROVE ReadyWasSeen'
  BY <1>8 DEF WaitReady, SeeReady, GiveUp, At, TypeOK, CreateInv, Making, ReadyWasSeen,
     Exists
<1>9. ASSUME NEW w \in Stations, SetReady(w) PROVE ReadyWasSeen'
  BY <1>9 DEF SetReady, EndWith, SetState, At, TypeOK, CreateInv, Making, ReadyWasSeen,
     Exists
<1>10. ASSUME NEW w \in Stations, DeletePod(w) PROVE ReadyWasSeen'
  BY <1>10 DEF DeletePod, Removed, TypeOK, CreateInv, Making, ReadyWasSeen, Exists
<1>11. ASSUME NEW w \in Stations, DeleteRow(w) PROVE ReadyWasSeen'
  BY <1>11 DEF DeleteRow, TypeOK, CreateInv, Making, ReadyWasSeen, Exists
<1>12. ASSUME NEW w \in Stations, MarkDown(w) PROVE ReadyWasSeen'
  BY <1>12 DEF MarkDown, TypeOK, CreateInv, Making, ReadyWasSeen, Exists
<1>13. ASSUME NEW w \in Stations, OpenSession(w) PROVE ReadyWasSeen'
  BY <1>13 DEF OpenSession, TypeOK, CreateInv, Making, ReadyWasSeen, Exists
<1>14. ASSUME NEW w \in Stations, PodStarts(w) PROVE ReadyWasSeen'
  BY <1>14 DEF PodStarts, TypeOK, CreateInv, Making, ReadyWasSeen, Exists
<1>15. ASSUME NEW w \in Stations, PodFalls(w) PROVE ReadyWasSeen'
  BY <1>15 DEF PodFalls, TypeOK, CreateInv, Making, ReadyWasSeen, Exists
<1>16. CASE StoreOwn BY <1>16 DEF StoreOwn, TypeOK, CreateInv, Making, ReadyWasSeen, Exists
<1>17. CASE Restart
  BY <1>17 DEF Restart, LeftRunning, TypeOK, CreateInv, Making, ReadyWasSeen, Exists
<1>19. ASSUME NEW w \in Stations, StopCreating(w) PROVE ReadyWasSeen'
  BY <1>19 DEF StopCreating, LeftRunning, At, TypeOK, CreateInv, Making, ReadyWasSeen,
     Exists
<1>20. ASSUME NEW w \in Stations, EndAdrift(w) PROVE ReadyWasSeen'
  BY <1>20 DEF EndAdrift, TakesEffect, NewPod, NewContainer, TypeOK, CreateInv, Making,
     ReadyWasSeen, Exists
<1>18. CASE UNCHANGED vars
  BY <1>18 DEF vars, TypeOK, CreateInv, Making, ReadyWasSeen, Exists
<1> QED
  BY <1>1, <1>2, <1>3, <1>4, <1>5, <1>6, <1>7, <1>8, <1>9, <1>10, <1>11, <1>12, <1>13,
     <1>14,
     <1>15, <1>16, <1>17, <1>18, <1>19, <1>20 DEF Next, CreateStep

-----------------------------------------------------------------------------
(* The theorems.                                                           *)

LEMMA InitInv == Init => Inv
<1> SUFFICES ASSUME Init PROVE Inv OBVIOUS
<1>1. TypeOK BY InitType
<1>2. CreateInv /\ DeleteInv BY DEF Init, CreateInv, DeleteInv, Making
<1>3. backend = "k8s" => \A w \in Stations : pod[w] = "none" BY DEF Init
<1>4. KeyInv BY <1>3 DEF Init, KeyInv
<1> QED BY <1>1, <1>2, <1>4 DEF Inv

LEMMA InvStep == Inv /\ [Next]_vars => Inv'
BY TypeStep, CreateStepKeeps, KeyStep, DeleteStep DEF Inv

\* TypeOK: every variable keeps to its type, and nothing is known of a machine that
\* is gone.
THEOREM TypeCorrect == Spec => []TypeOK
<1>1. Inv => TypeOK BY DEF Inv
<1> QED BY <1>1, InitInv, InvStep, PTL DEF Spec

\* StateIsTrue: whatever fails, falls or races, a station is "ready" only if its pod
\* was seen to be, and left in "creating" only by a creation that waited in vain, was
\* interrupted, or whose last UPDATE failed.
THEOREM StateIsTrueCorrect == Spec => []StateIsTrue
<1>1. Init => ReadyWasSeen /\ LeftCreating BY DEF Init, ReadyWasSeen, LeftCreating
<1>2. Inv /\ [Next]_vars /\ ReadyWasSeen => ReadyWasSeen' BY ReadyStep DEF Inv
<1>3. Inv /\ [Next]_vars /\ LeftCreating => LeftCreating' BY LeftStep DEF Inv
<1>4. ReadyWasSeen /\ LeftCreating => StateIsTrue BY DEF StateIsTrue
<1> QED BY <1>1, <1>2, <1>3, <1>4, InitInv, InvStep, PTL DEF Spec

\* SharedSecretStored: the server never makes a pod that waits for its own key.
THEOREM SharedSecretStoredCorrect == Spec => []SharedSecretStored
<1>1. Init => SharedSecretStored
  BY ClusterAssumption DEF Init, SharedSecretStored, Secrets
<1>2. Inv /\ [Next]_vars /\ SharedSecretStored => SharedSecretStored'
  BY SecretStep DEF Inv
<1> QED BY <1>1, <1>2, InitInv, InvStep, PTL DEF Spec

\* KeyInPlace: from the secret of the row to the mount, and from the creation of a
\* container to its key, nothing in between loses it.
THEOREM KeyInPlaceCorrect == Spec => []KeyInPlace
<1>1. Inv => KeyInPlace
  <2> SUFFICES ASSUME Inv, hasKey, NEW w \in Stations, row[w] = "ready", pod[w] # "none"
               PROVE IF backend = "k8s" THEN mounts[w] = secret[w] /\ mounts[w] # None
                                        ELSE w \in keyed \cup unkeyed
    BY DEF KeyInPlace
  <2> QED BY DEF Inv, TypeOK, KeyInv
<1> QED BY <1>1, InitInv, InvStep, PTL DEF Spec

\* NoOrphan: deleting a station removes its machine for good, unless the creation of
\* the station was under way or had left a command running.
THEOREM NoOrphanCorrect == Spec => []NoOrphan
<1>1. Inv => NoOrphan BY DEF Inv, DeleteInv, NoOrphan
<1> QED BY <1>1, InitInv, InvStep, PTL DEF Spec

\* MachinesOK, which is all of them.
THEOREM MachinesOKCorrect == Spec => []MachinesOK
<1>1. TypeOK /\ SharedSecretStored /\ KeyInPlace /\ NoOrphan => MachinesOK BY DEF MachinesOK
<1> QED
  BY <1>1, TypeCorrect, SharedSecretStoredCorrect, KeyInPlaceCorrect, NoOrphanCorrect, PTL

-----------------------------------------------------------------------------
(* The start of the stores (module Startup).                               *)

\* s is a sequence of m elements.
Lists(s, m) == m \in Nat /\ Len(s) = m /\ \E S : s \in Seq(S)

\* all is s with its m elements, then u with its n elements.
Joined(all, s, m, u, n) ==
  /\ Lists(all, m + n)
  /\ \A i \in 1..m : all[i] = s[i]
  /\ \A i \in 1..n : all[m + i] = u[i]

LEMMA Chained ==
  ASSUME NEW s, NEW u, NEW m, NEW n, Lists(s, m), Lists(u, n)
  PROVE  Joined(s \o u, s, m, u, n)
<1>1. PICK S : s \in Seq(S)
  BY DEF Lists
<1>2. PICK U : u \in Seq(U)
  BY DEF Lists
<1> DEFINE Both == S \cup U
<1>3. s \in Seq(Both) /\ u \in Seq(Both)
  <2>1. \A i \in 1..Len(s) : s[i] \in Both
    BY <1>1, ElementOfSeq
  <2>2. \A i \in 1..Len(u) : u[i] \in Both
    BY <1>2, ElementOfSeq
  <2> QED
    BY <1>1, <1>2, <2>1, <2>2, SeqDef
<1> HIDE DEF Both
<1>4. /\ s \o u \in Seq(Both) /\ Len(s \o u) = Len(s) + Len(u)
      /\ \A i \in 1 .. Len(s) + Len(u) : (s \o u)[i] = IF i <= Len(s) THEN s[i] ELSE u[i - Len(s)]
  BY <1>3, ConcatProperties
<1>5. m \in Nat /\ n \in Nat /\ Len(s) = m /\ Len(u) = n
  BY DEF Lists
<1>6. Lists(s \o u, m + n)
  BY <1>4, <1>5 DEF Lists
<1>7. \A i \in 1..m : (s \o u)[i] = s[i]
  BY <1>4, <1>5
<1>8. \A i \in 1..n : (s \o u)[m + i] = u[i]
  BY <1>4, <1>5
<1> QED
  BY <1>6, <1>7, <1>8 DEF Joined


LEMMA OneListed == \A a : Lists(<<a>>, 1) /\ <<a>>[1] = a
<1> TAKE a
<1>1. Len(<<a>>) = 1 /\ <<a>> \in Seq({a}) /\ <<a>>[1] = a
  OBVIOUS
<1> QED
  BY <1>1 DEF Lists

LEMMA TwoListed == \A a, b : Lists(<<a, b>>, 2) /\ <<a, b>>[1] = a /\ <<a, b>>[2] = b
<1> TAKE a, b
<1>1. Len(<<a, b>>) = 2 /\ <<a, b>> \in Seq({a, b}) /\ <<a, b>>[1] = a /\ <<a, b>>[2] = b
  OBVIOUS
<1> QED
  BY <1>1 DEF Lists

LEMMA TraceTablesParts ==
  /\ Lists(TraceTables, 6)
  /\ TraceTables[1] = Create([human_requests |-> {"chat_id", "question_message_id",
            "agent_name"}, projects |-> {"git_url"}])
  /\ TraceTables[2] = Read("projects", {"compose_path", "git_url"})
  /\ TraceTables[3] = Rename("projects", "compose_path", "git_url")
  /\ TraceTables[4] = Read("agents", {"allowed_commands", "tools"})
  /\ TraceTables[5] = Rename("agents", "allowed_commands", "tools")
  /\ TraceTables[6] = Create([capabilities |-> {"content", "deleted"}])
<1>1. PICK a1, a2, a3, a4, a5, a6 :
        TraceTables = <<a1, a2, a3, a4, a5, a6>>
  BY DEF TraceTables
<1>2. Len(<<a1, a2, a3, a4, a5, a6>>) = 6 /\ <<a1, a2, a3, a4, a5, a6>> \in Seq({a1, a2, a3, a4, a5, a6})
  OBVIOUS
<1>3. Lists(TraceTables, 6)
  BY <1>1, <1>2 DEF Lists
<1> QED
  BY <1>3 DEF TraceTables

LEMMA CapabilityColumnsParts ==
  /\ Lists(CapabilityColumns, 4)
  /\ CapabilityColumns[1] = Read("capabilities", {"content", "deleted"})
  /\ CapabilityColumns[2] = Add("capabilities", "content")
  /\ CapabilityColumns[3] = Do("fill")
  /\ CapabilityColumns[4] = Add("capabilities", "deleted")
<1>1. PICK a1, a2, a3, a4 :
        CapabilityColumns = <<a1, a2, a3, a4>>
  BY DEF CapabilityColumns
<1>2. Len(<<a1, a2, a3, a4>>) = 4 /\ <<a1, a2, a3, a4>> \in Seq({a1, a2, a3, a4})
  OBVIOUS
<1>3. Lists(CapabilityColumns, 4)
  BY <1>1, <1>2 DEF Lists
<1> QED
  BY <1>3 DEF CapabilityColumns

LEMMA HistoryAndLlmsParts ==
  /\ Lists(HistoryAndLlms, 9)
  /\ HistoryAndLlms[1] = Create([capability_history |-> {"content"}])
  /\ HistoryAndLlms[2] = Read("capability_history", {"content"})
  /\ HistoryAndLlms[3] = Add("capability_history", "content")
  /\ HistoryAndLlms[4] = Create([llm_connections |-> {"model", "is_default", "native_tools"}])
  /\ HistoryAndLlms[5] = Read("llm_connections", {"model", "is_default", "native_tools"})
  /\ HistoryAndLlms[6] = Add("llm_connections", "model")
  /\ HistoryAndLlms[7] = Add("llm_connections", "is_default")
  /\ HistoryAndLlms[8] = Add("llm_connections", "native_tools")
  /\ HistoryAndLlms[9] = Index("llm_connections", "is_default")
<1> DEFINE p1 == <<Create([capability_history |-> {"content"}])>>
<1> DEFINE p2 == Ensure("capability_history", "content")
<1> DEFINE p3 == <<Create([llm_connections |-> {"model", "is_default", "native_tools"}]),
                 Read("llm_connections", {"model", "is_default", "native_tools"}),
                 Add("llm_connections", "model"),
                 Add("llm_connections", "is_default"),
                 Add("llm_connections", "native_tools"),
                 Index("llm_connections", "is_default")>>
<1>1. /\ Lists(p1, 1)
       /\ p1[1] = Create([capability_history |-> {"content"}])
  BY OneListed
<1>2. /\ Lists(p2, 2)
       /\ p2[1] = Read("capability_history", {"content"})
       /\ p2[2] = Add("capability_history", "content")
  BY TwoListed DEF Ensure
<1>3. /\ Lists(p3, 6)
       /\ p3[1] = Create([llm_connections |-> {"model", "is_default", "native_tools"}])
       /\ p3[2] = Read("llm_connections", {"model", "is_default", "native_tools"})
       /\ p3[3] = Add("llm_connections", "model")
       /\ p3[4] = Add("llm_connections", "is_default")
       /\ p3[5] = Add("llm_connections", "native_tools")
       /\ p3[6] = Index("llm_connections", "is_default")
  <2>1. PICK a1, a2, a3, a4, a5, a6 :
          p3 = <<a1, a2, a3, a4, a5, a6>>
    OBVIOUS
  <2>2. Len(<<a1, a2, a3, a4, a5, a6>>) = 6 /\ <<a1, a2, a3, a4, a5, a6>> \in Seq({a1, a2, a3, a4, a5, a6})
    OBVIOUS
  <2>3. Lists(p3, 6)
    BY <2>1, <2>2 DEF Lists
  <2> QED
    BY <2>3
<1>4. HistoryAndLlms = p1 \o p2 \o p3
  BY DEF HistoryAndLlms
<1> HIDE DEF p1, p2, p3
<1> DEFINE q2 == p1 \o p2
<1>5. /\ Lists(q2, 3) /\ (\A i \in 1..1 : q2[i] = p1[i])
      /\ \A i \in 1..2 : q2[1 + i] = p2[i]
  <2>1. Lists(p1, 1) /\ Lists(p2, 2)
    BY <1>1, <1>2
  <2>2. Joined(q2, p1, 1, p2, 2)
    BY <2>1, Chained, Zenon
  <2> HIDE DEF q2
  <2> QED
    BY <2>2 DEF Joined
<1> HIDE DEF q2
<1> DEFINE q3 == q2 \o p3
<1>6. /\ Lists(q3, 9) /\ (\A i \in 1..3 : q3[i] = q2[i])
      /\ \A i \in 1..6 : q3[3 + i] = p3[i]
  <2>1. Lists(q2, 3) /\ Lists(p3, 6)
    BY <1>5, <1>3
  <2>2. Joined(q3, q2, 3, p3, 6)
    BY <2>1, Chained, Zenon
  <2> HIDE DEF q3
  <2> QED
    BY <2>2 DEF Joined
<1> HIDE DEF q3
<1>7. HistoryAndLlms = q3
  BY <1>4 DEF q2, q3
<1> QED
  BY <1>1, <1>2, <1>3, <1>5, <1>6, <1>7

LEMMA AgentTablesParts ==
  /\ Lists(AgentTables, 9)
  /\ AgentTables[1] = Create([agents |-> {"tools", "llm_id", "listen_user_id"}])
  /\ AgentTables[2] = Read("agents", {"llm_id"})
  /\ AgentTables[3] = Add("agents", "llm_id")
  /\ AgentTables[4] = Read("agents", {"listen_user_id"})
  /\ AgentTables[5] = Add("agents", "listen_user_id")
  /\ AgentTables[6] = Read("human_requests", {"chat_id", "question_message_id", "agent_name"})
  /\ AgentTables[7] = Add("human_requests", "chat_id")
  /\ AgentTables[8] = Add("human_requests", "question_message_id")
  /\ AgentTables[9] = Add("human_requests", "agent_name")
<1> DEFINE p1 == <<Create([agents |-> {"tools", "llm_id", "listen_user_id"}])>>
<1> DEFINE p2 == Ensure("agents", "llm_id")
<1> DEFINE p3 == Ensure("agents", "listen_user_id")
<1> DEFINE p4 == <<Read("human_requests", {"chat_id", "question_message_id", "agent_name"}),
                 Add("human_requests", "chat_id"),
                 Add("human_requests", "question_message_id"),
                 Add("human_requests", "agent_name")>>
<1>1. /\ Lists(p1, 1)
       /\ p1[1] = Create([agents |-> {"tools", "llm_id", "listen_user_id"}])
  BY OneListed
<1>2. /\ Lists(p2, 2)
       /\ p2[1] = Read("agents", {"llm_id"})
       /\ p2[2] = Add("agents", "llm_id")
  BY TwoListed DEF Ensure
<1>3. /\ Lists(p3, 2)
       /\ p3[1] = Read("agents", {"listen_user_id"})
       /\ p3[2] = Add("agents", "listen_user_id")
  BY TwoListed DEF Ensure
<1>4. /\ Lists(p4, 4)
       /\ p4[1] = Read("human_requests", {"chat_id", "question_message_id", "agent_name"})
       /\ p4[2] = Add("human_requests", "chat_id")
       /\ p4[3] = Add("human_requests", "question_message_id")
       /\ p4[4] = Add("human_requests", "agent_name")
  <2>1. PICK a1, a2, a3, a4 :
          p4 = <<a1, a2, a3, a4>>
    OBVIOUS
  <2>2. Len(<<a1, a2, a3, a4>>) = 4 /\ <<a1, a2, a3, a4>> \in Seq({a1, a2, a3, a4})
    OBVIOUS
  <2>3. Lists(p4, 4)
    BY <2>1, <2>2 DEF Lists
  <2> QED
    BY <2>3
<1>5. AgentTables = p1 \o p2 \o p3 \o p4
  BY DEF AgentTables
<1> HIDE DEF p1, p2, p3, p4
<1> DEFINE q2 == p1 \o p2
<1>6. /\ Lists(q2, 3) /\ (\A i \in 1..1 : q2[i] = p1[i])
      /\ \A i \in 1..2 : q2[1 + i] = p2[i]
  <2>1. Lists(p1, 1) /\ Lists(p2, 2)
    BY <1>1, <1>2
  <2>2. Joined(q2, p1, 1, p2, 2)
    BY <2>1, Chained, Zenon
  <2> HIDE DEF q2
  <2> QED
    BY <2>2 DEF Joined
<1> HIDE DEF q2
<1> DEFINE q3 == q2 \o p3
<1>7. /\ Lists(q3, 5) /\ (\A i \in 1..3 : q3[i] = q2[i])
      /\ \A i \in 1..2 : q3[3 + i] = p3[i]
  <2>1. Lists(q2, 3) /\ Lists(p3, 2)
    BY <1>6, <1>3
  <2>2. Joined(q3, q2, 3, p3, 2)
    BY <2>1, Chained, Zenon
  <2> HIDE DEF q3
  <2> QED
    BY <2>2 DEF Joined
<1> HIDE DEF q3
<1> DEFINE q4 == q3 \o p4
<1>8. /\ Lists(q4, 9) /\ (\A i \in 1..5 : q4[i] = q3[i])
      /\ \A i \in 1..4 : q4[5 + i] = p4[i]
  <2>1. Lists(q3, 5) /\ Lists(p4, 4)
    BY <1>7, <1>4
  <2>2. Joined(q4, q3, 5, p4, 4)
    BY <2>1, Chained, Zenon
  <2> HIDE DEF q4
  <2> QED
    BY <2>2 DEF Joined
<1> HIDE DEF q4
<1>9. AgentTables = q4
  BY <1>5 DEF q2, q3, q4
<1> QED
  BY <1>1, <1>2, <1>3, <1>4, <1>6, <1>7, <1>8, <1>9

LEMMA RemoveCommandsParts ==
  /\ Lists(RemoveCommands, 1)
  /\ RemoveCommands[1] = Do("remove")
<1>1. PICK a1 :
        RemoveCommands = <<a1>>
  BY DEF RemoveCommands
<1>2. Len(<<a1>>) = 1 /\ <<a1>> \in Seq({a1})
  OBVIOUS
<1>3. Lists(RemoveCommands, 1)
  BY <1>1, <1>2 DEF Lists
<1> QED
  BY <1>3 DEF RemoveCommands

LEMMA ChatTablesParts ==
  /\ Lists(ChatTables, 1)
  /\ ChatTables[1] = Create([workstations |-> {"secret", "current_session_id"},
            chats |-> {"start_message_id"}, messages |-> {"title", "thread_of_id", "hidden",
            "origin"}, chat_sessions |-> {}])
<1>1. PICK a1 :
        ChatTables = <<a1>>
  BY DEF ChatTables
<1>2. Len(<<a1>>) = 1 /\ <<a1>> \in Seq({a1})
  OBVIOUS
<1>3. Lists(ChatTables, 1)
  BY <1>1, <1>2 DEF Lists
<1> QED
  BY <1>3 DEF ChatTables

LEMMA ChatColumnsParts ==
  /\ Lists(ChatColumns, 18)
  /\ ChatColumns[1] = Read("workstations", {"secret"})
  /\ ChatColumns[2] = Add("workstations", "secret")
  /\ ChatColumns[3] = Read("workstations", {"current_session_id"})
  /\ ChatColumns[4] = Add("workstations", "current_session_id")
  /\ ChatColumns[5] = Read("chats", {"start_message_id"})
  /\ ChatColumns[6] = Add("chats", "start_message_id")
  /\ ChatColumns[7] = Read("messages", {"title"})
  /\ ChatColumns[8] = Add("messages", "title")
  /\ ChatColumns[9] = Read("messages", {"thread_of_id"})
  /\ ChatColumns[10] = Add("messages", "thread_of_id")
  /\ ChatColumns[11] = Read("messages", {"hidden"})
  /\ ChatColumns[12] = Add("messages", "hidden")
  /\ ChatColumns[13] = Read("messages", {"origin"})
  /\ ChatColumns[14] = Add("messages", "origin")
  /\ ChatColumns[15] = Read("messages", {"kind"})
  /\ ChatColumns[16] = Add("messages", "kind")
  /\ ChatColumns[17] = Read("messages", {"tool_call"})
  /\ ChatColumns[18] = Add("messages", "tool_call")
<1> DEFINE p1 == Ensure("workstations", "secret")
<1> DEFINE p2 == Ensure("workstations", "current_session_id")
<1> DEFINE p3 == Ensure("chats", "start_message_id")
<1> DEFINE p4 == Ensure("messages", "title")
<1> DEFINE p5 == Ensure("messages", "thread_of_id")
<1> DEFINE p6 == Ensure("messages", "hidden")
<1> DEFINE p7 == Ensure("messages", "origin")
<1> DEFINE p8 == Ensure("messages", "kind")
<1> DEFINE p9 == Ensure("messages", "tool_call")
<1>1. /\ Lists(p1, 2)
       /\ p1[1] = Read("workstations", {"secret"})
       /\ p1[2] = Add("workstations", "secret")
  BY TwoListed DEF Ensure
<1>2. /\ Lists(p2, 2)
       /\ p2[1] = Read("workstations", {"current_session_id"})
       /\ p2[2] = Add("workstations", "current_session_id")
  BY TwoListed DEF Ensure
<1>3. /\ Lists(p3, 2)
       /\ p3[1] = Read("chats", {"start_message_id"})
       /\ p3[2] = Add("chats", "start_message_id")
  BY TwoListed DEF Ensure
<1>4. /\ Lists(p4, 2)
       /\ p4[1] = Read("messages", {"title"})
       /\ p4[2] = Add("messages", "title")
  BY TwoListed DEF Ensure
<1>5. /\ Lists(p5, 2)
       /\ p5[1] = Read("messages", {"thread_of_id"})
       /\ p5[2] = Add("messages", "thread_of_id")
  BY TwoListed DEF Ensure
<1>6. /\ Lists(p6, 2)
       /\ p6[1] = Read("messages", {"hidden"})
       /\ p6[2] = Add("messages", "hidden")
  BY TwoListed DEF Ensure
<1>7. /\ Lists(p7, 2)
       /\ p7[1] = Read("messages", {"origin"})
       /\ p7[2] = Add("messages", "origin")
  BY TwoListed DEF Ensure
<1>8. /\ Lists(p8, 2)
       /\ p8[1] = Read("messages", {"kind"})
       /\ p8[2] = Add("messages", "kind")
  BY TwoListed DEF Ensure
<1>9. /\ Lists(p9, 2)
       /\ p9[1] = Read("messages", {"tool_call"})
       /\ p9[2] = Add("messages", "tool_call")
  BY TwoListed DEF Ensure
<1>10. ChatColumns = p1 \o p2 \o p3 \o p4 \o p5 \o p6 \o p7 \o p8 \o p9
  BY DEF ChatColumns
<1> HIDE DEF p1, p2, p3, p4, p5, p6, p7, p8, p9
<1> DEFINE q2 == p1 \o p2
<1>11. /\ Lists(q2, 4) /\ (\A i \in 1..2 : q2[i] = p1[i])
      /\ \A i \in 1..2 : q2[2 + i] = p2[i]
  <2>1. Lists(p1, 2) /\ Lists(p2, 2)
    BY <1>1, <1>2
  <2>2. Joined(q2, p1, 2, p2, 2)
    BY <2>1, Chained, Zenon
  <2> HIDE DEF q2
  <2> QED
    BY <2>2 DEF Joined
<1> HIDE DEF q2
<1> DEFINE q3 == q2 \o p3
<1>12. /\ Lists(q3, 6) /\ (\A i \in 1..4 : q3[i] = q2[i])
      /\ \A i \in 1..2 : q3[4 + i] = p3[i]
  <2>1. Lists(q2, 4) /\ Lists(p3, 2)
    BY <1>11, <1>3
  <2>2. Joined(q3, q2, 4, p3, 2)
    BY <2>1, Chained, Zenon
  <2> HIDE DEF q3
  <2> QED
    BY <2>2 DEF Joined
<1> HIDE DEF q3
<1> DEFINE q4 == q3 \o p4
<1>13. /\ Lists(q4, 8) /\ (\A i \in 1..6 : q4[i] = q3[i])
      /\ \A i \in 1..2 : q4[6 + i] = p4[i]
  <2>1. Lists(q3, 6) /\ Lists(p4, 2)
    BY <1>12, <1>4
  <2>2. Joined(q4, q3, 6, p4, 2)
    BY <2>1, Chained, Zenon
  <2> HIDE DEF q4
  <2> QED
    BY <2>2 DEF Joined
<1> HIDE DEF q4
<1> DEFINE q5 == q4 \o p5
<1>14. /\ Lists(q5, 10) /\ (\A i \in 1..8 : q5[i] = q4[i])
      /\ \A i \in 1..2 : q5[8 + i] = p5[i]
  <2>1. Lists(q4, 8) /\ Lists(p5, 2)
    BY <1>13, <1>5
  <2>2. Joined(q5, q4, 8, p5, 2)
    BY <2>1, Chained, Zenon
  <2> HIDE DEF q5
  <2> QED
    BY <2>2 DEF Joined
<1> HIDE DEF q5
<1> DEFINE q6 == q5 \o p6
<1>15. /\ Lists(q6, 12) /\ (\A i \in 1..10 : q6[i] = q5[i])
      /\ \A i \in 1..2 : q6[10 + i] = p6[i]
  <2>1. Lists(q5, 10) /\ Lists(p6, 2)
    BY <1>14, <1>6
  <2>2. Joined(q6, q5, 10, p6, 2)
    BY <2>1, Chained, Zenon
  <2> HIDE DEF q6
  <2> QED
    BY <2>2 DEF Joined
<1> HIDE DEF q6
<1> DEFINE q7 == q6 \o p7
<1>16. /\ Lists(q7, 14) /\ (\A i \in 1..12 : q7[i] = q6[i])
      /\ \A i \in 1..2 : q7[12 + i] = p7[i]
  <2>1. Lists(q6, 12) /\ Lists(p7, 2)
    BY <1>15, <1>7
  <2>2. Joined(q7, q6, 12, p7, 2)
    BY <2>1, Chained, Zenon
  <2> HIDE DEF q7
  <2> QED
    BY <2>2 DEF Joined
<1> HIDE DEF q7
<1> DEFINE q8 == q7 \o p8
<1>17. /\ Lists(q8, 16) /\ (\A i \in 1..14 : q8[i] = q7[i])
      /\ \A i \in 1..2 : q8[14 + i] = p8[i]
  <2>1. Lists(q7, 14) /\ Lists(p8, 2)
    BY <1>16, <1>8
  <2>2. Joined(q8, q7, 14, p8, 2)
    BY <2>1, Chained, Zenon
  <2> HIDE DEF q8
  <2> QED
    BY <2>2 DEF Joined
<1> HIDE DEF q8
<1> DEFINE q9 == q8 \o p9
<1>18. /\ Lists(q9, 18) /\ (\A i \in 1..16 : q9[i] = q8[i])
      /\ \A i \in 1..2 : q9[16 + i] = p9[i]
  <2>1. Lists(q8, 16) /\ Lists(p9, 2)
    BY <1>17, <1>9
  <2>2. Joined(q9, q8, 16, p9, 2)
    BY <2>1, Chained, Zenon
  <2> HIDE DEF q9
  <2> QED
    BY <2>2 DEF Joined
<1> HIDE DEF q9
<1>19. ChatColumns = q9
  BY <1>10 DEF q2, q3, q4, q5, q6, q7, q8, q9
<1> QED
  BY <1>1, <1>2, <1>3, <1>4, <1>5, <1>6, <1>7, <1>8, <1>9, <1>11, <1>12, <1>13, <1>14, <1>15, <1>16, <1>17, <1>18, <1>19

LEMMA MigrateSessionsParts ==
  /\ Lists(MigrateSessions, 3)
  /\ MigrateSessions[1] = Read("chats", {"workstation_id"})
  /\ MigrateSessions[2] = Read("workstations", {"project_id"})
  /\ MigrateSessions[3] = Do("sessions")
<1>1. PICK a1, a2, a3 :
        MigrateSessions = <<a1, a2, a3>>
  BY DEF MigrateSessions
<1>2. Len(<<a1, a2, a3>>) = 3 /\ <<a1, a2, a3>> \in Seq({a1, a2, a3})
  OBVIOUS
<1>3. Lists(MigrateSessions, 3)
  BY <1>1, <1>2 DEF Lists
<1> QED
  BY <1>3 DEF MigrateSessions

LEMMA DropProjectParts ==
  /\ Lists(DropProject, 2)
  /\ DropProject[1] = Read("workstations", {"project_id"})
  /\ DropProject[2] = Do("drop")
<1>1. PICK a1, a2 :
        DropProject = <<a1, a2>>
  BY DEF DropProject
<1>2. Len(<<a1, a2>>) = 2 /\ <<a1, a2>> \in Seq({a1, a2})
  OBVIOUS
<1>3. Lists(DropProject, 2)
  BY <1>1, <1>2 DEF Lists
<1> QED
  BY <1>3 DEF DropProject

LEMMA EnsureAnonymousParts ==
  /\ Lists(EnsureAnonymous, 2)
  /\ EnsureAnonymous[1] = Do("find")
  /\ EnsureAnonymous[2] = Do("insert")
<1>1. PICK a1, a2 :
        EnsureAnonymous = <<a1, a2>>
  BY DEF EnsureAnonymous
<1>2. Len(<<a1, a2>>) = 2 /\ <<a1, a2>> \in Seq({a1, a2})
  OBVIOUS
<1>3. Lists(EnsureAnonymous, 2)
  BY <1>1, <1>2 DEF Lists
<1> QED
  BY <1>3 DEF EnsureAnonymous

\* The statements of the start, numbered.
LEMMA PlanIs ==
  /\ Lists(Plan, 55)
  /\ Plan[1] = Create([human_requests |-> {"chat_id", "question_message_id", "agent_name"},
            projects |-> {"git_url"}])
  /\ Plan[2] = Read("projects", {"compose_path", "git_url"})
  /\ Plan[3] = Rename("projects", "compose_path", "git_url")
  /\ Plan[4] = Read("agents", {"allowed_commands", "tools"})
  /\ Plan[5] = Rename("agents", "allowed_commands", "tools")
  /\ Plan[6] = Create([capabilities |-> {"content", "deleted"}])
  /\ Plan[7] = Read("capabilities", {"content", "deleted"})
  /\ Plan[8] = Add("capabilities", "content")
  /\ Plan[9] = Do("fill")
  /\ Plan[10] = Add("capabilities", "deleted")
  /\ Plan[11] = Create([capability_history |-> {"content"}])
  /\ Plan[12] = Read("capability_history", {"content"})
  /\ Plan[13] = Add("capability_history", "content")
  /\ Plan[14] = Create([llm_connections |-> {"model", "is_default", "native_tools"}])
  /\ Plan[15] = Read("llm_connections", {"model", "is_default", "native_tools"})
  /\ Plan[16] = Add("llm_connections", "model")
  /\ Plan[17] = Add("llm_connections", "is_default")
  /\ Plan[18] = Add("llm_connections", "native_tools")
  /\ Plan[19] = Index("llm_connections", "is_default")
  /\ Plan[20] = Create([agents |-> {"tools", "llm_id", "listen_user_id"}])
  /\ Plan[21] = Read("agents", {"llm_id"})
  /\ Plan[22] = Add("agents", "llm_id")
  /\ Plan[23] = Read("agents", {"listen_user_id"})
  /\ Plan[24] = Add("agents", "listen_user_id")
  /\ Plan[25] = Read("human_requests", {"chat_id", "question_message_id", "agent_name"})
  /\ Plan[26] = Add("human_requests", "chat_id")
  /\ Plan[27] = Add("human_requests", "question_message_id")
  /\ Plan[28] = Add("human_requests", "agent_name")
  /\ Plan[29] = Do("remove")
  /\ Plan[30] = Create([workstations |-> {"secret", "current_session_id"},
            chats |-> {"start_message_id"}, messages |-> {"title", "thread_of_id", "hidden",
            "origin"}, chat_sessions |-> {}])
  /\ Plan[31] = Read("workstations", {"secret"})
  /\ Plan[32] = Add("workstations", "secret")
  /\ Plan[33] = Read("workstations", {"current_session_id"})
  /\ Plan[34] = Add("workstations", "current_session_id")
  /\ Plan[35] = Read("chats", {"start_message_id"})
  /\ Plan[36] = Add("chats", "start_message_id")
  /\ Plan[37] = Read("messages", {"title"})
  /\ Plan[38] = Add("messages", "title")
  /\ Plan[39] = Read("messages", {"thread_of_id"})
  /\ Plan[40] = Add("messages", "thread_of_id")
  /\ Plan[41] = Read("messages", {"hidden"})
  /\ Plan[42] = Add("messages", "hidden")
  /\ Plan[43] = Read("messages", {"origin"})
  /\ Plan[44] = Add("messages", "origin")
  /\ Plan[45] = Read("messages", {"kind"})
  /\ Plan[46] = Add("messages", "kind")
  /\ Plan[47] = Read("messages", {"tool_call"})
  /\ Plan[48] = Add("messages", "tool_call")
  /\ Plan[49] = Read("chats", {"workstation_id"})
  /\ Plan[50] = Read("workstations", {"project_id"})
  /\ Plan[51] = Do("sessions")
  /\ Plan[52] = Read("workstations", {"project_id"})
  /\ Plan[53] = Do("drop")
  /\ Plan[54] = Do("find")
  /\ Plan[55] = Do("insert")
<1> DEFINE q1 == TraceTables \o CapabilityColumns
<1>1. Joined(q1, TraceTables, 6, CapabilityColumns, 4)
  <2>1. Lists(TraceTables, 6) /\ Lists(CapabilityColumns, 4)
    BY TraceTablesParts, CapabilityColumnsParts
  <2> QED
    BY <2>1, Chained, Zenon
<1> HIDE DEF q1
<1> DEFINE q2 == q1 \o HistoryAndLlms
<1>2. Joined(q2, q1, 10, HistoryAndLlms, 9)
  <2>1. Lists(q1, 10) /\ Lists(HistoryAndLlms, 9)
    BY <1>1, HistoryAndLlmsParts DEF Joined
  <2> QED
    BY <2>1, Chained, Zenon
<1> HIDE DEF q2
<1> DEFINE q3 == q2 \o AgentTables
<1>3. Joined(q3, q2, 19, AgentTables, 9)
  <2>1. Lists(q2, 19) /\ Lists(AgentTables, 9)
    BY <1>2, AgentTablesParts DEF Joined
  <2> QED
    BY <2>1, Chained, Zenon
<1> HIDE DEF q3
<1> DEFINE q4 == q3 \o RemoveCommands
<1>4. Joined(q4, q3, 28, RemoveCommands, 1)
  <2>1. Lists(q3, 28) /\ Lists(RemoveCommands, 1)
    BY <1>3, RemoveCommandsParts DEF Joined
  <2> QED
    BY <2>1, Chained, Zenon
<1> HIDE DEF q4
<1> DEFINE q5 == q4 \o ChatTables
<1>5. Joined(q5, q4, 29, ChatTables, 1)
  <2>1. Lists(q4, 29) /\ Lists(ChatTables, 1)
    BY <1>4, ChatTablesParts DEF Joined
  <2> QED
    BY <2>1, Chained, Zenon
<1> HIDE DEF q5
<1> DEFINE q6 == q5 \o ChatColumns
<1>6. Joined(q6, q5, 30, ChatColumns, 18)
  <2>1. Lists(q5, 30) /\ Lists(ChatColumns, 18)
    BY <1>5, ChatColumnsParts DEF Joined
  <2> QED
    BY <2>1, Chained, Zenon
<1> HIDE DEF q6
<1> DEFINE q7 == q6 \o MigrateSessions
<1>7. Joined(q7, q6, 48, MigrateSessions, 3)
  <2>1. Lists(q6, 48) /\ Lists(MigrateSessions, 3)
    BY <1>6, MigrateSessionsParts DEF Joined
  <2> QED
    BY <2>1, Chained, Zenon
<1> HIDE DEF q7
<1> DEFINE q8 == q7 \o DropProject
<1>8. Joined(q8, q7, 51, DropProject, 2)
  <2>1. Lists(q7, 51) /\ Lists(DropProject, 2)
    BY <1>7, DropProjectParts DEF Joined
  <2> QED
    BY <2>1, Chained, Zenon
<1> HIDE DEF q8
<1> DEFINE q9 == q8 \o EnsureAnonymous
<1>9. Joined(q9, q8, 53, EnsureAnonymous, 2)
  <2>1. Lists(q8, 53) /\ Lists(EnsureAnonymous, 2)
    BY <1>8, EnsureAnonymousParts DEF Joined
  <2> QED
    BY <2>1, Chained, Zenon
<1> HIDE DEF q9
<1>10. Plan = q9
  BY DEF Plan, q1, q2, q3, q4, q5, q6, q7, q8, q9
<1>11. Lists(Plan, 55)
  BY <1>9, <1>10 DEF Joined
<1>12. \A i \in 1..53 : Plan[i] = q8[i]
  BY <1>9, <1>10 DEF Joined
<1>13. \A i \in 1..51 : Plan[i] = q7[i]
  BY <1>8, <1>12 DEF Joined
<1>14. \A i \in 1..48 : Plan[i] = q6[i]
  BY <1>7, <1>13 DEF Joined
<1>15. \A i \in 1..30 : Plan[i] = q5[i]
  BY <1>6, <1>14 DEF Joined
<1>16. \A i \in 1..29 : Plan[i] = q4[i]
  BY <1>5, <1>15 DEF Joined
<1>17. \A i \in 1..28 : Plan[i] = q3[i]
  BY <1>4, <1>16 DEF Joined
<1>18. \A i \in 1..19 : Plan[i] = q2[i]
  BY <1>3, <1>17 DEF Joined
<1>19. \A i \in 1..10 : Plan[i] = q1[i]
  BY <1>2, <1>18 DEF Joined
<1>20. \A i \in 1..6 : Plan[i] = TraceTables[i]
  BY <1>1, <1>19 DEF Joined
<1>21. \A i \in 1..4 : Plan[6 + i] = CapabilityColumns[i]
  BY <1>1, <1>19 DEF Joined
<1>22. \A i \in 1..9 : Plan[10 + i] = HistoryAndLlms[i]
  BY <1>2, <1>18 DEF Joined
<1>23. \A i \in 1..9 : Plan[19 + i] = AgentTables[i]
  BY <1>3, <1>17 DEF Joined
<1>24. \A i \in 1..1 : Plan[28 + i] = RemoveCommands[i]
  BY <1>4, <1>16 DEF Joined
<1>25. \A i \in 1..1 : Plan[29 + i] = ChatTables[i]
  BY <1>5, <1>15 DEF Joined
<1>26. \A i \in 1..18 : Plan[30 + i] = ChatColumns[i]
  BY <1>6, <1>14 DEF Joined
<1>27. \A i \in 1..3 : Plan[48 + i] = MigrateSessions[i]
  BY <1>7, <1>13 DEF Joined
<1>28. \A i \in 1..2 : Plan[51 + i] = DropProject[i]
  BY <1>8, <1>12 DEF Joined
<1>29. \A i \in 1..2 : Plan[53 + i] = EnsureAnonymous[i]
  BY <1>9, <1>10 DEF Joined
<1>30. /\ Plan[1] = TraceTables[1]
      /\ Plan[2] = TraceTables[2]
      /\ Plan[3] = TraceTables[3]
      /\ Plan[4] = TraceTables[4]
      /\ Plan[5] = TraceTables[5]
      /\ Plan[6] = TraceTables[6]
  BY <1>20
<1>31. /\ Plan[7] = CapabilityColumns[1]
      /\ Plan[8] = CapabilityColumns[2]
      /\ Plan[9] = CapabilityColumns[3]
      /\ Plan[10] = CapabilityColumns[4]
  BY <1>21
<1>32. /\ Plan[11] = HistoryAndLlms[1]
      /\ Plan[12] = HistoryAndLlms[2]
      /\ Plan[13] = HistoryAndLlms[3]
      /\ Plan[14] = HistoryAndLlms[4]
      /\ Plan[15] = HistoryAndLlms[5]
      /\ Plan[16] = HistoryAndLlms[6]
      /\ Plan[17] = HistoryAndLlms[7]
      /\ Plan[18] = HistoryAndLlms[8]
      /\ Plan[19] = HistoryAndLlms[9]
  BY <1>22
<1>33. /\ Plan[20] = AgentTables[1]
      /\ Plan[21] = AgentTables[2]
      /\ Plan[22] = AgentTables[3]
      /\ Plan[23] = AgentTables[4]
      /\ Plan[24] = AgentTables[5]
      /\ Plan[25] = AgentTables[6]
      /\ Plan[26] = AgentTables[7]
      /\ Plan[27] = AgentTables[8]
      /\ Plan[28] = AgentTables[9]
  BY <1>23
<1>34. /\ Plan[29] = RemoveCommands[1]
  BY <1>24
<1>35. /\ Plan[30] = ChatTables[1]
  BY <1>25
<1>36. /\ Plan[31] = ChatColumns[1]
      /\ Plan[32] = ChatColumns[2]
      /\ Plan[33] = ChatColumns[3]
      /\ Plan[34] = ChatColumns[4]
      /\ Plan[35] = ChatColumns[5]
      /\ Plan[36] = ChatColumns[6]
      /\ Plan[37] = ChatColumns[7]
      /\ Plan[38] = ChatColumns[8]
      /\ Plan[39] = ChatColumns[9]
      /\ Plan[40] = ChatColumns[10]
      /\ Plan[41] = ChatColumns[11]
      /\ Plan[42] = ChatColumns[12]
      /\ Plan[43] = ChatColumns[13]
      /\ Plan[44] = ChatColumns[14]
      /\ Plan[45] = ChatColumns[15]
      /\ Plan[46] = ChatColumns[16]
      /\ Plan[47] = ChatColumns[17]
      /\ Plan[48] = ChatColumns[18]
  BY <1>26
<1>37. /\ Plan[49] = MigrateSessions[1]
      /\ Plan[50] = MigrateSessions[2]
      /\ Plan[51] = MigrateSessions[3]
  BY <1>27
<1>38. /\ Plan[52] = DropProject[1]
      /\ Plan[53] = DropProject[2]
  BY <1>28
<1>39. /\ Plan[54] = EnsureAnonymous[1]
      /\ Plan[55] = EnsureAnonymous[2]
  BY <1>29
<1> QED
  BY <1>11, <1>30, <1>31, <1>32, <1>33, <1>34, <1>35, <1>36, <1>37, <1>38, <1>39,
     TraceTablesParts, CapabilityColumnsParts, HistoryAndLlmsParts, AgentTablesParts,
     RemoveCommandsParts, ChatTablesParts, ChatColumnsParts, MigrateSessionsParts,
     DropProjectParts, EnsureAnonymousParts

LEMMA Schema ==
  /\ Tables = {"human_requests", "projects", "capabilities", "capability_history",
            "llm_connections", "agents", "workstations", "chats", "messages", "chat_sessions"}
  /\ Required["human_requests"] = {"chat_id", "question_message_id", "agent_name"}
  /\ Required["projects"] = {"git_url"}
  /\ Required["capabilities"] = {"content", "deleted"}
  /\ Required["capability_history"] = {"content"}
  /\ Required["llm_connections"] = {"model", "is_default", "native_tools"}
  /\ Required["agents"] = {"tools", "llm_id", "listen_user_id"}
  /\ Required["workstations"] = {"secret", "current_session_id"}
  /\ Required["chats"] = {"start_message_id"}
  /\ Required["messages"] = {"title", "thread_of_id", "hidden", "origin", "kind", "tool_call"}
  /\ Required["chat_sessions"] = {}
<1>1. Tables = DOMAIN Required
  BY DEF Tables
<1> QED
  BY <1>1 DEF Required

\* Which statements are of which kind.
Creates == {1, 6, 11, 14, 20, 30}
Reads == {2, 4, 7, 12, 15, 21, 23, 25, 31, 33, 35, 37, 39, 41, 43, 45, 47, 49, 50, 52}
Adds == {8, 10, 13, 16, 17, 18, 22, 24, 26, 27, 28, 32, 34, 36, 38, 40, 42, 44, 46, 48}

LEMMA PlanKinds ==
  \A k \in 1..55 :
    /\ Plan[k].do = "create" <=> k \in Creates
    /\ Plan[k].do = "read" <=> k \in Reads
    /\ Plan[k].do = "add" <=> k \in Adds
    /\ Plan[k].do = "rename" <=> k \in {3, 5}
    /\ Plan[k].do = "index" <=> k = 19
    /\ Plan[k].do = "fill" <=> k = 9
    /\ Plan[k].do = "remove" <=> k = 29
    /\ Plan[k].do = "sessions" <=> k = 51
    /\ Plan[k].do = "drop" <=> k = 53
    /\ Plan[k].do = "find" <=> k = 54
    /\ Plan[k].do = "insert" <=> k = 55
<1>1. Plan[1].do = "create"
  BY PlanIs DEF Create
<1>2. Plan[2].do = "read"
  BY PlanIs DEF Read
<1>3. Plan[3].do = "rename"
  BY PlanIs DEF Rename
<1>4. Plan[4].do = "read"
  BY PlanIs DEF Read
<1>5. Plan[5].do = "rename"
  BY PlanIs DEF Rename
<1>6. Plan[6].do = "create"
  BY PlanIs DEF Create
<1>7. Plan[7].do = "read"
  BY PlanIs DEF Read
<1>8. Plan[8].do = "add"
  BY PlanIs DEF Add
<1>9. Plan[9].do = "fill"
  BY PlanIs DEF Do
<1>10. Plan[10].do = "add"
  BY PlanIs DEF Add
<1>11. Plan[11].do = "create"
  BY PlanIs DEF Create
<1>12. Plan[12].do = "read"
  BY PlanIs DEF Read
<1>13. Plan[13].do = "add"
  BY PlanIs DEF Add
<1>14. Plan[14].do = "create"
  BY PlanIs DEF Create
<1>15. Plan[15].do = "read"
  BY PlanIs DEF Read
<1>16. Plan[16].do = "add"
  BY PlanIs DEF Add
<1>17. Plan[17].do = "add"
  BY PlanIs DEF Add
<1>18. Plan[18].do = "add"
  BY PlanIs DEF Add
<1>19. Plan[19].do = "index"
  BY PlanIs DEF Index
<1>20. Plan[20].do = "create"
  BY PlanIs DEF Create
<1>21. Plan[21].do = "read"
  BY PlanIs DEF Read
<1>22. Plan[22].do = "add"
  BY PlanIs DEF Add
<1>23. Plan[23].do = "read"
  BY PlanIs DEF Read
<1>24. Plan[24].do = "add"
  BY PlanIs DEF Add
<1>25. Plan[25].do = "read"
  BY PlanIs DEF Read
<1>26. Plan[26].do = "add"
  BY PlanIs DEF Add
<1>27. Plan[27].do = "add"
  BY PlanIs DEF Add
<1>28. Plan[28].do = "add"
  BY PlanIs DEF Add
<1>29. Plan[29].do = "remove"
  BY PlanIs DEF Do
<1>30. Plan[30].do = "create"
  BY PlanIs DEF Create
<1>31. Plan[31].do = "read"
  BY PlanIs DEF Read
<1>32. Plan[32].do = "add"
  BY PlanIs DEF Add
<1>33. Plan[33].do = "read"
  BY PlanIs DEF Read
<1>34. Plan[34].do = "add"
  BY PlanIs DEF Add
<1>35. Plan[35].do = "read"
  BY PlanIs DEF Read
<1>36. Plan[36].do = "add"
  BY PlanIs DEF Add
<1>37. Plan[37].do = "read"
  BY PlanIs DEF Read
<1>38. Plan[38].do = "add"
  BY PlanIs DEF Add
<1>39. Plan[39].do = "read"
  BY PlanIs DEF Read
<1>40. Plan[40].do = "add"
  BY PlanIs DEF Add
<1>41. Plan[41].do = "read"
  BY PlanIs DEF Read
<1>42. Plan[42].do = "add"
  BY PlanIs DEF Add
<1>43. Plan[43].do = "read"
  BY PlanIs DEF Read
<1>44. Plan[44].do = "add"
  BY PlanIs DEF Add
<1>45. Plan[45].do = "read"
  BY PlanIs DEF Read
<1>46. Plan[46].do = "add"
  BY PlanIs DEF Add
<1>47. Plan[47].do = "read"
  BY PlanIs DEF Read
<1>48. Plan[48].do = "add"
  BY PlanIs DEF Add
<1>49. Plan[49].do = "read"
  BY PlanIs DEF Read
<1>50. Plan[50].do = "read"
  BY PlanIs DEF Read
<1>51. Plan[51].do = "sessions"
  BY PlanIs DEF Do
<1>52. Plan[52].do = "read"
  BY PlanIs DEF Read
<1>53. Plan[53].do = "drop"
  BY PlanIs DEF Do
<1>54. Plan[54].do = "find"
  BY PlanIs DEF Do
<1>55. Plan[55].do = "insert"
  BY PlanIs DEF Do
<1> QED
  BY <1>1, <1>2, <1>3, <1>4, <1>5, <1>6, <1>7, <1>8, <1>9, <1>10,
     <1>11, <1>12, <1>13, <1>14, <1>15, <1>16, <1>17, <1>18, <1>19, <1>20,
     <1>21, <1>22, <1>23, <1>24, <1>25, <1>26, <1>27, <1>28, <1>29, <1>30,
     <1>31, <1>32, <1>33, <1>34, <1>35, <1>36, <1>37, <1>38, <1>39, <1>40,
     <1>41, <1>42, <1>43, <1>44, <1>45, <1>46, <1>47, <1>48, <1>49, <1>50,
     <1>51, <1>52, <1>53, <1>54, <1>55
     DEF Creates, Reads, Adds

\* The column that statement k adds is read by statement r, of a table that exists since
\* statement i; between the reading and the adding there are only such alterations.
AddsAfter(k, r, i) ==
  LET t == Plan[k].table  c == Plan[k].column IN
  /\ t \in Tables /\ c \in Required[t]
  /\ i \in Creates /\ t \in DOMAIN Plan[i].tables /\ i < r
  /\ r \in Reads /\ Plan[r].table = t /\ c \in Plan[r].about /\ r < k
  /\ \A j \in (r + 1)..(k - 1) : j \in Adds \cup {9}

LEMMA AddsFound ==
  \A k \in Adds : \E r \in Reads, i \in Creates : AddsAfter(k, r, i)
<1>1. AddsAfter(8, 7, 6)
  BY Schema, PlanIs DEF AddsAfter, Add, Read, Create, Adds, Reads, Creates
<1>2. AddsAfter(10, 7, 6)
  BY Schema, PlanIs DEF AddsAfter, Add, Read, Create, Adds, Reads, Creates
<1>3. AddsAfter(13, 12, 11)
  BY Schema, PlanIs DEF AddsAfter, Add, Read, Create, Adds, Reads, Creates
<1>4. AddsAfter(16, 15, 14)
  BY Schema, PlanIs DEF AddsAfter, Add, Read, Create, Adds, Reads, Creates
<1>5. AddsAfter(17, 15, 14)
  BY Schema, PlanIs DEF AddsAfter, Add, Read, Create, Adds, Reads, Creates
<1>6. AddsAfter(18, 15, 14)
  BY Schema, PlanIs DEF AddsAfter, Add, Read, Create, Adds, Reads, Creates
<1>7. AddsAfter(22, 21, 20)
  BY Schema, PlanIs DEF AddsAfter, Add, Read, Create, Adds, Reads, Creates
<1>8. AddsAfter(24, 23, 20)
  BY Schema, PlanIs DEF AddsAfter, Add, Read, Create, Adds, Reads, Creates
<1>9. AddsAfter(26, 25, 1)
  BY Schema, PlanIs DEF AddsAfter, Add, Read, Create, Adds, Reads, Creates
<1>10. AddsAfter(27, 25, 1)
  BY Schema, PlanIs DEF AddsAfter, Add, Read, Create, Adds, Reads, Creates
<1>11. AddsAfter(28, 25, 1)
  BY Schema, PlanIs DEF AddsAfter, Add, Read, Create, Adds, Reads, Creates
<1>12. AddsAfter(32, 31, 30)
  BY Schema, PlanIs DEF AddsAfter, Add, Read, Create, Adds, Reads, Creates
<1>13. AddsAfter(34, 33, 30)
  BY Schema, PlanIs DEF AddsAfter, Add, Read, Create, Adds, Reads, Creates
<1>14. AddsAfter(36, 35, 30)
  BY Schema, PlanIs DEF AddsAfter, Add, Read, Create, Adds, Reads, Creates
<1>15. AddsAfter(38, 37, 30)
  BY Schema, PlanIs DEF AddsAfter, Add, Read, Create, Adds, Reads, Creates
<1>16. AddsAfter(40, 39, 30)
  BY Schema, PlanIs DEF AddsAfter, Add, Read, Create, Adds, Reads, Creates
<1>17. AddsAfter(42, 41, 30)
  BY Schema, PlanIs DEF AddsAfter, Add, Read, Create, Adds, Reads, Creates
<1>18. AddsAfter(44, 43, 30)
  BY Schema, PlanIs DEF AddsAfter, Add, Read, Create, Adds, Reads, Creates
<1>19. AddsAfter(46, 45, 30)
  BY Schema, PlanIs DEF AddsAfter, Add, Read, Create, Adds, Reads, Creates
<1>20. AddsAfter(48, 47, 30)
  BY Schema, PlanIs DEF AddsAfter, Add, Read, Create, Adds, Reads, Creates
<1>21. \A k, r, i : AddsAfter(k, r, i) => r \in Reads /\ i \in Creates
  BY DEF AddsAfter
<1> QED
  BY <1>1, <1>2, <1>3, <1>4, <1>5, <1>6, <1>7, <1>8, <1>9, <1>10,
     <1>11, <1>12, <1>13, <1>14, <1>15, <1>16, <1>17, <1>18, <1>19, <1>20,
     <1>21 DEF Adds

LEMMA CreatesKnown ==
  \A k \in Creates : \A t \in DOMAIN Plan[k].tables :
    /\ t \in Tables /\ Plan[k].tables[t] \subseteq Required[t]
    /\ t = "projects" => "git_url" \in Plan[k].tables[t]
    /\ t = "agents" => "tools" \in Plan[k].tables[t]
<1>1. Plan[1].tables = [human_requests |-> {"chat_id", "question_message_id", "agent_name"}, projects |-> {"git_url"}]
  BY PlanIs DEF Create
<1>2. Plan[6].tables = [capabilities |-> {"content", "deleted"}]
  BY PlanIs DEF Create
<1>3. Plan[11].tables = [capability_history |-> {"content"}]
  BY PlanIs DEF Create
<1>4. Plan[14].tables = [llm_connections |-> {"model", "is_default", "native_tools"}]
  BY PlanIs DEF Create
<1>5. Plan[20].tables = [agents |-> {"tools", "llm_id", "listen_user_id"}]
  BY PlanIs DEF Create
<1>6. Plan[30].tables = [workstations |-> {"secret", "current_session_id"}, chats |-> {"start_message_id"},
            messages |-> {"title", "thread_of_id", "hidden", "origin"}, chat_sessions |-> {}]
  BY PlanIs DEF Create
<1>7. \A t \in DOMAIN Plan[1].tables :
         /\ t \in Tables /\ Plan[1].tables[t] \subseteq Required[t]
         /\ t = "projects" => "git_url" \in Plan[1].tables[t]
         /\ t = "agents" => "tools" \in Plan[1].tables[t]
  BY <1>1, Schema
<1>8. \A t \in DOMAIN Plan[6].tables :
         /\ t \in Tables /\ Plan[6].tables[t] \subseteq Required[t]
         /\ t = "projects" => "git_url" \in Plan[6].tables[t]
         /\ t = "agents" => "tools" \in Plan[6].tables[t]
  BY <1>2, Schema
<1>9. \A t \in DOMAIN Plan[11].tables :
         /\ t \in Tables /\ Plan[11].tables[t] \subseteq Required[t]
         /\ t = "projects" => "git_url" \in Plan[11].tables[t]
         /\ t = "agents" => "tools" \in Plan[11].tables[t]
  BY <1>3, Schema
<1>10. \A t \in DOMAIN Plan[14].tables :
         /\ t \in Tables /\ Plan[14].tables[t] \subseteq Required[t]
         /\ t = "projects" => "git_url" \in Plan[14].tables[t]
         /\ t = "agents" => "tools" \in Plan[14].tables[t]
  BY <1>4, Schema
<1>11. \A t \in DOMAIN Plan[20].tables :
         /\ t \in Tables /\ Plan[20].tables[t] \subseteq Required[t]
         /\ t = "projects" => "git_url" \in Plan[20].tables[t]
         /\ t = "agents" => "tools" \in Plan[20].tables[t]
  BY <1>5, Schema
<1>12. \A t \in DOMAIN Plan[30].tables :
         /\ t \in Tables /\ Plan[30].tables[t] \subseteq Required[t]
         /\ t = "projects" => "git_url" \in Plan[30].tables[t]
         /\ t = "agents" => "tools" \in Plan[30].tables[t]
  BY <1>6, Schema
<1> QED
  BY <1>7, <1>8, <1>9, <1>10, <1>11, <1>12 DEF Creates

LEMMA ReadsKnown == \A k \in Reads : Plan[k].table \in Tables
<1>1. Plan[2].table \in Tables
  BY PlanIs, Schema DEF Read
<1>2. Plan[4].table \in Tables
  BY PlanIs, Schema DEF Read
<1>3. Plan[7].table \in Tables
  BY PlanIs, Schema DEF Read
<1>4. Plan[12].table \in Tables
  BY PlanIs, Schema DEF Read
<1>5. Plan[15].table \in Tables
  BY PlanIs, Schema DEF Read
<1>6. Plan[21].table \in Tables
  BY PlanIs, Schema DEF Read
<1>7. Plan[23].table \in Tables
  BY PlanIs, Schema DEF Read
<1>8. Plan[25].table \in Tables
  BY PlanIs, Schema DEF Read
<1>9. Plan[31].table \in Tables
  BY PlanIs, Schema DEF Read
<1>10. Plan[33].table \in Tables
  BY PlanIs, Schema DEF Read
<1>11. Plan[35].table \in Tables
  BY PlanIs, Schema DEF Read
<1>12. Plan[37].table \in Tables
  BY PlanIs, Schema DEF Read
<1>13. Plan[39].table \in Tables
  BY PlanIs, Schema DEF Read
<1>14. Plan[41].table \in Tables
  BY PlanIs, Schema DEF Read
<1>15. Plan[43].table \in Tables
  BY PlanIs, Schema DEF Read
<1>16. Plan[45].table \in Tables
  BY PlanIs, Schema DEF Read
<1>17. Plan[47].table \in Tables
  BY PlanIs, Schema DEF Read
<1>18. Plan[49].table \in Tables
  BY PlanIs, Schema DEF Read
<1>19. Plan[50].table \in Tables
  BY PlanIs, Schema DEF Read
<1>20. Plan[52].table \in Tables
  BY PlanIs, Schema DEF Read
<1> QED
  BY <1>1, <1>2, <1>3, <1>4, <1>5, <1>6, <1>7, <1>8, <1>9, <1>10,
     <1>11, <1>12, <1>13, <1>14, <1>15, <1>16, <1>17, <1>18, <1>19, <1>20 DEF Reads

\* No column is added twice.
LEMMA AddsDiffer ==
  \A j, k \in Adds : Plan[j].table = Plan[k].table /\ Plan[j].column = Plan[k].column => j = k
<1>1. Plan[8].table = "capabilities" /\ Plan[8].column = "content"
  BY PlanIs DEF Add
<1>2. Plan[10].table = "capabilities" /\ Plan[10].column = "deleted"
  BY PlanIs DEF Add
<1>3. Plan[13].table = "capability_history" /\ Plan[13].column = "content"
  BY PlanIs DEF Add
<1>4. Plan[16].table = "llm_connections" /\ Plan[16].column = "model"
  BY PlanIs DEF Add
<1>5. Plan[17].table = "llm_connections" /\ Plan[17].column = "is_default"
  BY PlanIs DEF Add
<1>6. Plan[18].table = "llm_connections" /\ Plan[18].column = "native_tools"
  BY PlanIs DEF Add
<1>7. Plan[22].table = "agents" /\ Plan[22].column = "llm_id"
  BY PlanIs DEF Add
<1>8. Plan[24].table = "agents" /\ Plan[24].column = "listen_user_id"
  BY PlanIs DEF Add
<1>9. Plan[26].table = "human_requests" /\ Plan[26].column = "chat_id"
  BY PlanIs DEF Add
<1>10. Plan[27].table = "human_requests" /\ Plan[27].column = "question_message_id"
  BY PlanIs DEF Add
<1>11. Plan[28].table = "human_requests" /\ Plan[28].column = "agent_name"
  BY PlanIs DEF Add
<1>12. Plan[32].table = "workstations" /\ Plan[32].column = "secret"
  BY PlanIs DEF Add
<1>13. Plan[34].table = "workstations" /\ Plan[34].column = "current_session_id"
  BY PlanIs DEF Add
<1>14. Plan[36].table = "chats" /\ Plan[36].column = "start_message_id"
  BY PlanIs DEF Add
<1>15. Plan[38].table = "messages" /\ Plan[38].column = "title"
  BY PlanIs DEF Add
<1>16. Plan[40].table = "messages" /\ Plan[40].column = "thread_of_id"
  BY PlanIs DEF Add
<1>17. Plan[42].table = "messages" /\ Plan[42].column = "hidden"
  BY PlanIs DEF Add
<1>18. Plan[44].table = "messages" /\ Plan[44].column = "origin"
  BY PlanIs DEF Add
<1>19. Plan[46].table = "messages" /\ Plan[46].column = "kind"
  BY PlanIs DEF Add
<1>20. Plan[48].table = "messages" /\ Plan[48].column = "tool_call"
  BY PlanIs DEF Add
<1>21. \A j \in Adds : Plan[j].table = Plan[8].table /\ Plan[j].column = Plan[8].column => j = 8
  BY <1>1, <1>2, <1>3, <1>4, <1>5, <1>6, <1>7, <1>8, <1>9, <1>10,
     <1>11, <1>12, <1>13, <1>14, <1>15, <1>16, <1>17, <1>18, <1>19, <1>20 DEF Adds
<1>22. \A j \in Adds : Plan[j].table = Plan[10].table /\ Plan[j].column = Plan[10].column => j = 10
  BY <1>1, <1>2, <1>3, <1>4, <1>5, <1>6, <1>7, <1>8, <1>9, <1>10,
     <1>11, <1>12, <1>13, <1>14, <1>15, <1>16, <1>17, <1>18, <1>19, <1>20 DEF Adds
<1>23. \A j \in Adds : Plan[j].table = Plan[13].table /\ Plan[j].column = Plan[13].column => j = 13
  BY <1>1, <1>2, <1>3, <1>4, <1>5, <1>6, <1>7, <1>8, <1>9, <1>10,
     <1>11, <1>12, <1>13, <1>14, <1>15, <1>16, <1>17, <1>18, <1>19, <1>20 DEF Adds
<1>24. \A j \in Adds : Plan[j].table = Plan[16].table /\ Plan[j].column = Plan[16].column => j = 16
  BY <1>1, <1>2, <1>3, <1>4, <1>5, <1>6, <1>7, <1>8, <1>9, <1>10,
     <1>11, <1>12, <1>13, <1>14, <1>15, <1>16, <1>17, <1>18, <1>19, <1>20 DEF Adds
<1>25. \A j \in Adds : Plan[j].table = Plan[17].table /\ Plan[j].column = Plan[17].column => j = 17
  BY <1>1, <1>2, <1>3, <1>4, <1>5, <1>6, <1>7, <1>8, <1>9, <1>10,
     <1>11, <1>12, <1>13, <1>14, <1>15, <1>16, <1>17, <1>18, <1>19, <1>20 DEF Adds
<1>26. \A j \in Adds : Plan[j].table = Plan[18].table /\ Plan[j].column = Plan[18].column => j = 18
  BY <1>1, <1>2, <1>3, <1>4, <1>5, <1>6, <1>7, <1>8, <1>9, <1>10,
     <1>11, <1>12, <1>13, <1>14, <1>15, <1>16, <1>17, <1>18, <1>19, <1>20 DEF Adds
<1>27. \A j \in Adds : Plan[j].table = Plan[22].table /\ Plan[j].column = Plan[22].column => j = 22
  BY <1>1, <1>2, <1>3, <1>4, <1>5, <1>6, <1>7, <1>8, <1>9, <1>10,
     <1>11, <1>12, <1>13, <1>14, <1>15, <1>16, <1>17, <1>18, <1>19, <1>20 DEF Adds
<1>28. \A j \in Adds : Plan[j].table = Plan[24].table /\ Plan[j].column = Plan[24].column => j = 24
  BY <1>1, <1>2, <1>3, <1>4, <1>5, <1>6, <1>7, <1>8, <1>9, <1>10,
     <1>11, <1>12, <1>13, <1>14, <1>15, <1>16, <1>17, <1>18, <1>19, <1>20 DEF Adds
<1>29. \A j \in Adds : Plan[j].table = Plan[26].table /\ Plan[j].column = Plan[26].column => j = 26
  BY <1>1, <1>2, <1>3, <1>4, <1>5, <1>6, <1>7, <1>8, <1>9, <1>10,
     <1>11, <1>12, <1>13, <1>14, <1>15, <1>16, <1>17, <1>18, <1>19, <1>20 DEF Adds
<1>30. \A j \in Adds : Plan[j].table = Plan[27].table /\ Plan[j].column = Plan[27].column => j = 27
  BY <1>1, <1>2, <1>3, <1>4, <1>5, <1>6, <1>7, <1>8, <1>9, <1>10,
     <1>11, <1>12, <1>13, <1>14, <1>15, <1>16, <1>17, <1>18, <1>19, <1>20 DEF Adds
<1>31. \A j \in Adds : Plan[j].table = Plan[28].table /\ Plan[j].column = Plan[28].column => j = 28
  BY <1>1, <1>2, <1>3, <1>4, <1>5, <1>6, <1>7, <1>8, <1>9, <1>10,
     <1>11, <1>12, <1>13, <1>14, <1>15, <1>16, <1>17, <1>18, <1>19, <1>20 DEF Adds
<1>32. \A j \in Adds : Plan[j].table = Plan[32].table /\ Plan[j].column = Plan[32].column => j = 32
  BY <1>1, <1>2, <1>3, <1>4, <1>5, <1>6, <1>7, <1>8, <1>9, <1>10,
     <1>11, <1>12, <1>13, <1>14, <1>15, <1>16, <1>17, <1>18, <1>19, <1>20 DEF Adds
<1>33. \A j \in Adds : Plan[j].table = Plan[34].table /\ Plan[j].column = Plan[34].column => j = 34
  BY <1>1, <1>2, <1>3, <1>4, <1>5, <1>6, <1>7, <1>8, <1>9, <1>10,
     <1>11, <1>12, <1>13, <1>14, <1>15, <1>16, <1>17, <1>18, <1>19, <1>20 DEF Adds
<1>34. \A j \in Adds : Plan[j].table = Plan[36].table /\ Plan[j].column = Plan[36].column => j = 36
  BY <1>1, <1>2, <1>3, <1>4, <1>5, <1>6, <1>7, <1>8, <1>9, <1>10,
     <1>11, <1>12, <1>13, <1>14, <1>15, <1>16, <1>17, <1>18, <1>19, <1>20 DEF Adds
<1>35. \A j \in Adds : Plan[j].table = Plan[38].table /\ Plan[j].column = Plan[38].column => j = 38
  BY <1>1, <1>2, <1>3, <1>4, <1>5, <1>6, <1>7, <1>8, <1>9, <1>10,
     <1>11, <1>12, <1>13, <1>14, <1>15, <1>16, <1>17, <1>18, <1>19, <1>20 DEF Adds
<1>36. \A j \in Adds : Plan[j].table = Plan[40].table /\ Plan[j].column = Plan[40].column => j = 40
  BY <1>1, <1>2, <1>3, <1>4, <1>5, <1>6, <1>7, <1>8, <1>9, <1>10,
     <1>11, <1>12, <1>13, <1>14, <1>15, <1>16, <1>17, <1>18, <1>19, <1>20 DEF Adds
<1>37. \A j \in Adds : Plan[j].table = Plan[42].table /\ Plan[j].column = Plan[42].column => j = 42
  BY <1>1, <1>2, <1>3, <1>4, <1>5, <1>6, <1>7, <1>8, <1>9, <1>10,
     <1>11, <1>12, <1>13, <1>14, <1>15, <1>16, <1>17, <1>18, <1>19, <1>20 DEF Adds
<1>38. \A j \in Adds : Plan[j].table = Plan[44].table /\ Plan[j].column = Plan[44].column => j = 44
  BY <1>1, <1>2, <1>3, <1>4, <1>5, <1>6, <1>7, <1>8, <1>9, <1>10,
     <1>11, <1>12, <1>13, <1>14, <1>15, <1>16, <1>17, <1>18, <1>19, <1>20 DEF Adds
<1>39. \A j \in Adds : Plan[j].table = Plan[46].table /\ Plan[j].column = Plan[46].column => j = 46
  BY <1>1, <1>2, <1>3, <1>4, <1>5, <1>6, <1>7, <1>8, <1>9, <1>10,
     <1>11, <1>12, <1>13, <1>14, <1>15, <1>16, <1>17, <1>18, <1>19, <1>20 DEF Adds
<1>40. \A j \in Adds : Plan[j].table = Plan[48].table /\ Plan[j].column = Plan[48].column => j = 48
  BY <1>1, <1>2, <1>3, <1>4, <1>5, <1>6, <1>7, <1>8, <1>9, <1>10,
     <1>11, <1>12, <1>13, <1>14, <1>15, <1>16, <1>17, <1>18, <1>19, <1>20 DEF Adds
<1>41. ASSUME NEW j \in Adds, NEW k \in Adds,
             Plan[j].table = Plan[k].table, Plan[j].column = Plan[k].column
      PROVE  j = k
  <2>1. k \in {8, 10, 13, 16, 17, 18, 22, 24, 26, 27, 28, 32, 34, 36, 38, 40, 42, 44, 46, 48}
    BY DEF Adds
  <2> QED
    BY <2>1, <1>41,
     <1>21, <1>22, <1>23, <1>24, <1>25, <1>26, <1>27, <1>28, <1>29, <1>30,
     <1>31, <1>32, <1>33, <1>34, <1>35, <1>36, <1>37, <1>38, <1>39, <1>40
<1> QED
  BY <1>41

\* Every table is created by some statement, and every column is added or renamed by one.
LEMMA Covered ==
  \A t \in Tables :
    /\ \E k \in Creates : t \in DOMAIN Plan[k].tables
    /\ \A c \in Required[t] :
         \/ \E k \in Adds : Plan[k].table = t /\ Plan[k].column = c
         \/ <<t, c>> \in {<<"projects", "git_url">>, <<"agents", "tools">>}
<1>1. 1 \in Creates /\ DOMAIN Plan[1].tables = {"human_requests", "projects"}
  BY PlanIs DEF Create, Creates
<1>2. 6 \in Creates /\ DOMAIN Plan[6].tables = {"capabilities"}
  BY PlanIs DEF Create, Creates
<1>3. 11 \in Creates /\ DOMAIN Plan[11].tables = {"capability_history"}
  BY PlanIs DEF Create, Creates
<1>4. 14 \in Creates /\ DOMAIN Plan[14].tables = {"llm_connections"}
  BY PlanIs DEF Create, Creates
<1>5. 20 \in Creates /\ DOMAIN Plan[20].tables = {"agents"}
  BY PlanIs DEF Create, Creates
<1>6. 30 \in Creates /\ DOMAIN Plan[30].tables = {"workstations", "chats", "messages", "chat_sessions"}
  BY PlanIs DEF Create, Creates
<1>7. \A t \in Tables : \E k \in Creates : t \in DOMAIN Plan[k].tables
  BY <1>1, <1>2, <1>3, <1>4, <1>5, <1>6, Schema
<1>8. /\ 26 \in Adds /\ Plan[26].table = "human_requests" /\ Plan[26].column = "chat_id"
      /\ 27 \in Adds /\ Plan[27].table = "human_requests" /\ Plan[27].column = "question_message_id"
      /\ 28 \in Adds /\ Plan[28].table = "human_requests" /\ Plan[28].column = "agent_name"
  BY PlanIs DEF Add, Adds
<1>9. \A c \in Required["human_requests"] :
        \/ \E k \in Adds : Plan[k].table = "human_requests" /\ Plan[k].column = c
        \/ "human_requests" = "agents" /\ c = "tools"
  BY <1>8, Schema
<1>10. \A c \in Required["projects"] : "projects" = "projects" /\ c = "git_url"
  BY Schema
<1>11. /\ 8 \in Adds /\ Plan[8].table = "capabilities" /\ Plan[8].column = "content"
      /\ 10 \in Adds /\ Plan[10].table = "capabilities" /\ Plan[10].column = "deleted"
  BY PlanIs DEF Add, Adds
<1>12. \A c \in Required["capabilities"] :
        \/ \E k \in Adds : Plan[k].table = "capabilities" /\ Plan[k].column = c
        \/ "capabilities" = "agents" /\ c = "tools"
  BY <1>11, Schema
<1>13. /\ 13 \in Adds /\ Plan[13].table = "capability_history" /\ Plan[13].column = "content"
  BY PlanIs DEF Add, Adds
<1>14. \A c \in Required["capability_history"] :
        \/ \E k \in Adds : Plan[k].table = "capability_history" /\ Plan[k].column = c
        \/ "capability_history" = "agents" /\ c = "tools"
  BY <1>13, Schema
<1>15. /\ 16 \in Adds /\ Plan[16].table = "llm_connections" /\ Plan[16].column = "model"
      /\ 17 \in Adds /\ Plan[17].table = "llm_connections" /\ Plan[17].column = "is_default"
      /\ 18 \in Adds /\ Plan[18].table = "llm_connections" /\ Plan[18].column = "native_tools"
  BY PlanIs DEF Add, Adds
<1>16. \A c \in Required["llm_connections"] :
        \/ \E k \in Adds : Plan[k].table = "llm_connections" /\ Plan[k].column = c
        \/ "llm_connections" = "agents" /\ c = "tools"
  BY <1>15, Schema
<1>17. /\ 22 \in Adds /\ Plan[22].table = "agents" /\ Plan[22].column = "llm_id"
      /\ 24 \in Adds /\ Plan[24].table = "agents" /\ Plan[24].column = "listen_user_id"
  BY PlanIs DEF Add, Adds
<1>18. \A c \in Required["agents"] :
        \/ \E k \in Adds : Plan[k].table = "agents" /\ Plan[k].column = c
        \/ "agents" = "agents" /\ c = "tools"
  BY <1>17, Schema
<1>19. /\ 32 \in Adds /\ Plan[32].table = "workstations" /\ Plan[32].column = "secret"
      /\ 34 \in Adds /\ Plan[34].table = "workstations" /\ Plan[34].column = "current_session_id"
  BY PlanIs DEF Add, Adds
<1>20. \A c \in Required["workstations"] :
        \/ \E k \in Adds : Plan[k].table = "workstations" /\ Plan[k].column = c
        \/ "workstations" = "agents" /\ c = "tools"
  BY <1>19, Schema
<1>21. /\ 36 \in Adds /\ Plan[36].table = "chats" /\ Plan[36].column = "start_message_id"
  BY PlanIs DEF Add, Adds
<1>22. \A c \in Required["chats"] :
        \/ \E k \in Adds : Plan[k].table = "chats" /\ Plan[k].column = c
        \/ "chats" = "agents" /\ c = "tools"
  BY <1>21, Schema
<1>23. /\ 38 \in Adds /\ Plan[38].table = "messages" /\ Plan[38].column = "title"
      /\ 40 \in Adds /\ Plan[40].table = "messages" /\ Plan[40].column = "thread_of_id"
      /\ 42 \in Adds /\ Plan[42].table = "messages" /\ Plan[42].column = "hidden"
      /\ 44 \in Adds /\ Plan[44].table = "messages" /\ Plan[44].column = "origin"
      /\ 46 \in Adds /\ Plan[46].table = "messages" /\ Plan[46].column = "kind"
      /\ 48 \in Adds /\ Plan[48].table = "messages" /\ Plan[48].column = "tool_call"
  BY PlanIs DEF Add, Adds
<1>24. \A c \in Required["messages"] :
        \/ \E k \in Adds : Plan[k].table = "messages" /\ Plan[k].column = c
        \/ "messages" = "agents" /\ c = "tools"
  BY <1>23, Schema
<1>25. \A c \in Required["chat_sessions"] : "chat_sessions" = "projects" /\ c = "git_url"
  BY Schema
<1> QED
  BY <1>7, <1>9, <1>10, <1>12, <1>14, <1>16, <1>18, <1>20, <1>22, <1>24, <1>25, Schema

-----------------------------------------------------------------------------
(* What holds of a start at any time.                                      *)

There(t, c) == columns[t] # NoTable /\ c \in columns[t]

StartupTypes ==
  /\ StartupTypeOK
  /\ DOMAIN columns = Tables /\ DOMAIN seen = Processes
  /\ status \in [Processes -> {"down", "starting", "serving"}]
  /\ step \in [Processes -> 1..55]
  /\ \A p \in Processes : status[p] # "starting" => step[p] = 1

\* What a statement leaves behind for good.
Effect(k) ==
  /\ k \in Creates => \A t \in DOMAIN Plan[k].tables : columns[t] # NoTable
  /\ k \in Adds => There(Plan[k].table, Plan[k].column)
  /\ k = 3 => columns["projects"] = NoTable \/ There("projects", "git_url")
  /\ k = 5 => columns["agents"] = NoTable \/ There("agents", "tools")
  /\ k = 51 => sessions
  /\ k = 55 => anonymous > 0

Passed(p, k) == status[p] = "serving" \/ (status[p] = "starting" /\ k < step[p])

EffectsOK == \A p \in Processes : \A k \in 1..55 : Passed(p, k) => Effect(k)

\* A table has the old column or the one it was renamed to.
OldOrNew ==
  /\ \/ columns["projects"] = NoTable
     \/ There("projects", "compose_path") \/ There("projects", "git_url")
  /\ \/ columns["agents"] = NoTable
     \/ There("agents", "allowed_commands") \/ There("agents", "tools")

\* What was read is there for good, and an old column that was not found has been renamed.
Columns == (UNION {Required[t] : t \in Tables}) \cup OldNames
SeenOK ==
  /\ \A p \in Processes, t \in Tables, c \in Columns : Known(p, t, c) => columns[t] # NoTable
  /\ \A p \in Processes, t \in Tables : \A c \in Required[t] : Known(p, t, c) => There(t, c)
  /\ \A p \in Processes :
       /\ step[p] = 3 => \/ columns["projects"] = NoTable \/ There("projects", "git_url")
                         \/ Known(p, "projects", "compose_path")
       /\ step[p] = 5 => \/ columns["agents"] = NoTable \/ There("agents", "tools")
                         \/ Known(p, "agents", "allowed_commands")

\* Until the sessions are copied, all columns they are copied from are there.
SessionsThere ==
  ~sessions =>
    /\ There("chats", "workstation_id") /\ There("workstations", "project_id")
    /\ \A p \in Processes :
         /\ step[p] \in {50, 51} => Known(p, "chats", "workstation_id")
         /\ step[p] = 51 => Known(p, "workstations", "project_id")

TextsOK == text = "empty" => torn \/ \E p \in Processes : Filling(p)

\* Processes that will create an anonymous user.
Finders ==
  {p \in Processes : status[p] = "starting" /\ step[p] = 55 /\ ~Known(p, "users", "anonymous")}

AnonymousOK ==
  /\ \A p \in Processes : step[p] = 55 /\ Known(p, "users", "anonymous") => anonymous > 0
  /\ anonymous = 0 \/ anonymous + Cardinality(Finders) <= Cardinality(Processes)

\* What a process that nobody overtook has read is what is there, as long as it will use it.
Using == Adds \cup {3, 5, 9, 50, 51, 53}
UpToDate(p) ==
  /\ step[p] \in Using =>
       \A t \in Tables, c \in Columns :
         Known(p, t, c) => There(t, c)
  /\ \A j \in Adds :
       /\ step[p] <= j /\ \A i \in step[p]..j : i \in Adds \cup {9}
       /\ There(Plan[j].table, Plan[j].column)
       => Known(p, Plan[j].table, Plan[j].column)

UnracedOK == \A p \in Processes \ raced : status[p] = "starting" => UpToDate(p)

StartupInv ==
  /\ StartupTypes /\ EffectsOK /\ OldOrNew /\ SeenOK /\ SessionsThere /\ TextsOK
  /\ AnonymousOK /\ UnracedOK

\* Nothing that is required is ever taken away.
Grows ==
  /\ \A t \in Tables : columns[t] # NoTable => columns'[t] # NoTable
  /\ \A t \in Tables : \A c \in Required[t] : There(t, c) => There(t, c)'
  /\ columns["projects"] = NoTable =>
       columns'["projects"] = NoTable \/ There("projects", "git_url")'
  /\ columns["agents"] = NoTable => columns'["agents"] = NoTable \/ There("agents", "tools")'
  /\ sessions => sessions'
  /\ anonymous > 0 => anonymous' > 0

LEMMA ColumnsKnown == OldNames \subseteq Columns /\ \A t \in Tables : Required[t] \subseteq Columns
BY DEF Columns

LEMMA PlanLength == Len(Plan) = 55
BY PlanIs DEF Lists

LEMMA EffectStays ==
  ASSUME Grows, NEW k \in 1..55, Effect(k) PROVE Effect(k)'
<1>1. k \in Creates => \A t \in DOMAIN Plan[k].tables : columns'[t] # NoTable
  BY CreatesKnown DEF Grows, Effect
<1>2. k \in Adds => There(Plan[k].table, Plan[k].column)'
  BY AddsFound DEF Grows, Effect, AddsAfter
<1>3. "projects" \in Tables /\ "git_url" \in Required["projects"]
      /\ "agents" \in Tables /\ "tools" \in Required["agents"]
  BY Schema
<1>4. /\ k = 3 => columns'["projects"] = NoTable \/ There("projects", "git_url")'
      /\ k = 5 => columns'["agents"] = NoTable \/ There("agents", "tools")'
  BY <1>3 DEF Grows, Effect
<1>5. (k = 51 => sessions') /\ (k = 55 => anonymous' > 0)
  BY DEF Grows, Effect
<1> QED
  BY <1>1, <1>2, <1>4, <1>5 DEF Effect

LEMMA Moves ==
  ASSUME NEW p \in Processes, Step(p)
  PROVE  status[p] = "starting" /\ stops' = stops /\ (Advance(p) \/ Break(p))
BY DEF Step, Doing, CreateTables, ReadColumns, AddColumn, RenameColumn, CreateIndex, FillTexts,
       RemoveCommandRecords, CopySessions, DropColumn, FindAnonymous, InsertAnonymous

LEMMA Advancing ==
  ASSUME StartupTypes, NEW p \in Processes, status[p] = "starting", Advance(p)
  PROVE  /\ status' \in [Processes -> {"down", "starting", "serving"}]
         /\ step' \in [Processes -> 1..55]
         /\ \A o \in Processes \ {p} : status'[o] = status[o] /\ step'[o] = step[o]
         /\ step[p] = 55 => status'[p] = "serving" /\ step'[p] = 1
         /\ step[p] # 55 => status'[p] = "starting" /\ step'[p] = step[p] + 1
BY PlanLength DEF StartupTypes, Advance

LEMMA Breaking ==
  ASSUME StartupTypes, NEW p \in Processes, Break(p)
  PROVE  /\ status' \in [Processes -> {"down", "starting", "serving"}]
         /\ step' \in [Processes -> 1..55]
         /\ \A o \in Processes \ {p} : status'[o] = status[o] /\ step'[o] = step[o]
         /\ status'[p] = "down" /\ step'[p] = 1
         /\ torn => torn'
<1>1. torn => torn'
  BY Zenon DEF Break
<1>2. /\ status' = [status EXCEPT ![p] = "down"] /\ step' = [step EXCEPT ![p] = 1]
  BY DEF Break
<1> QED
  BY <1>1, <1>2 DEF StartupTypes

\* What Doing says of the number of the statement.
LEMMA AtStatement ==
  ASSUME StartupTypes, NEW p \in Processes, NEW action, Doing(p, action)
  PROVE  /\ status[p] = "starting" /\ step[p] \in 1..55
         /\ This(p) = Plan[step[p]] /\ Plan[step[p]].do = action
BY DEF StartupTypes, Doing, This

LEMMA CreateTablesGrows ==
  ASSUME StartupInv, NEW p \in Processes, CreateTables(p)
  PROVE  Grows /\ \A k \in 1..55 : k = step[p] => Effect(k)'
<1>1. PICK k \in 1..55 : k = step[p]
  BY DEF StartupInv, StartupTypes
<1>2. k \in Creates
  BY <1>1, PlanKinds DEF CreateTables, Doing
<1> DEFINE new == Plan[k].tables
<1>3. /\ columns' = [t \in Tables |-> IF t \in DOMAIN new /\ columns[t] = NoTable
                                      THEN new[t] ELSE columns[t]]
      /\ sessions' = sessions /\ anonymous' = anonymous
  BY <1>1 DEF CreateTables, This, data
<1>4. \A t \in DOMAIN new : /\ t \in Tables /\ new[t] \subseteq Required[t] /\ new[t] # NoTable
                            /\ t = "projects" => "git_url" \in new[t]
                            /\ t = "agents" => "tools" \in new[t]
  BY <1>2, CreatesKnown, StartupAssumption
<1> HIDE DEF new
<1>5. "projects" \in Tables /\ "agents" \in Tables
  BY Schema
<1>6. Grows
  BY <1>3, <1>4, <1>5 DEF Grows, There
<1>7. k \in Creates \ (Adds \cup {3, 5, 51, 55})
  BY <1>2 DEF Creates, Adds
<1>8. Effect(k)'
  BY <1>3, <1>4, <1>7 DEF Effect, new
<1> QED
  BY <1>1, <1>6, <1>8

\* A statement before the one a process is at has had its effect.
LEMMA PassedEffect ==
  ASSUME StartupInv, NEW p \in Processes, status[p] = "starting", NEW k \in 1..55, k < step[p]
  PROVE  Effect(k)
BY DEF StartupInv, EffectsOK, Passed

\* The table of a column that is about to be added is there.
LEMMA AddsToATable ==
  ASSUME StartupInv, NEW p \in Processes, status[p] = "starting", NEW k \in Adds,
         NEW r \in Reads, NEW i \in Creates, AddsAfter(k, r, i), r < step[p]
  PROVE  columns[Plan[k].table] # NoTable
<1>1. i \in 1..55 /\ r \in 1..55 /\ i < r /\ Plan[k].table \in DOMAIN Plan[i].tables
  BY DEF AddsAfter, Creates, Reads
<1>2. step[p] \in 1..55
  BY DEF StartupInv, StartupTypes
<1>3. Effect(i)
  BY <1>1, <1>2, PassedEffect
<1> QED
  BY <1>1, <1>3 DEF Effect

LEMMA AddColumnGrows ==
  ASSUME StartupInv, NEW p \in Processes, AddColumn(p)
  PROVE  Grows /\ \A k \in 1..55 : k = step[p] => Effect(k)' \/ Break(p)
<1>1. PICK k \in 1..55 : k = step[p]
  BY DEF StartupInv, StartupTypes
<1>2. k \in Adds /\ status[p] = "starting"
  BY <1>1, PlanKinds DEF AddColumn, Doing
<1>3. PICK r \in Reads, i \in Creates : AddsAfter(k, r, i)
  BY <1>2, AddsFound
<1> DEFINE t == Plan[k].table
           c == Plan[k].column
<1>4. t \in Tables /\ c \in Required[t] /\ r < k
  BY <1>3 DEF AddsAfter
<1>5. columns[t] # NoTable
  BY <1>1, <1>2, <1>3, <1>4, AddsToATable
<1>6. \/ Known(p, t, c) /\ columns' = columns
      \/ ~Known(p, t, c) /\ c \in columns[t] /\ Break(p) /\ columns' = columns
      \/ columns' = [columns EXCEPT ![t] = @ \cup {c}]
  BY <1>1 DEF AddColumn, This
<1>7. sessions' = sessions /\ anonymous' = anonymous
  BY DEF AddColumn
<1> HIDE DEF t, c
<1>8. DOMAIN columns = Tables /\ columns[t] \cup {c} \in SUBSET (Required[t] \cup OldNames)
  BY <1>4, <1>5 DEF StartupInv, StartupTypes, StartupTypeOK
<1>9. columns[t] \cup {c} # NoTable
  BY <1>4, <1>8, StartupAssumption
<1>10. \/ columns' = columns
       \/ /\ \A x \in Tables \ {t} : columns'[x] = columns[x]
          /\ columns'[t] = columns[t] \cup {c}
  BY <1>4, <1>6, <1>8
<1>11. Grows
  <2>1. "projects" \in Tables /\ "agents" \in Tables
    BY Schema
  <2> QED
    BY <1>5, <1>7, <1>9, <1>10, <2>1 DEF Grows, There
<1>12. There(t, c)' \/ Break(p)
  <2>1. Known(p, t, c) => There(t, c)
    BY <1>4 DEF StartupInv, SeenOK
  <2> QED
    BY <1>4, <1>6, <1>8, <1>9, <2>1 DEF There
<1>13. k \in Adds \ (Creates \cup {3, 5, 51, 55})
  BY <1>2 DEF Creates, Adds
<1>14. Effect(k)' \/ Break(p)
  BY <1>12, <1>13 DEF Effect, t, c
<1> QED
  BY <1>1, <1>11, <1>14

LEMMA RenameColumnGrows ==
  ASSUME StartupInv, NEW p \in Processes, RenameColumn(p)
  PROVE  Grows /\ \A k \in 1..55 : k = step[p] => Effect(k)' \/ Break(p)
<1>1. PICK k \in 1..55 : k = step[p]
  BY DEF StartupInv, StartupTypes
<1>2. k \in {3, 5} /\ status[p] = "starting"
  BY <1>1, PlanKinds DEF RenameColumn, Doing
<1> DEFINE t == Plan[k].table
           old == Plan[k].old
           new == Plan[k].new
<1>3. /\ k = 3 => t = "projects" /\ old = "compose_path" /\ new = "git_url"
      /\ k = 5 => t = "agents" /\ old = "allowed_commands" /\ new = "tools"
  BY PlanIs DEF Rename
<1>4. /\ t \in Tables /\ new \in Required[t] /\ old \notin Required[t]
      /\ old \in Columns /\ new \in Columns
  <2>1. /\ t \in Tables /\ new \in Required[t] /\ old \notin Required[t] /\ old \in OldNames
    BY <1>2, <1>3, Schema DEF OldNames
  <2> QED
    BY <2>1, ColumnsKnown
<1>5. \/ columns' = columns /\ (~Known(p, t, old) \/ Known(p, t, new))
      \/ columns' = columns /\ Break(p)
      \/ Known(p, t, old) /\ columns' = [columns EXCEPT ![t] = (@ \ {old}) \cup {new}]
  BY <1>1 DEF RenameColumn, This
<1>6. sessions' = sessions /\ anonymous' = anonymous
  BY DEF RenameColumn, data
<1>7. Known(p, t, old) => columns[t] # NoTable
  BY <1>4 DEF StartupInv, SeenOK
<1>8. ~Known(p, t, old) \/ Known(p, t, new) => columns[t] = NoTable \/ There(t, new)
  BY <1>1, <1>2, <1>3, <1>4 DEF StartupInv, SeenOK
<1> HIDE DEF t, old, new
<1>9. /\ DOMAIN columns = Tables
      /\ columns[t] # NoTable => (columns[t] \ {old}) \cup {new} \in SUBSET (Required[t] \cup OldNames)
  BY <1>4 DEF StartupInv, StartupTypes, StartupTypeOK
<1>10. columns[t] # NoTable => (columns[t] \ {old}) \cup {new} # NoTable
  BY <1>4, <1>9, StartupAssumption
<1>11. \/ columns' = columns
       \/ /\ \A x \in Tables \ {t} : columns'[x] = columns[x]
          /\ columns'[t] = (columns[t] \ {old}) \cup {new} /\ columns[t] # NoTable
  BY <1>4, <1>5, <1>7, <1>9
<1>12. Grows
  <2>1. "projects" \in Tables /\ "agents" \in Tables
    BY Schema
  <2> QED
    BY <1>4, <1>6, <1>10, <1>11, <2>1 DEF Grows, There
<1>13. columns'[t] = NoTable \/ There(t, new)' \/ Break(p)
  BY <1>4, <1>5, <1>7, <1>8, <1>9, <1>10 DEF There
<1>14. k \notin Creates \cup Adds \cup {51, 55}
  BY <1>2 DEF Creates, Adds
<1>15. Effect(k)' \/ Break(p)
  BY <1>2, <1>3, <1>13, <1>14 DEF Effect
<1> QED
  BY <1>1, <1>12, <1>15

LEMMA DropColumnGrows ==
  ASSUME StartupInv, NEW p \in Processes, DropColumn(p)
  PROVE  /\ Grows /\ step[p] = 53 /\ sessions
         /\ \A x \in Tables \ {"workstations"} : columns'[x] = columns[x]
<1>1. step[p] = 53 /\ status[p] = "starting"
  BY PlanKinds, SMTT(60) DEF StartupInv, StartupTypes, DropColumn, Doing
<1>2. sessions /\ columns["workstations"] # NoTable
  <2>1. Effect(51) /\ Effect(30)
    BY <1>1, PassedEffect
  <2>2. "workstations" \in DOMAIN Plan[30].tables /\ 30 \in Creates
    BY PlanIs DEF Create, Creates
  <2> QED
    BY <2>1, <2>2 DEF Effect
<1>3. /\ "workstations" \in Tables /\ "projects" \in Tables /\ "agents" \in Tables
      /\ "project_id" \notin Required["workstations"]
  BY Schema
<1>4. \/ columns' = columns
      \/ columns' = [columns EXCEPT !["workstations"] = @ \ {"project_id"}]
  BY DEF DropColumn
<1>5. /\ DOMAIN columns = Tables
      /\ columns["workstations"] \ {"project_id"} \in SUBSET (Required["workstations"] \cup OldNames)
  BY <1>2, <1>3 DEF StartupInv, StartupTypes, StartupTypeOK
<1>6. columns["workstations"] \ {"project_id"} # NoTable
  BY <1>3, <1>5, StartupAssumption
<1>7. /\ \A x \in Tables \ {"workstations"} : columns'[x] = columns[x]
      /\ \/ columns'["workstations"] = columns["workstations"]
         \/ columns'["workstations"] = columns["workstations"] \ {"project_id"}
  BY <1>3, <1>4, <1>5
<1>8. sessions' = sessions /\ anonymous' = anonymous
  BY DEF DropColumn, data
<1> HIDE DEF Grows
<1>9. Grows
  BY <1>3, <1>6, <1>7, <1>8 DEF Grows, There
<1> QED
  BY <1>1, <1>2, <1>7, <1>9

\* The other statements leave the columns alone.
Quiet(p) ==
  \/ ReadColumns(p) \/ CreateIndex(p) \/ FillTexts(p) \/ RemoveCommandRecords(p)
  \/ CopySessions(p) \/ FindAnonymous(p) \/ InsertAnonymous(p)

LEMMA QuietGrows ==
  ASSUME StartupInv, NEW p \in Processes, Quiet(p)
  PROVE  columns' = columns /\ Grows
<1>1. columns' = columns
  BY DEF Quiet, ReadColumns, CreateIndex, FillTexts, RemoveCommandRecords, CopySessions,
         FindAnonymous, InsertAnonymous
<1>2. sessions => sessions'
  BY DEF Quiet, ReadColumns, CreateIndex, FillTexts, RemoveCommandRecords, CopySessions,
         FindAnonymous, InsertAnonymous, data
<1>3. anonymous > 0 => anonymous' > 0
  <2>1. anonymous \in Nat
    BY DEF StartupInv, StartupTypes, StartupTypeOK
  <2>2. anonymous' \in {anonymous, anonymous + 1}
    BY DEF Quiet, ReadColumns, CreateIndex, FillTexts, RemoveCommandRecords, CopySessions,
         FindAnonymous, InsertAnonymous, data
  <2> QED
    BY <2>1, <2>2
<1> QED
  BY <1>1, <1>2, <1>3 DEF Grows, There

LEMMA QuietEffect ==
  ASSUME StartupInv, NEW p \in Processes, Quiet(p)
  PROVE  \A k \in 1..55 : k = step[p] => Effect(k)' \/ Break(p)
<1>1. PICK k \in 1..55 : k = step[p]
  BY SMTT(60) DEF StartupInv, StartupTypes
<1>2. k \notin Creates \cup Adds \cup {3, 5}
  BY <1>1, PlanKinds, ZenonT(60) DEF Quiet, ReadColumns, CreateIndex, FillTexts, RemoveCommandRecords,
     CopySessions, FindAnonymous, InsertAnonymous, Doing
<1>3. k = 51 => sessions' \/ Break(p)
  <2>1. k = 51 => CopySessions(p)
    BY <1>1, PlanKinds DEF Quiet, ReadColumns, CreateIndex, FillTexts, RemoveCommandRecords,
       CopySessions, FindAnonymous, InsertAnonymous, Doing
  <2>2. k = 51 /\ ~sessions => Known(p, "chats", "workstation_id") /\ Known(p, "workstations", "project_id")
    BY <1>1 DEF StartupInv, SessionsThere
  <2> QED
    BY <2>1, <2>2 DEF CopySessions
<1>4. k = 55 => anonymous' > 0
  <2>1. k = 55 => InsertAnonymous(p)
    BY <1>1, PlanKinds DEF Quiet, ReadColumns, CreateIndex, FillTexts, RemoveCommandRecords,
       CopySessions, FindAnonymous, InsertAnonymous, Doing
  <2>2. k = 55 /\ Known(p, "users", "anonymous") => anonymous > 0
    BY <1>1 DEF StartupInv, AnonymousOK
  <2>3. anonymous \in Nat
    BY DEF StartupInv, StartupTypes, StartupTypeOK
  <2> QED
    BY <2>1, <2>2, <2>3 DEF InsertAnonymous
<1> QED
  BY <1>1, <1>2, <1>3, <1>4 DEF Effect

LEMMA StepGrows ==
  ASSUME StartupInv, NEW p \in Processes, Step(p)
  PROVE  Grows /\ \A k \in 1..55 : k = step[p] => Effect(k)' \/ Break(p)
<1>1. CreateTables(p) \/ AddColumn(p) \/ RenameColumn(p) \/ DropColumn(p) \/ Quiet(p)
  BY DEF Step, Quiet
<1>2. CASE DropColumn(p)
  <2>1. step[p] = 53 /\ Grows
    BY <1>2, DropColumnGrows
  <2>2. 53 \notin Creates \cup Adds \cup {3, 5, 51, 55}
    BY DEF Creates, Adds
  <2>3. Effect(53)'
    BY <2>2 DEF Effect
  <2> QED
    BY <2>1, <2>3
<1> QED
  BY <1>1, <1>2, CreateTablesGrows, AddColumnGrows, RenameColumnGrows, QuietGrows, QuietEffect

\* The steps that are not of a start.
Around(p) == Start(p) \/ Kill(p) \/ Edit(p)

LEMMA AroundGrows ==
  ASSUME NEW p \in Processes, Around(p)
  PROVE  Grows /\ columns' = columns /\ sessions' = sessions /\ anonymous' = anonymous
<1>1. columns' = columns /\ sessions' = sessions /\ anonymous' = anonymous
  BY DEF Around, Start, Kill, Edit, data
<1> QED
  BY <1>1 DEF Grows, There

\* How far the processes are after a step.
LEMMA Reached ==
  ASSUME StartupInv, NEW p \in Processes, Step(p) \/ Around(p)
  PROVE  /\ status' \in [Processes -> {"down", "starting", "serving"}]
         /\ step' \in [Processes -> 1..55]
         /\ \A o \in Processes \ {p} : status'[o] = status[o] /\ step'[o] = step[o]
         /\ \/ /\ Step(p) /\ status[p] = "starting"
               /\ \/ step[p] = 55 /\ status'[p] = "serving" /\ step'[p] = 1
                  \/ step[p] # 55 /\ status'[p] = "starting" /\ step'[p] = step[p] + 1
                  \/ Break(p) /\ status'[p] = "down" /\ step'[p] = 1
            \/ Start(p) /\ status[p] = "down" /\ status'[p] = "starting" /\ step' = step
            \/ Kill(p) /\ status'[p] = "down" /\ step'[p] = 1
            \/ Edit(p) /\ status' = status /\ step' = step
<1>0. StartupTypes
  BY DEF StartupInv
<1>1. CASE Step(p)
  <2>1. status[p] = "starting" /\ (Advance(p) \/ Break(p))
    BY <1>1, Moves
  <2>2. CASE Advance(p)
    BY <1>0, <1>1, <2>1, <2>2, Advancing
  <2>3. CASE Break(p)
    BY <1>0, <1>1, <2>1, <2>3, Breaking
  <2> QED
    BY <2>1, <2>2, <2>3
<1>2. CASE Start(p)
  BY <1>0, <1>2 DEF Start, StartupTypes
<1>3. CASE Kill(p)
  <2>1. Break(p)
    BY <1>3 DEF Kill
  <2> QED
    BY <1>0, <1>3, <2>1, Breaking
<1>4. CASE Edit(p)
  BY <1>0, <1>4 DEF Edit, StartupTypes
<1> QED
  BY <1>1, <1>2, <1>3, <1>4 DEF Around

LEMMA EffectsStep ==
  ASSUME StartupInv, NEW p \in Processes, Step(p) \/ Around(p)
  PROVE  EffectsOK'
<1> SUFFICES ASSUME NEW o \in Processes, NEW k \in 1..55, Passed(o, k)' PROVE Effect(k)'
  BY DEF EffectsOK
<1>1. Grows
  BY StepGrows, AroundGrows
<1>2. CASE Passed(o, k)
  <2>1. Effect(k)
    BY <1>2 DEF StartupInv, EffectsOK
  <2> QED
    BY <1>1, <2>1, EffectStays
<1>3. CASE ~Passed(o, k)
  <2>1. step[p] \in 1..55 /\ (status[o] # "starting" => step[o] = 1)
    BY DEF StartupInv, StartupTypes
  <2>2. o = p /\ Step(p) /\ k = step[p] /\ status'[p] # "down"
    <3>1. o = p
      BY <1>3, Reached DEF Passed
    <3>2. status'[p] = "serving" \/ (status'[p] = "starting" /\ k < step'[p])
      BY <3>1 DEF Passed
    <3>3. status[p] # "serving" /\ ~(status[p] = "starting" /\ k < step[p])
      BY <1>3, <3>1 DEF Passed
    <3> QED
      BY <2>1, <3>1, <3>2, <3>3, Reached
  <2>3. Break(p) => status'[p] = "down"
    BY Breaking DEF StartupInv
  <2> QED
    BY <2>2, <2>3, StepGrows
<1> QED
  BY <1>2, <1>3

LEMMA ColumnsStep ==
  ASSUME StartupInv, NEW p \in Processes, Step(p) \/ Around(p)
  PROVE  /\ DOMAIN columns' = Tables
         /\ \A t \in Tables : columns'[t] = NoTable \/ columns'[t] \subseteq Required[t] \cup OldNames
<1>1. /\ DOMAIN columns = Tables
      /\ \A t \in Tables : columns[t] = NoTable \/ columns[t] \subseteq Required[t] \cup OldNames
  BY DEF StartupInv, StartupTypes, StartupTypeOK
<1>2. step[p] \in 1..55
  BY DEF StartupInv, StartupTypes
<1>3. CASE CreateTables(p)
  <2>1. PICK k \in Creates : k = step[p]
    BY <1>2, <1>3, PlanKinds DEF CreateTables, Doing
  <2>2. \A t \in DOMAIN Plan[k].tables : Plan[k].tables[t] \subseteq Required[t]
    BY CreatesKnown
  <2>3. columns' = [t \in Tables |-> IF t \in DOMAIN Plan[k].tables /\ columns[t] = NoTable
                                     THEN Plan[k].tables[t] ELSE columns[t]]
    BY <1>3, <2>1 DEF CreateTables, This
  <2> QED
    BY <1>1, <2>2, <2>3
<1>4. CASE AddColumn(p)
  <2>1. PICK k \in Adds : k = step[p] /\ status[p] = "starting"
    BY <1>2, <1>4, PlanKinds DEF AddColumn, Doing
  <2>2. PICK r \in Reads, i \in Creates : AddsAfter(k, r, i)
    BY AddsFound
  <2>3. Plan[k].table \in Tables /\ Plan[k].column \in Required[Plan[k].table] /\ r < k
    BY <2>2 DEF AddsAfter
  <2>4. columns[Plan[k].table] # NoTable
    BY <2>1, <2>2, <2>3, AddsToATable
  <2>5. \/ columns' = columns
        \/ columns' = [columns EXCEPT ![Plan[k].table] = @ \cup {Plan[k].column}]
    BY <1>4, <2>1 DEF AddColumn, This
  <2> QED
    BY <1>1, <2>3, <2>4, <2>5
<1>5. CASE RenameColumn(p)
  <2>1. PICK k \in {3, 5} : k = step[p]
    BY <1>2, <1>5, PlanKinds DEF RenameColumn, Doing
  <2>2. /\ k = 3 => Plan[k].table = "projects" /\ Plan[k].old = "compose_path" /\ Plan[k].new = "git_url"
        /\ k = 5 => Plan[k].table = "agents" /\ Plan[k].old = "allowed_commands" /\ Plan[k].new = "tools"
    BY PlanIs DEF Rename
  <2>3. /\ Plan[k].table \in Tables /\ Plan[k].old \in OldNames
        /\ Plan[k].new \in Required[Plan[k].table]
    BY <2>1, <2>2, Schema DEF OldNames
  <2>4. Plan[k].old \in Columns
    BY <2>3, ColumnsKnown
  <2>5. \/ columns' = columns
        \/ /\ columns[Plan[k].table] # NoTable
           /\ columns' = [columns EXCEPT ![Plan[k].table] = (@ \ {Plan[k].old}) \cup {Plan[k].new}]
    <3>1. Known(p, Plan[k].table, Plan[k].old) => columns[Plan[k].table] # NoTable
      BY <2>3, <2>4 DEF StartupInv, SeenOK
    <3> QED
      BY <1>5, <2>1, <3>1 DEF RenameColumn, This
  <2> QED
    BY <1>1, <2>3, <2>5
<1>6. CASE DropColumn(p)
  <2>1. \/ columns' = columns
        \/ /\ columns["workstations"] # NoTable
           /\ columns' = [columns EXCEPT !["workstations"] = @ \ {"project_id"}]
    <3>1. "workstations" \in Tables /\ "project_id" \in OldNames
      BY Schema DEF OldNames
    <3>2. Known(p, "workstations", "project_id") => columns["workstations"] # NoTable
      BY <3>1, ColumnsKnown DEF StartupInv, SeenOK
    <3> QED
      BY <1>6, <3>2 DEF DropColumn
  <2> QED
    BY <1>1, <2>1, Schema
<1>7. CASE Quiet(p)
  BY <1>1, <1>7, QuietGrows
<1>8. CASE Around(p)
  BY <1>1, <1>8, AroundGrows
<1> QED
  BY <1>3, <1>4, <1>5, <1>6, <1>7, <1>8 DEF Step, Quiet

LEMMA StartupTypesStep ==
  ASSUME StartupInv, NEW p \in Processes, Step(p) \/ Around(p)
  PROVE  StartupTypes'
<1>1. /\ text \in Texts /\ sessions \in BOOLEAN /\ anonymous \in Nat
      /\ stops \in 0..MaxStops /\ raced \subseteq Processes /\ DOMAIN seen = Processes
  BY DEF StartupInv, StartupTypes, StartupTypeOK
<1>2. text' \in Texts /\ sessions' \in BOOLEAN
  BY <1>1 DEF Texts, Step, CreateTables, ReadColumns, AddColumn, RenameColumn, CreateIndex,
     FillTexts, RemoveCommandRecords, CopySessions, DropColumn, FindAnonymous, InsertAnonymous,
     Around, Start, Kill, Edit, data
<1>3. anonymous' \in Nat
  BY <1>1 DEF Step, CreateTables, ReadColumns, AddColumn, RenameColumn, CreateIndex,
     FillTexts, RemoveCommandRecords, CopySessions, DropColumn, FindAnonymous, InsertAnonymous,
     Around, Start, Kill, Edit, data
<1>4. stops' \in 0..MaxStops
  <2>1. CASE Step(p)
    BY <1>1, <2>1, Moves
  <2>2. CASE Around(p)
    BY <1>1, <2>2, StartupAssumption DEF Around, Start, Kill, Edit
  <2> QED
    BY <2>1, <2>2
<1>5. raced' \subseteq Processes
  BY <1>1 DEF Overtake, Step, CreateTables, ReadColumns, AddColumn, RenameColumn, CreateIndex,
     FillTexts, RemoveCommandRecords, CopySessions, DropColumn, FindAnonymous, InsertAnonymous,
     Around, Start, Kill, Edit
<1>6. DOMAIN seen' = Processes
  BY <1>1 DEF Step, CreateTables, ReadColumns, AddColumn, RenameColumn, CreateIndex,
     FillTexts, RemoveCommandRecords, CopySessions, DropColumn, FindAnonymous, InsertAnonymous,
     Around, Start, Kill, Edit
<1>7. /\ status' \in [Processes -> {"down", "starting", "serving"}]
      /\ step' \in [Processes -> 1..55]
      /\ \A o \in Processes : status'[o] # "starting" => step'[o] = 1
  BY Reached DEF StartupInv, StartupTypes
<1>8. \A o \in Processes : status'[o] \in {"down", "starting", "serving"} /\ step'[o] \in 1..Len(Plan)
  BY <1>7, PlanLength
<1> QED
  BY <1>2, <1>3, <1>4, <1>5, <1>6, <1>7, <1>8, ColumnsStep DEF StartupTypes, StartupTypeOK

LEMMA OldOrNewStep ==
  ASSUME StartupInv, NEW p \in Processes, Step(p) \/ Around(p)
  PROVE  OldOrNew'
<1>1. Grows
  BY StepGrows, AroundGrows
<1>2. /\ "projects" \in Tables /\ "git_url" \in Required["projects"]
      /\ "agents" \in Tables /\ "tools" \in Required["agents"]
      /\ "compose_path" \notin Required["projects"] /\ "allowed_commands" \notin Required["agents"]
      /\ "workstations" # "projects" /\ "workstations" # "agents"
  BY Schema
<1>3. OldOrNew /\ DOMAIN columns = Tables
  BY DEF StartupInv, StartupTypes
<1>4. CASE columns' = columns
  BY <1>3, <1>4 DEF OldOrNew, There
<1>5. CASE RenameColumn(p)
  <2>1. PICK k \in {3, 5} : k = step[p]
    BY <1>5, PlanKinds, SMTT(60) DEF RenameColumn, Doing, StartupInv, StartupTypes
  <2>2. /\ k = 3 => Plan[k].table = "projects" /\ Plan[k].new = "git_url"
        /\ k = 5 => Plan[k].table = "agents" /\ Plan[k].new = "tools"
    BY PlanIs DEF Rename
  <2>3. \/ columns' = columns
        \/ columns' = [columns EXCEPT ![Plan[k].table] = (@ \ {Plan[k].old}) \cup {Plan[k].new}]
    BY <1>5, <2>1 DEF RenameColumn, This
  <2>4. CASE k = 3
    <3>1. columns'["agents"] = columns["agents"]
      BY <1>2, <1>3, <2>2, <2>3, <2>4
    <3>2. columns' = columns \/ "git_url" \in columns'["projects"]
      BY <1>2, <1>3, <2>2, <2>3, <2>4
    <3>3. columns["projects"] # NoTable => columns'["projects"] # NoTable
      BY <1>1, <1>2 DEF Grows
    <3> QED
      BY <1>1, <1>2, <1>3, <3>1, <3>2, <3>3 DEF OldOrNew, There, Grows
  <2>5. CASE k = 5
    <3>1. columns'["projects"] = columns["projects"]
      BY <1>2, <1>3, <2>2, <2>3, <2>5
    <3>2. columns' = columns \/ "tools" \in columns'["agents"]
      BY <1>2, <1>3, <2>2, <2>3, <2>5
    <3>3. columns["agents"] # NoTable => columns'["agents"] # NoTable
      BY <1>1, <1>2 DEF Grows
    <3> QED
      BY <1>1, <1>2, <1>3, <3>1, <3>2, <3>3 DEF OldOrNew, There, Grows
  <2> QED
    BY <2>1, <2>4, <2>5
\* The others only add to a table, or leave these two alone.
<1>6. CASE CreateTables(p) \/ AddColumn(p)
  <2>1. \A t \in Tables : columns[t] # NoTable =>
           columns'[t] = columns[t] \/ \E c \in Columns : columns'[t] = columns[t] \cup {c}
    <3>1. CASE CreateTables(p)
      BY <3>1 DEF CreateTables
    <3>2. CASE AddColumn(p)
      <4>1. PICK k \in Adds : k = step[p]
        BY <3>2, PlanKinds, SMTT(60) DEF AddColumn, Doing, StartupInv, StartupTypes
      <4>2. Plan[k].table \in Tables /\ Plan[k].column \in Columns
        BY AddsFound, ColumnsKnown DEF AddsAfter
      <4>3. \/ columns' = columns
            \/ columns' = [columns EXCEPT ![Plan[k].table] = @ \cup {Plan[k].column}]
        BY <3>2, <4>1 DEF AddColumn, This
      <4> QED
        BY <1>3, <4>2, <4>3
    <3> QED
      BY <1>6, <3>1, <3>2
  <2> QED
    BY <1>1, <1>2, <1>3, <2>1 DEF OldOrNew, There, Grows
<1>7. CASE DropColumn(p)
  <2>1. columns'["projects"] = columns["projects"] /\ columns'["agents"] = columns["agents"]
    BY <1>2, <1>7, DropColumnGrows
  <2> QED
    BY <1>3, <2>1 DEF OldOrNew, There
<1>8. CASE Quiet(p) \/ Around(p)
  BY <1>4, <1>8, QuietGrows, AroundGrows
<1> QED
  BY <1>5, <1>6, <1>7, <1>8 DEF Step, Quiet

\* What a process has read after a step: what it had, or what it finds now.
LEMMA Reading ==
  ASSUME StartupInv, NEW p \in Processes, ReadColumns(p)
  PROVE  \A k \in Reads : k = step[p] =>
           /\ \A o \in Processes \ {p} : seen'[o] = seen[o]
           /\ \A t, c : Known(p, t, c)' <=>
                \/ t = Plan[k].table /\ There(t, c) /\ c \in Plan[k].about
                \/ k > 1 /\ k - 1 \in Reads /\ Known(p, t, c)
<1> SUFFICES ASSUME NEW k \in Reads, k = step[p]
    PROVE  /\ \A o \in Processes \ {p} : seen'[o] = seen[o]
           /\ \A t, c : Known(p, t, c)' <=>
                \/ t = Plan[k].table /\ There(t, c) /\ c \in Plan[k].about
                \/ k > 1 /\ k - 1 \in Reads /\ Known(p, t, c)
  OBVIOUS
<1> DEFINE found == IF columns[Plan[k].table] = NoTable THEN {}
                    ELSE columns[Plan[k].table] \cap Plan[k].about
           kept == IF k > 1 /\ Plan[k - 1].do = "read" THEN seen[p] ELSE {}
           new == kept \cup {<<Plan[k].table, c>> : c \in found}
<1>1. seen' = [seen EXCEPT ![p] = new] /\ DOMAIN seen = Processes
  BY DEF ReadColumns, This, StartupInv, StartupTypes
<1>2. \A c : c \in found <=> There(Plan[k].table, c) /\ c \in Plan[k].about
  BY DEF There
<1>3. k \in 1..55 /\ (k > 1 => k - 1 \in 1..55)
  BY DEF Reads
<1>4. \A u : u \in kept <=> k > 1 /\ k - 1 \in Reads /\ u \in seen[p]
  BY <1>3, PlanKinds
<1> HIDE DEF found, kept
<1>5. \A t, c : <<t, c>> \in new <=> <<t, c>> \in kept \/ (t = Plan[k].table /\ c \in found)
  OBVIOUS
<1> HIDE DEF new
<1>6. seen'[p] = new /\ \A o \in Processes \ {p} : seen'[o] = seen[o]
  BY <1>1
<1> QED
  BY <1>2, <1>4, <1>5, <1>6 DEF Known

LEMMA SeenChange ==
  ASSUME StartupInv, NEW p \in Processes, Step(p) \/ Around(p)
  PROVE  /\ \A o \in Processes \ {p} : seen'[o] = seen[o]
         /\ \/ seen'[p] = seen[p]
            \/ ReadColumns(p)
            \/ Start(p) /\ seen'[p] = {}
            \/ /\ FindAnonymous(p)
               /\ seen'[p] = IF anonymous > 0 THEN {<<"users", "anonymous">>} ELSE {}
<1>1. DOMAIN seen = Processes
  BY DEF StartupInv, StartupTypes
<1>2. CASE Step(p) /\ ~ReadColumns(p) /\ ~FindAnonymous(p)
  <2>1. seen' = seen
    BY <1>2 DEF Step, CreateTables, AddColumn, RenameColumn, CreateIndex, FillTexts,
       RemoveCommandRecords, CopySessions, DropColumn, InsertAnonymous
  <2> QED
    BY <2>1
<1>3. CASE ReadColumns(p)
  BY <1>1, <1>3 DEF ReadColumns
<1>4. CASE FindAnonymous(p)
  BY <1>1, <1>4 DEF FindAnonymous
<1>5. CASE Around(p)
  BY <1>1, <1>5 DEF Around, Start, Kill, Edit
<1> QED
  BY <1>2, <1>3, <1>4, <1>5

\* What a process knows after a step it knew, or it finds it now.
LEMMA Learns ==
  ASSUME StartupInv, NEW p \in Processes, Step(p) \/ Around(p),
         NEW o \in Processes, NEW t \in Tables, NEW c, Known(o, t, c)'
  PROVE  Known(o, t, c) \/ (o = p /\ ReadColumns(p) /\ There(t, c))
<1>1. CASE o # p
  BY <1>1, SeenChange DEF Known
<1>2. CASE o = p /\ ReadColumns(p)
  <2>1. PICK k \in Reads : k = step[p]
    BY <1>2, PlanKinds, SMTT(60) DEF ReadColumns, Doing, StartupInv, StartupTypes
  <2> QED
    BY <1>2, <2>1, Reading
<1>3. CASE o = p /\ ~ReadColumns(p)
  <2>1. t # "users"
    BY Schema
  <2> QED
    BY <1>3, <2>1, SeenChange DEF Known
<1> QED
  BY <1>1, <1>2, <1>3

LEMMA ReadsThen ==
  ASSUME StartupInv, NEW p \in Processes, Step(p), step[p] \in Reads
  PROVE  ReadColumns(p)
<1>1. Plan[step[p]].do = "read"
  BY PlanKinds, SMTT(60) DEF StartupInv, StartupTypes
<1>2. /\ CreateTables(p) => Plan[step[p]].do = "create"
      /\ AddColumn(p) => Plan[step[p]].do = "add"
      /\ RenameColumn(p) => Plan[step[p]].do = "rename"
      /\ CreateIndex(p) => Plan[step[p]].do = "index"
      /\ FillTexts(p) => Plan[step[p]].do = "fill"
  BY DEF CreateTables, AddColumn, RenameColumn, CreateIndex, FillTexts, Doing
<1>3. /\ RemoveCommandRecords(p) => Plan[step[p]].do = "remove"
      /\ CopySessions(p) => Plan[step[p]].do = "sessions"
      /\ DropColumn(p) => Plan[step[p]].do = "drop"
      /\ FindAnonymous(p) => Plan[step[p]].do = "find"
      /\ InsertAnonymous(p) => Plan[step[p]].do = "insert"
  BY DEF RemoveCommandRecords, CopySessions, DropColumn, FindAnonymous, InsertAnonymous, Doing
<1> QED
  BY <1>1, <1>2, <1>3 DEF Step

LEMMA SeenStep ==
  ASSUME StartupInv, NEW p \in Processes, Step(p) \/ Around(p)
  PROVE  SeenOK'
<1>1. Grows /\ SeenOK /\ OldOrNew
  BY StepGrows, AroundGrows DEF StartupInv
<1>2. /\ "projects" \in Tables /\ "git_url" \in Required["projects"]
      /\ "agents" \in Tables /\ "tools" \in Required["agents"]
  BY Schema
<1>3. \A o \in Processes, t \in Tables, c \in Columns : Known(o, t, c)' => columns'[t] # NoTable
  BY <1>1, Learns DEF SeenOK, Grows, There
<1>4. \A o \in Processes, t \in Tables : \A c \in Required[t] : Known(o, t, c)' => There(t, c)'
  BY <1>1, Learns DEF SeenOK, Grows
<1>5. ASSUME NEW o \in Processes, step'[o] \in {3, 5}, step[o] = step'[o]
      PROVE  /\ step'[o] = 3 => \/ columns'["projects"] = NoTable \/ There("projects", "git_url")'
                                \/ Known(o, "projects", "compose_path")'
             /\ step'[o] = 5 => \/ columns'["agents"] = NoTable \/ There("agents", "tools")'
                                \/ Known(o, "agents", "allowed_commands")'
  <2>1. status[o] = "starting" /\ step[o] \in 1..55
    BY <1>5 DEF StartupInv, StartupTypes
  <2>2. o # p
    BY <1>5, <2>1, Reached DEF Edit
  <2>3. seen'[o] = seen[o]
    BY <2>2, SeenChange
  <2> QED
    BY <1>1, <1>2, <1>5, <2>3 DEF SeenOK, Known, Grows
<1>6. ASSUME NEW o \in Processes, step'[o] \in {3, 5}, step[o] # step'[o]
      PROVE  /\ step'[o] = 3 => \/ columns'["projects"] = NoTable \/ There("projects", "git_url")'
                                \/ Known(o, "projects", "compose_path")'
             /\ step'[o] = 5 => \/ columns'["agents"] = NoTable \/ There("agents", "tools")'
                                \/ Known(o, "agents", "allowed_commands")'
  <2>1. step[o] \in 1..55
    BY DEF StartupInv, StartupTypes
  <2>2. o = p /\ Step(p) /\ step'[p] = step[p] + 1
    BY <1>6, <2>1, Reached
  <2>3. step[p] \in {2, 4} /\ 2 \in Reads /\ 4 \in Reads /\ 1 \notin Reads /\ 3 \notin Reads
    BY <1>6, <2>1, <2>2 DEF Reads
  <2>4. ReadColumns(p)
    BY <2>2, <2>3, ReadsThen
  <2>5. columns' = columns
    BY <2>4 DEF ReadColumns
  <2>6. /\ Plan[2].table = "projects" /\ "compose_path" \in Plan[2].about
        /\ Plan[4].table = "agents" /\ "allowed_commands" \in Plan[4].about
    BY PlanIs DEF Read
  <2>7. /\ step[p] = 2 => (There("projects", "compose_path") => Known(p, "projects", "compose_path")')
        /\ step[p] = 4 => (There("agents", "allowed_commands") => Known(p, "agents", "allowed_commands")')
    BY <2>3, <2>4, <2>6, Reading
  <2> QED
    BY <1>1, <1>6, <2>1, <2>2, <2>3, <2>5, <2>7 DEF OldOrNew, There
<1> QED
  BY <1>3, <1>4, <1>5, <1>6 DEF SeenOK

LEMMA SessionsStep ==
  ASSUME StartupInv, NEW p \in Processes, Step(p) \/ Around(p)
  PROVE  SessionsThere'
<1> SUFFICES ASSUME ~sessions' PROVE SessionsThere'
  BY DEF SessionsThere
<1>1. ~sessions
  BY StepGrows, AroundGrows DEF Grows
<1>2. /\ There("chats", "workstation_id") /\ There("workstations", "project_id")
      /\ \A o \in Processes :
           /\ step[o] \in {50, 51} => Known(o, "chats", "workstation_id")
           /\ step[o] = 51 => Known(o, "workstations", "project_id")
  BY <1>1 DEF StartupInv, SessionsThere
<1>3. ~DropColumn(p)
  BY <1>1, DropColumnGrows
<1>4. There("chats", "workstation_id")' /\ There("workstations", "project_id")'
  <2>1. /\ "chats" \in Tables /\ "workstations" \in Tables
        /\ "chats" \notin {"projects", "agents"} /\ "workstations" \notin {"projects", "agents"}
    BY Schema
  <2>2. columns'["chats"] # NoTable /\ columns'["workstations"] # NoTable
    BY <1>2, <2>1, StepGrows, AroundGrows DEF Grows, There
  <2>3. columns["chats"] \subseteq columns'["chats"]
        /\ columns["workstations"] \subseteq columns'["workstations"]
    <3>1. CASE CreateTables(p)
      BY <1>2, <2>1, <3>1 DEF CreateTables, There
    <3>2. CASE AddColumn(p)
      BY <2>1, <3>2 DEF AddColumn, StartupInv, StartupTypes
    <3>3. CASE RenameColumn(p)
      <4>1. PICK k \in {3, 5} : k = step[p]
        BY <3>3, PlanKinds, SMTT(60) DEF RenameColumn, Doing, StartupInv, StartupTypes
      <4>2. Plan[k].table \in {"projects", "agents"}
        BY PlanIs DEF Rename
      <4> QED
        BY <2>1, <3>3, <4>1, <4>2 DEF RenameColumn, This, StartupInv, StartupTypes
    <3>4. CASE Quiet(p) \/ Around(p)
      BY <3>4, QuietGrows, AroundGrows
    <3> QED
      BY <1>3, <3>1, <3>2, <3>3, <3>4 DEF Step, Quiet
  <2> QED
    BY <1>2, <2>2, <2>3 DEF There
<1>5. ASSUME NEW o \in Processes, step'[o] \in {50, 51}
      PROVE  /\ Known(o, "chats", "workstation_id")'
             /\ step'[o] = 51 => Known(o, "workstations", "project_id")'
  <2>1. step[o] \in 1..55 /\ (status[o] # "starting" => step[o] = 1)
    BY DEF StartupInv, StartupTypes
  <2>2. CASE step[o] = step'[o]
    <3>1. o # p
      BY <1>5, <2>1, <2>2, Reached DEF Edit
    <3>2. seen'[o] = seen[o]
      BY <3>1, SeenChange
    <3> QED
      BY <1>2, <1>5, <2>2, <3>2 DEF Known
  <2>3. CASE step[o] # step'[o]
    <3>1. o = p /\ Step(p) /\ step'[p] = step[p] + 1
      BY <1>5, <2>1, <2>3, Reached
    <3>2. step[p] \in {49, 50} /\ 49 \in Reads /\ 50 \in Reads
      BY <1>5, <2>1, <3>1 DEF Reads
    <3>3. ReadColumns(p)
      BY <3>1, <3>2, ReadsThen
    <3>4. /\ Plan[49].table = "chats" /\ "workstation_id" \in Plan[49].about
          /\ Plan[50].table = "workstations" /\ "project_id" \in Plan[50].about
      BY PlanIs DEF Read
    <3>5. CASE step[p] = 49
      BY <1>2, <1>5, <3>1, <3>2, <3>3, <3>4, <3>5, Reading
    <3>6. CASE step[p] = 50
      <4>1. Known(p, "chats", "workstation_id")
        BY <1>2, <3>6
      <4>2. 50 > 1 /\ 50 - 1 \in Reads
        BY <3>2
      <4> QED
        BY <1>2, <3>1, <3>2, <3>3, <3>4, <3>6, <4>1, <4>2, Reading
    <3> QED
      BY <3>2, <3>5, <3>6
  <2> QED
    BY <2>2, <2>3
<1> QED
  BY <1>4, <1>5 DEF SessionsThere

LEMMA TextsStep ==
  ASSUME StartupInv, NEW p \in Processes, Step(p) \/ Around(p)
  PROVE  TextsOK'
<1> SUFFICES ASSUME text' = "empty" PROVE torn' \/ \E q \in Processes : Filling(q)'
  BY DEF TextsOK
<1>1. torn => torn'
  BY Zenon DEF Step, CreateTables, ReadColumns, AddColumn, RenameColumn, CreateIndex,
     FillTexts, RemoveCommandRecords, CopySessions, DropColumn, FindAnonymous, InsertAnonymous,
     Around, Start, Kill, Edit, Break
<1>2. \A q \in Processes : step[q] \in 1..55 /\ (Filling(q) <=>
        status[q] = "starting" /\ step[q] = 9 /\ ~Known(q, "capabilities", "content"))
  BY PlanKinds, SMTT(60) DEF StartupInv, StartupTypes, Filling, Doing
<1>3. \A q \in Processes : Filling(q)' <=>
        status'[q] = "starting" /\ step'[q] = 9 /\ ~Known(q, "capabilities", "content")'
  <2>1. \A q \in Processes : step'[q] \in 1..55
    BY Reached
  <2> QED
    BY <2>1, PlanKinds DEF Filling, Doing
\* The column was added just now: the process that added it will fill it.
<1>4. CASE AddColumn(p) /\ text # "empty"
  <2>1. PICK k \in Adds : k = step[p] /\ status[p] = "starting"
    BY <1>4, PlanKinds, SMTT(60) DEF AddColumn, Doing, StartupInv, StartupTypes
  <2>2. Plan[k].table = "capabilities" /\ Plan[k].column = "content" /\ ~Known(p, "capabilities", "content")
        /\ Advance(p)
    BY <1>4, <2>1 DEF AddColumn, This
  <2>3. k = 8
    <3>1. 8 \in Adds /\ Plan[8].table = "capabilities" /\ Plan[8].column = "content"
      BY PlanIs DEF Add, Adds
    <3> QED
      BY <2>2, <3>1, AddsDiffer
  <2>4. status'[p] = "starting" /\ step'[p] = 9
    <3>1. step[p] = 8 /\ status[p] = "starting" /\ StartupTypes
      BY <2>1, <2>3 DEF StartupInv
    <3>2. step[p] # 55 /\ step[p] + 1 = 9
      BY <3>1
    <3>3. step'[p] = step[p] + 1 /\ status'[p] = "starting"
      BY <2>2, <3>1, <3>2, Advancing
    <3> QED
      BY <3>2, <3>3
  <2>5. seen' = seen
    BY <1>4 DEF AddColumn
  <2>6. Filling(p)'
    BY <1>3, <2>2, <2>4, <2>5 DEF Known
  <2> QED
    BY <2>6
<1>5. CASE ~AddColumn(p) /\ text # "empty"
  BY <1>5 DEF Step, CreateTables, ReadColumns, RenameColumn, CreateIndex,
     FillTexts, RemoveCommandRecords, CopySessions, DropColumn, FindAnonymous, InsertAnonymous,
     Around, Start, Kill, Edit, data
\* It was added before: whoever was filling still is, or has broken off.
<1>6. CASE text = "empty" /\ ~torn
  <2>1. PICK q \in Processes : Filling(q)
    BY <1>6 DEF StartupInv, TextsOK
  <2>2. CASE q # p
    <3>1. status'[q] = status[q] /\ step'[q] = step[q] /\ seen'[q] = seen[q]
      BY <2>2, Reached, SeenChange
    <3>2. Filling(q)'
      BY <1>2, <1>3, <2>1, <3>1 DEF Known
    <3> QED
      BY <3>2
  <2>3. CASE q = p
    <3>1. status[p] = "starting" /\ step[p] = 9 /\ ~Known(p, "capabilities", "content")
      BY <1>2, <2>1, <2>3
    <3>2. ~Break(p)  \/ torn'
      BY <2>1, <2>3, Zenon DEF Break
    <3>3. CASE Step(p)
      <4>1. Plan[step[p]].do = "fill"
        BY <3>1, PlanKinds
      <4>2. FillTexts(p)
        BY <3>3, <4>1 DEF Step, CreateTables, ReadColumns, AddColumn, RenameColumn, CreateIndex,
           RemoveCommandRecords, CopySessions, DropColumn, FindAnonymous, InsertAnonymous, Doing
      <4> QED
        BY <3>1, <4>2 DEF FillTexts
    <3>4. CASE Around(p)
      BY <3>1, <3>2, <3>4 DEF Around, Start, Kill, Edit
    <3> QED
      BY <3>3, <3>4
  <2> QED
    BY <2>2, <2>3
<1> QED
  BY <1>1, <1>4, <1>5, <1>6

LEMMA FindersFinite == IsFiniteSet(Finders) /\ Cardinality(Finders) \in Nat
                       /\ IsFiniteSet(Processes) /\ Cardinality(Processes) \in Nat
                       /\ Cardinality(Finders) <= Cardinality(Processes)
<1>1. Finders \subseteq Processes /\ IsFiniteSet(Processes)
  BY StartupAssumption DEF Finders
<1>2. IsFiniteSet(Finders) /\ Cardinality(Finders) <= Cardinality(Processes)
  BY <1>1, FS_Subset
<1>3. Cardinality(Finders) \in Nat /\ Cardinality(Processes) \in Nat
  BY <1>1, <1>2, FS_CardinalityType
<1> QED
  BY <1>1, <1>2, <1>3

LEMMA AnonymousStep ==
  ASSUME StartupInv, NEW p \in Processes, Step(p) \/ Around(p)
  PROVE  AnonymousOK'
<1>1. /\ anonymous \in Nat
      /\ \A o \in Processes : step[o] \in 1..55 /\ (status[o] # "starting" => step[o] = 1)
  BY DEF StartupInv, StartupTypes, StartupTypeOK
<1>2. /\ \A o \in Processes : step[o] = 55 /\ Known(o, "users", "anonymous") => anonymous > 0
      /\ anonymous = 0 \/ anonymous + Cardinality(Finders) <= Cardinality(Processes)
  BY DEF StartupInv, AnonymousOK
<1>3. anonymous' \in Nat /\ (anonymous > 0 => anonymous' > 0)
  <2>1. anonymous' \in {anonymous, anonymous + 1}
    BY DEF Step, CreateTables, ReadColumns, AddColumn, RenameColumn, CreateIndex,
       FillTexts, RemoveCommandRecords, CopySessions, DropColumn, FindAnonymous, InsertAnonymous,
       Around, Start, Kill, Edit, data
  <2> QED
    BY <1>1, <2>1
\* Who arrives at the insertion has just looked.
<1>4. ASSUME NEW o \in Processes, step'[o] = 55
      PROVE  \/ /\ o # p /\ step[o] = 55 /\ status'[o] = status[o]
                /\ (Known(o, "users", "anonymous")' <=> Known(o, "users", "anonymous"))
             \/ /\ o = p /\ FindAnonymous(p)
                /\ (Known(o, "users", "anonymous")' <=> anonymous > 0)
  <2>1. CASE o # p
    BY <1>4, <2>1, Reached, SeenChange DEF Known
  <2>2. CASE o = p
    <3>1. Step(p) /\ step[p] = 54
      BY <1>1, <1>4, <2>2, Reached DEF Edit
    <3>2. Plan[step[p]].do = "find"
      BY <3>1, PlanKinds
    <3>3. FindAnonymous(p)
      BY <3>1, <3>2 DEF Step, CreateTables, ReadColumns, AddColumn, RenameColumn, CreateIndex,
         FillTexts, RemoveCommandRecords, CopySessions, DropColumn, InsertAnonymous, Doing
    <3>4. seen' = [seen EXCEPT ![p] = IF anonymous > 0 THEN {<<"users", "anonymous">>} ELSE {}]
          /\ DOMAIN seen = Processes
      BY <3>3 DEF FindAnonymous, StartupInv, StartupTypes
    <3> QED
      BY <2>2, <3>3, <3>4 DEF Known
  <2> QED
    BY <2>1, <2>2
<1>5. \A o \in Processes : step'[o] = 55 /\ Known(o, "users", "anonymous")' => anonymous' > 0
  BY <1>2, <1>3, <1>4
<1>6. CASE anonymous = 0 /\ anonymous' = 0
  BY <1>5, <1>6 DEF AnonymousOK
<1>7. CASE InsertAnonymous(p) /\ ~Known(p, "users", "anonymous")
  <2>1. step[p] = 55 /\ status[p] = "starting" /\ anonymous' = anonymous + 1
    BY <1>1, <1>7, PlanKinds DEF InsertAnonymous, Doing
  <2>2. p \in Finders
    BY <1>7, <2>1 DEF Finders
  <2>3. Finders' \subseteq Finders \ {p}
    <3>1. ~FindAnonymous(p)
      BY <1>1, <2>1, PlanKinds DEF FindAnonymous, Doing
    <3>2. \A o \in Finders' : o \in Processes /\ step'[o] = 55 /\ status'[o] = "starting"
                              /\ ~Known(o, "users", "anonymous")'
      BY DEF Finders
    <3> QED
      BY <1>4, <3>1, <3>2 DEF Finders
  <2>4. /\ IsFiniteSet(Finders \ {p})
        /\ Cardinality(Finders \ {p}) = Cardinality(Finders) - 1
    BY <2>2, FindersFinite, FS_RemoveElement
  <2>5. Cardinality(Finders') <= Cardinality(Finders \ {p})
    BY <2>3, <2>4, FS_Subset
  <2>6. Cardinality(Finders') \in Nat
    <3>1. IsFiniteSet(Finders')
      BY <2>3, <2>4, FS_Subset
    <3> QED
      BY <3>1, FS_CardinalityType
  <2>7. anonymous + Cardinality(Finders) <= Cardinality(Processes)
    BY <1>1, <1>2, FindersFinite
  <2>8. anonymous' + Cardinality(Finders') <= Cardinality(Processes)
    BY <1>1, <2>1, <2>4, <2>5, <2>6, <2>7, FindersFinite
  <2>9. Cardinality(Finders)' = Cardinality(Finders') /\ Cardinality(Processes)' = Cardinality(Processes)
    OBVIOUS
  <2> QED
    BY <1>5, <2>8, <2>9 DEF AnonymousOK
<1>8. CASE ~(InsertAnonymous(p) /\ ~Known(p, "users", "anonymous")) /\ anonymous > 0
  <2>1. anonymous' = anonymous
    BY <1>8 DEF Step, CreateTables, ReadColumns, AddColumn, RenameColumn, CreateIndex,
       FillTexts, RemoveCommandRecords, CopySessions, DropColumn, FindAnonymous, InsertAnonymous,
       Around, Start, Kill, Edit, data
  <2>2. Finders' \subseteq Finders
    <3>1. \A o \in Finders' : o \in Processes /\ step'[o] = 55 /\ status'[o] = "starting"
                              /\ ~Known(o, "users", "anonymous")'
      BY DEF Finders
    <3> QED
      BY <1>4, <1>8, <3>1 DEF Finders
  <2>3. Cardinality(Finders') <= Cardinality(Finders) /\ IsFiniteSet(Finders')
    BY <2>2, FindersFinite, FS_Subset
  <2>4. Cardinality(Finders') \in Nat
    BY <2>3, FS_CardinalityType
  <2>5. anonymous' + Cardinality(Finders') <= Cardinality(Processes)
    BY <1>1, <1>2, <1>8, <2>1, <2>3, <2>4, FindersFinite
  <2>6. Cardinality(Finders)' = Cardinality(Finders') /\ Cardinality(Processes)' = Cardinality(Processes)
    OBVIOUS
  <2> QED
    BY <1>5, <2>5, <2>6 DEF AnonymousOK
<1>9. anonymous = 0 => anonymous' = 0 \/ (InsertAnonymous(p) /\ ~Known(p, "users", "anonymous"))
  BY DEF Step, CreateTables, ReadColumns, AddColumn, RenameColumn, CreateIndex,
     FillTexts, RemoveCommandRecords, CopySessions, DropColumn, FindAnonymous, InsertAnonymous,
     Around, Start, Kill, Edit, data
<1> QED
  BY <1>1, <1>6, <1>7, <1>8, <1>9

\* When what a process has read is still in use, its last statement was a reading or an
\* addition: it has not renamed or dropped what it has read.
LEMMA UsingSince ==
  ASSUME NEW k \in 1..54, k + 1 \in Using PROVE k \in Reads \cup Adds \cup {9}
BY DEF Using, Reads, Adds

\* A process whose step others do not touch keeps what it knows up to date, unless it
\* is overtaken.
LEMMA OthersUpToDate ==
  ASSUME StartupInv, NEW p \in Processes, Step(p) \/ Around(p),
         NEW o \in Processes \ {p}, o \notin raced', status'[o] = "starting"
  PROVE  UpToDate(o)'
<1>1. status'[o] = status[o] /\ step'[o] = step[o] /\ seen'[o] = seen[o]
  BY Reached, SeenChange
<1>2. o \notin raced
  BY <1>1 DEF Overtake, Step, CreateTables, ReadColumns, AddColumn, RenameColumn, CreateIndex,
     FillTexts, RemoveCommandRecords, CopySessions, DropColumn, FindAnonymous, InsertAnonymous,
     Around, Start, Kill, Edit
<1>3. UpToDate(o) /\ step[o] \in 1..55
  BY <1>1, <1>2 DEF StartupInv, UnracedOK, StartupTypes
<1>4. columns' = columns \/ CreateTables(p)
  <2>1. o \notin raced \cup {q \in Processes \ {p} : status[q] = "starting"} => status[o] # "starting"
    OBVIOUS
  <2>2. CASE AddColumn(p)
    BY <1>1, <2>2 DEF AddColumn, Overtake
  <2>3. CASE RenameColumn(p)
    BY <1>1, <2>3 DEF RenameColumn, Overtake
  <2>4. CASE DropColumn(p)
    BY <1>1, <2>4 DEF DropColumn, Overtake
  <2>5. CASE Quiet(p) \/ Around(p)
    BY <2>5, QuietGrows, AroundGrows
  <2> QED
    BY <2>2, <2>3, <2>4, <2>5 DEF Step, Quiet
<1>5. CASE columns' = columns
  BY <1>1, <1>3, <1>5 DEF UpToDate, There, Known
<1>6. CASE CreateTables(p)
  <2>1. \A t \in Tables : columns[t] # NoTable => columns'[t] = columns[t]
    BY <1>6 DEF CreateTables
  <2>2. ASSUME step'[o] \in Using, NEW t \in Tables, NEW c \in Columns, Known(o, t, c)'
        PROVE  There(t, c)'
    <3>1. There(t, c)
      BY <1>1, <1>3, <2>2 DEF UpToDate, Known
    <3> QED
      BY <2>1, <3>1 DEF There
  <2>3. ASSUME NEW j \in Adds, step'[o] <= j, \A i \in step'[o]..j : i \in Adds \cup {9},
               There(Plan[j].table, Plan[j].column)'
        PROVE  Known(o, Plan[j].table, Plan[j].column)'
    <3>1. PICK r \in Reads, i \in Creates : AddsAfter(j, r, i)
      BY AddsFound
    <3>2. r < j /\ r \notin Adds \cup {9} /\ r \in Nat /\ j \in Nat /\ Plan[j].table \in Tables
      BY <3>1 DEF AddsAfter, Adds, Reads
    <3>3. r < step[o]
      BY <1>1, <1>3, <2>3, <3>2
    <3>4. columns[Plan[j].table] # NoTable
      BY <1>1, <3>1, <3>3, AddsToATable
    <3>5. There(Plan[j].table, Plan[j].column)
      BY <2>1, <2>3, <3>2, <3>4 DEF There
    <3> QED
      BY <1>1, <1>3, <2>3, <3>5 DEF UpToDate, Known
  <2> QED
    BY <2>2, <2>3 DEF UpToDate
<1> QED
  BY <1>4, <1>5, <1>6

\* What a process has just read is up to date.
LEMMA ReaderUpToDate ==
  ASSUME StartupInv, NEW p \in Processes, p \notin raced, ReadColumns(p), status'[p] = "starting"
  PROVE  UpToDate(p)'
<1>1. PICK k \in Reads : k = step[p] /\ status[p] = "starting"
  BY PlanKinds, SMTT(60) DEF ReadColumns, Doing, StartupInv, StartupTypes
<1>2. /\ k \in 1..54 /\ k \notin Adds /\ (k - 1 \in Reads => k \in Using)
      /\ Plan[k].table \in Tables
  BY <1>1, ReadsKnown DEF Reads, Adds, Using
<1>3. columns' = columns /\ Step(p) /\ UpToDate(p)
  BY <1>1 DEF ReadColumns, Step, StartupInv, UnracedOK
<1>4. step'[p] = k + 1
  BY <1>1, <1>2, <1>3, Reached DEF Edit
<1>5. \A t, c : Known(p, t, c)' <=>
        \/ t = Plan[k].table /\ There(t, c) /\ c \in Plan[k].about
        \/ k > 1 /\ k - 1 \in Reads /\ Known(p, t, c)
  BY <1>1, Reading
<1>6. ASSUME NEW t \in Tables, NEW c \in Columns, Known(p, t, c)' PROVE There(t, c)'
  <2>1. There(t, c)
    BY <1>1, <1>2, <1>3, <1>5, <1>6 DEF UpToDate
  <2> QED
    BY <1>3, <2>1 DEF There
<1>7. ASSUME NEW j \in Adds, step'[p] <= j, \A i \in step'[p]..j : i \in Adds \cup {9},
             There(Plan[j].table, Plan[j].column)'
      PROVE  Known(p, Plan[j].table, Plan[j].column)'
  <2>1. PICK r \in Reads, i \in Creates : AddsAfter(j, r, i)
    BY AddsFound
  <2>2. r < j /\ r \notin Adds \cup {9} /\ r \in Nat /\ j \in Nat
    BY <2>1 DEF AddsAfter, Adds, Reads
  <2>3. r <= k
    BY <1>2, <1>4, <1>7, <2>2
  <2>4. k \notin (r + 1)..(j - 1)
    <3>1. k \notin Adds \cup {9}
      BY <1>1 DEF Reads, Adds
    <3> QED
      BY <2>1, <3>1 DEF AddsAfter
  <2>5. r = k
    BY <1>2, <1>4, <1>7, <2>2, <2>3, <2>4
  <2>6. Plan[j].table = Plan[k].table /\ Plan[j].column \in Plan[k].about
    BY <2>1, <2>5 DEF AddsAfter
  <2>7. There(Plan[j].table, Plan[j].column)
    BY <1>3, <1>7 DEF There
  <2> QED
    BY <1>5, <2>6, <2>7
<1> QED
  BY <1>6, <1>7 DEF UpToDate

\* A process that goes on with what it has read changes nothing of it but what it adds.
LEMMA SelfUpToDate ==
  ASSUME StartupInv, NEW p \in Processes, p \notin raced, Step(p), ~ReadColumns(p),
         status'[p] = "starting"
  PROVE  UpToDate(p)'
<1>1. status[p] = "starting" /\ step[p] \in 1..55
  BY Moves DEF StartupInv, StartupTypes
<1>2. UpToDate(p)
  BY <1>1 DEF StartupInv, UnracedOK
<1>3. PICK k \in 1..54 : k = step[p] /\ step'[p] = k + 1
  <2>1. Break(p) => status'[p] = "down"
    BY Breaking DEF StartupInv
  <2>2. step[p] # 55 /\ step'[p] = step[p] + 1
    BY <1>1, <2>1, Reached DEF Around, Start, Kill, Edit
  <2> QED
    BY <1>1, <2>2
<1>4. k \notin Reads
  BY <1>3, ReadsThen
<1>5. CASE k \in Adds \cup {9}
  <2>1. \/ k \in Adds /\ AddColumn(p)
        \/ k = 9 /\ FillTexts(p)
    <3>1. /\ k \in Adds => Plan[step[p]].do = "add"
          /\ k = 9 => Plan[step[p]].do = "fill"
      BY <1>1, <1>3, PlanKinds, ZenonT(60)
    <3> QED
      BY <1>5, <3>1 DEF Step, CreateTables, ReadColumns, AddColumn, RenameColumn, CreateIndex,
         FillTexts, RemoveCommandRecords, CopySessions, DropColumn, FindAnonymous,
         InsertAnonymous, Doing
  <2>2. seen' = seen
    BY <2>1 DEF AddColumn, FillTexts
  <2>3. \/ columns' = columns
        \/ k \in Adds /\ columns' = [columns EXCEPT ![Plan[k].table] = @ \cup {Plan[k].column}]
    BY <1>3, <2>1 DEF AddColumn, FillTexts, This
  <2>4. DOMAIN columns = Tables /\ \A t \in Tables : columns[t] # NoTable => columns'[t] # NoTable
    BY StepGrows DEF StartupInv, StartupTypes, Grows
  <2>5. \A t \in Tables : \A c : There(t, c) => There(t, c)'
    <3> SUFFICES ASSUME NEW t \in Tables, NEW c, There(t, c) PROVE There(t, c)'
      OBVIOUS
    <3>1. columns'[t] = columns[t] \/ columns'[t] = columns[t] \cup {Plan[k].column}
      BY <2>3, <2>4
    <3> QED
      BY <2>4, <3>1 DEF There
  <2>6. ASSUME step'[p] \in Using, NEW t \in Tables, NEW c \in Columns, Known(p, t, c)'
        PROVE  There(t, c)'
    <3>1. step[p] \in Using
      BY <1>3, <1>5 DEF Using
    <3>2. There(t, c)
      BY <1>2, <2>2, <2>6, <3>1 DEF UpToDate, Known
    <3> QED
      BY <2>5, <3>2
  <2>7. ASSUME NEW j \in Adds, step'[p] <= j, \A i \in step'[p]..j : i \in Adds \cup {9},
               There(Plan[j].table, Plan[j].column)'
        PROVE  Known(p, Plan[j].table, Plan[j].column)'
    <3>1. j \in Nat /\ k < j /\ \A i \in k..j : i \in Adds \cup {9}
      <4>1. j \in 1..55
        BY DEF Adds
      <4>2. \A i \in k..j : i = k \/ i \in (k + 1)..j
        BY <4>1
      <4> QED
        BY <1>3, <1>5, <2>7, <4>1, <4>2
    <3>2. Plan[j].table \in Tables
      BY AddsFound DEF AddsAfter
    <3>3. There(Plan[j].table, Plan[j].column)
      <4>1. CASE columns' = columns
        BY <2>7, <4>1 DEF There
      <4>2. CASE k \in Adds /\ columns' = [columns EXCEPT ![Plan[k].table] = @ \cup {Plan[k].column}]
        <5>1. k # j
          BY <3>1
        <5>2. Plan[j].table # Plan[k].table \/ Plan[j].column # Plan[k].column
          BY <4>2, <5>1, AddsDiffer
        <5>3. PICK r \in Reads, i \in Creates : AddsAfter(k, r, i)
          BY <4>2, AddsFound
        <5>4. r < step[p] /\ Plan[k].table \in Tables
          BY <1>3, <5>3 DEF AddsAfter
        <5>5. columns[Plan[k].table] # NoTable
          BY <1>1, <4>2, <5>3, <5>4, AddsToATable
        <5> QED
          BY <2>4, <2>7, <3>2, <4>2, <5>2, <5>4, <5>5 DEF There
      <4> QED
        BY <2>3, <4>1, <4>2
    <3>4. Known(p, Plan[j].table, Plan[j].column)
      BY <1>2, <1>3, <3>1, <3>3 DEF UpToDate
    <3> QED
      BY <2>2, <3>4 DEF Known
  <2> QED
    BY <2>6, <2>7 DEF UpToDate
<1>6. CASE k \notin Adds \cup {9}
  <2>1. k + 1 \notin Using
    BY <1>3, <1>4, <1>6, UsingSince
  <2>2. ASSUME NEW j \in Adds, k + 1 <= j, \A i \in (k + 1)..j : i \in Adds \cup {9}
        PROVE  FALSE
    <3>1. PICK r \in Reads, i \in Creates : AddsAfter(j, r, i)
      BY AddsFound
    <3>2. /\ r < j /\ r \notin Adds \cup {9} /\ r \in Nat /\ j \in Nat
          /\ \A x \in (r + 1)..(j - 1) : x \in Adds \cup {9}
      BY <3>1 DEF AddsAfter, Adds, Reads
    <3>3. r <= k /\ r # k
      BY <1>3, <1>4, <2>2, <3>2
    <3> QED
      BY <1>3, <1>6, <2>2, <3>2, <3>3
  <2> QED
    BY <1>3, <2>1, <2>2 DEF UpToDate
<1> QED
  BY <1>5, <1>6

LEMMA UnracedStep ==
  ASSUME StartupInv, NEW p \in Processes, Step(p) \/ Around(p)
  PROVE  UnracedOK'
<1> SUFFICES ASSUME NEW o \in Processes, o \notin raced', status'[o] = "starting"
    PROVE  UpToDate(o)'
  BY DEF UnracedOK
<1>1. CASE o # p
  BY <1>1, OthersUpToDate
<1>2. CASE o = p /\ Step(p)
  <2>1. p \notin raced
    BY <1>2 DEF Overtake, Step, CreateTables, ReadColumns, AddColumn, RenameColumn, CreateIndex,
       FillTexts, RemoveCommandRecords, CopySessions, DropColumn, FindAnonymous, InsertAnonymous
  <2> QED
    BY <1>2, <2>1, SelfUpToDate, ReaderUpToDate
<1>3. CASE o = p /\ Around(p)
  <2>1. Start(p) \/ Edit(p)
    <3>1. Kill(p) => status'[p] = "down"
      BY Breaking DEF Kill, StartupInv
    <3> QED
      BY <1>3, <3>1 DEF Around
  <2>2. Start(p)
    <3>1. Edit(p) => status'[p] = "serving"
      BY DEF Edit
    <3> QED
      BY <1>3, <2>1, <3>1
  <2>3. step'[p] = 1
    BY <2>2 DEF Start, StartupInv, StartupTypes
  <2>4. 1 \notin Using /\ 1 \notin Adds \cup {9} /\ Adds \subseteq 1..55
    BY DEF Using, Adds
  <2> QED
    BY <1>3, <2>3, <2>4 DEF UpToDate
<1> QED
  BY <1>1, <1>2, <1>3

LEMMA StartupStep == StartupInv /\ [NextStartup]_startupVars => StartupInv'
<1> SUFFICES ASSUME StartupInv, [NextStartup]_startupVars PROVE StartupInv'
  OBVIOUS
<1>1. CASE NextStartup
  <2>1. PICK p \in Processes : Step(p) \/ Around(p)
    BY <1>1 DEF NextStartup, Around
  <2> QED
    BY <2>1, StartupTypesStep, EffectsStep, OldOrNewStep, SeenStep, SessionsStep, TextsStep,
       AnonymousStep, UnracedStep DEF StartupInv
<1>2. CASE UNCHANGED startupVars
  <2>1. /\ columns' = columns /\ text' = text /\ sessions' = sessions /\ anonymous' = anonymous
        /\ status' = status /\ step' = step /\ seen' = seen /\ stops' = stops
        /\ raced' = raced /\ torn' = torn
    BY <1>2 DEF startupVars
  <2>2. StartupTypes'
    BY <2>1 DEF StartupInv, StartupTypes, StartupTypeOK
  <2>3. EffectsOK'
    <3>1. Grows
      BY <2>1 DEF Grows, There
    <3>2. ASSUME NEW p \in Processes, NEW k \in 1..55, Passed(p, k)' PROVE Effect(k)'
      <4>1. Passed(p, k)
        BY <2>1, <3>2 DEF Passed
      <4>2. Effect(k)
        BY <4>1 DEF StartupInv, EffectsOK
      <4> QED
        BY <3>1, <4>2, EffectStays
    <3> QED
      BY <3>2 DEF EffectsOK
  <2>4. OldOrNew' /\ SeenOK' /\ SessionsThere'
    BY <2>1 DEF StartupInv, OldOrNew, SeenOK, SessionsThere, There, Known
  <2>5. TextsOK'
    BY <2>1 DEF StartupInv, TextsOK, Filling, Doing, Known
  <2>6. AnonymousOK'
    BY <2>1 DEF StartupInv, AnonymousOK, Finders, Known
  <2>7. UnracedOK'
    BY <2>1 DEF StartupInv, UnracedOK, UpToDate, There, Known
  <2> QED
    BY <2>2, <2>3, <2>4, <2>5, <2>6, <2>7 DEF StartupInv
<1> QED
  BY <1>1, <1>2

LEMMA StartupInitially == InitStartup => StartupInv
<1> SUFFICES ASSUME InitStartup PROVE StartupInv
  OBVIOUS
<1>1. PICK db \in Databases :
        /\ columns = db.columns /\ text = db.text
        /\ sessions = db.sessions /\ anonymous = db.anonymous
  BY DEF InitStartup
<1>2. Served(db)
  BY DatabasesAssumption
<1>3. Cardinality(Processes) \in Nat /\ Cardinality(Processes) # 0
  BY StartupAssumption, FS_EmptySet, FS_CardinalityType
<1>6. /\ DOMAIN columns = Tables
      /\ \A t \in Tables : columns[t] = NoTable \/ columns[t] \subseteq Required[t] \cup OldNames
  BY <1>1, <1>2 DEF Served
<1>7. /\ text \in Texts /\ text # "empty" /\ sessions \in BOOLEAN
      /\ anonymous \in 0..Cardinality(Processes) /\ torn = FALSE /\ stops = 0 /\ raced = {}
      /\ status = [p \in Processes |-> "down"] /\ step = [p \in Processes |-> 1]
      /\ seen = [p \in Processes |-> {}]
  BY <1>1, <1>2 DEF InitStartup, Served
<1>8. StartupTypes
  BY <1>3, <1>6, <1>7, PlanLength, StartupAssumption DEF StartupTypes, StartupTypeOK
<1>9. EffectsOK
  BY <1>7 DEF EffectsOK, Passed
<1>10. OldOrNew
  BY <1>1, <1>2 DEF Served, OldOrNew, There
<1>11. SeenOK
  BY <1>7 DEF SeenOK, Known
<1>12. SessionsThere
  BY <1>1, <1>2, <1>7 DEF Served, SessionsThere, There
<1>13. TextsOK
  BY <1>7 DEF TextsOK
<1>14. AnonymousOK
  <2>1. Finders = {}
    BY <1>7 DEF Finders
  <2>2. Cardinality(Finders) = 0
    BY <2>1, FS_EmptySet
  <2>3. anonymous = 0 \/ anonymous + Cardinality(Finders) <= Cardinality(Processes)
    BY <1>3, <1>7, <2>2
  <2> QED
    BY <1>7, <2>3 DEF AnonymousOK
<1>15. UnracedOK
  BY <1>7 DEF UnracedOK
<1> QED
  BY <1>8, <1>9, <1>10, <1>11, <1>12, <1>13, <1>14, <1>15 DEF StartupInv

\* Whatever a start has passed is done for good, what it has read and nobody altered is
\* what is there (the strengthening of OldDataServed and BreaksOnlyWhenRaced).
THEOREM StartupInvariant == SpecStartup => []StartupInv
BY StartupInitially, StartupStep, PTL DEF SpecStartup

\* Whichever database the processes open (Served: any mix of the columns the migrations
\* add, or a new one), wherever they interleave, break off and are killed: one that serves
\* has the whole schema, the copied sessions, and between one anonymous user and as many
\* as there are processes; and it has the texts of the old catalogue unless a start ended,
\* or stands right now, between adding their column and filling it (trace.rs and
\* chat/mod.rs, the migrations).  For any number of processes and kills.
THEOREM OldDataServedCorrect == SpecStartup => []OldDataServed
<1>1. StartupInv => OldDataServed
  <2> SUFFICES ASSUME StartupInv PROVE OldDataServed
    OBVIOUS
  <2>1. ASSUME NEW p \in Serving PROVE \A k \in 1..55 : Effect(k)
    BY DEF Serving, StartupInv, EffectsOK, Passed
  <2>2. ServesWholeSchema
    <3> SUFFICES ASSUME NEW p \in Serving, NEW t \in Tables
        PROVE  columns[t] # NoTable /\ Required[t] \subseteq columns[t]
      BY DEF ServesWholeSchema
    <3>1. columns[t] # NoTable
      <4>1. PICK k \in Creates : t \in DOMAIN Plan[k].tables
        BY Covered
      <4>2. k \in 1..55
        BY DEF Creates
      <4> QED
        BY <2>1, <4>1, <4>2 DEF Effect
    <3>2. ASSUME NEW c \in Required[t] PROVE c \in columns[t]
      <4>1. CASE \E k \in Adds : Plan[k].table = t /\ Plan[k].column = c
        <5>1. PICK k \in Adds : Plan[k].table = t /\ Plan[k].column = c
          BY <4>1
        <5>2. k \in 1..55
          BY DEF Adds
        <5> QED
          BY <2>1, <5>1, <5>2 DEF Effect, There
      <4>2. CASE t = "projects" /\ c = "git_url"
        BY <2>1, <3>1, <4>2 DEF Effect, There
      <4>3. CASE t = "agents" /\ c = "tools"
        BY <2>1, <3>1, <4>3 DEF Effect, There
      <4> QED
        BY <4>1, <4>2, <4>3, Covered
    <3> QED
      BY <3>1, <3>2
  <2>3. OldTextsKept
    BY DEF OldTextsKept, StartupInv, TextsOK
  <2>4. SessionsKept
    BY <2>1 DEF SessionsKept, Effect
  <2>5. OneAnonymous
    <3>1. Serving # {} => anonymous > 0
      BY <2>1 DEF Effect
    <3>2. anonymous \in Nat
      BY DEF StartupInv, StartupTypes, StartupTypeOK
    <3>3. anonymous <= Cardinality(Processes)
      BY <3>2, FindersFinite DEF StartupInv, AnonymousOK
    <3> QED
      BY <3>1, <3>3 DEF OneAnonymous
  <2> QED
    BY <2>2, <2>3, <2>4, <2>5 DEF OldDataServed, StartupInv, StartupTypes
<1> QED
  BY <1>1, StartupInvariant, PTL

\* A start breaks off by itself only when another process altered the database after it
\* began: alone, it goes through on every database.
THEOREM BreaksOnlyWhenRacedCorrect == SpecStartup => BreaksOnlyWhenRaced
<1> DEFINE Broken(p) == status[p] = "starting" /\ status'[p] = "down" /\ stops' = stops
<1>1. StartupInv /\ [NextStartup]_startupVars => [\A p \in Processes : Broken(p) => p \in raced]_startupVars
  <2> SUFFICES ASSUME StartupInv, NextStartup, NEW o \in Processes, Broken(o) PROVE o \in raced
    BY DEF NextStartup, startupVars
  <2>1. PICK p \in Processes : Step(p) \/ Around(p)
    BY DEF NextStartup, Around
  <2>2. o = p
    BY <2>1, Reached
  <2>3. Step(p) /\ Break(p)
    <3>1. ~Kill(p)
      <4>1. stops \in Nat
        BY StartupAssumption DEF StartupInv, StartupTypes, StartupTypeOK
      <4> QED
        BY <4>1 DEF Kill
    <3>2. ~Start(p) /\ ~Edit(p)
      BY <2>2 DEF Start, Edit
    <3> QED
      BY <2>1, <2>2, <3>1, <3>2, Reached DEF Around
  <2>4. UpToDate(p) \/ p \in raced
    BY <2>2 DEF StartupInv, UnracedOK
  <2> SUFFICES ASSUME UpToDate(p) PROVE FALSE
    BY <2>2, <2>4
  <2>5. PICK k \in 1..55 : k = step[p] /\ status[p] = "starting"
    BY <2>2 DEF StartupInv, StartupTypes
  <2>6. status'[p] = "down"
    BY <2>2
  <2>7. ~Advance(p)
    BY <2>5, <2>6, Advancing DEF StartupInv
  <2>8. ~AddColumn(p)
    <3> SUFFICES ASSUME AddColumn(p) PROVE FALSE
      OBVIOUS
    <3>1. k \in Adds
      BY <2>5, PlanKinds DEF AddColumn, Doing
    <3>2. ~Known(p, Plan[k].table, Plan[k].column) /\ Plan[k].column \in columns[Plan[k].table]
      BY <2>5, <2>7 DEF AddColumn, This
    <3>3. PICK r \in Reads, i \in Creates : AddsAfter(k, r, i)
      BY <3>1, AddsFound
    <3>4. r < step[p]
      BY <2>5, <3>3 DEF AddsAfter
    <3>5. There(Plan[k].table, Plan[k].column)
      BY <2>5, <3>1, <3>2, <3>3, <3>4, AddsToATable DEF There
    <3>6. step[p] <= k /\ \A m \in step[p]..k : m \in Adds \cup {9}
      BY <2>5, <3>1
    <3>7. Known(p, Plan[k].table, Plan[k].column)
      BY <3>1, <3>5, <3>6 DEF UpToDate
    <3> QED
      BY <3>2, <3>7
  <2>9. ~RenameColumn(p)
    <3> SUFFICES ASSUME RenameColumn(p) PROVE FALSE
      OBVIOUS
    <3>1. k \in {3, 5}
      BY <2>5, PlanKinds DEF RenameColumn, Doing
    <3>2. Known(p, Plan[k].table, Plan[k].old) /\ Plan[k].old \notin columns[Plan[k].table]
      BY <2>5, <2>7 DEF RenameColumn, This
    <3>3. /\ k = 3 => Plan[k].table = "projects" /\ Plan[k].old = "compose_path"
          /\ k = 5 => Plan[k].table = "agents" /\ Plan[k].old = "allowed_commands"
      BY PlanIs DEF Rename
    <3>4. Plan[k].table \in Tables /\ Plan[k].old \in Columns /\ k \in Using
      BY <3>1, <3>3, Schema, ColumnsKnown DEF OldNames, Using
    <3> QED
      BY <2>5, <3>2, <3>4 DEF UpToDate, There
  <2>10. ~CreateIndex(p)
    <3> SUFFICES ASSUME CreateIndex(p) PROVE FALSE
      OBVIOUS
    <3>1. k = 19
      BY <2>5, PlanKinds DEF CreateIndex, Doing
    <3>2. Effect(17)
      <4>1. 17 < step[p] /\ 17 \in 1..55 /\ status[p] = "starting"
        BY <2>5, <3>1
      <4> QED
        BY <4>1, PassedEffect
    <3>3. Plan[17].table = Plan[19].table /\ Plan[17].column = Plan[19].column /\ 17 \in Adds
      BY PlanIs DEF Add, Index, Adds
    <3> QED
      BY <2>5, <2>7, <3>1, <3>2, <3>3 DEF CreateIndex, This, Effect, There
  <2>11. ~RemoveCommandRecords(p)
    <3> SUFFICES ASSUME RemoveCommandRecords(p) PROVE FALSE
      OBVIOUS
    <3>1. k = 29
      BY <2>5, PlanKinds DEF RemoveCommandRecords, Doing
    <3>2. Effect(20)
      <4>1. 20 < step[p] /\ 20 \in 1..55 /\ status[p] = "starting"
        BY <2>5, <3>1
      <4> QED
        BY <4>1, PassedEffect
    <3>3. "agents" \in DOMAIN Plan[20].tables /\ 20 \in Creates
      BY PlanIs DEF Create, Creates
    <3> QED
      BY <2>7, <3>2, <3>3 DEF RemoveCommandRecords, Effect
  <2>12. "workstations" \in Tables /\ "project_id" \in Columns
    BY Schema, ColumnsKnown DEF OldNames
  <2>13. ~CopySessions(p)
    <3> SUFFICES ASSUME CopySessions(p) PROVE FALSE
      OBVIOUS
    <3>1. k \in Using
      BY <2>5, PlanKinds DEF CopySessions, Doing, Using
    <3> QED
      BY <2>5, <2>7, <2>12, <3>1 DEF CopySessions, UpToDate, There
  <2>14. ~DropColumn(p)
    <3> SUFFICES ASSUME DropColumn(p) PROVE FALSE
      OBVIOUS
    <3>1. k \in Using
      BY <2>5, PlanKinds DEF DropColumn, Doing, Using
    <3> QED
      BY <2>5, <2>7, <2>12, <3>1 DEF DropColumn, UpToDate, There
  <2> QED
    BY <2>3, <2>7, <2>8, <2>9, <2>10, <2>11, <2>13, <2>14
       DEF Step, CreateTables, ReadColumns, FillTexts, FindAnonymous, InsertAnonymous
<1>2. SpecStartup => [][\A p \in Processes : Broken(p) => p \in raced]_startupVars
  BY <1>1, StartupInvariant, PTL DEF SpecStartup
<1> QED
  BY <1>2 DEF BreaksOnlyWhenRaced
=============================================================================
