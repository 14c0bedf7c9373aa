--------------------------- MODULE SessionsProofs ---------------------------
(***************************************************************************)
(* Theorems about Sessions for any stations, sessions and requests: types; *)
(* an open session is the current one of its station when openings do not  *)
(* race; its files are those of its project when closings and releases do  *)
(* not race either; a session continues one on another station when none   *)
(* goes down under an opening.                                             *)
(***************************************************************************)
EXTENDS Sessions, TLAPS

-----------------------------------------------------------------------------
(* Steps.                                                                  *)

\* Every step keeps the types.
LEMMA TypeStep ==
  ASSUME TypeOK, OrderInv, [Next]_vars
  PROVE  TypeOK'
<1> USE SessionsAssumption
<1>1. ASSUME NEW s \in Stations, CreateWorkstation(s)
      PROVE  TypeOK'
  BY <1>1 DEF CreateWorkstation, TypeOK, OrderInv, Exists, Empty, Interrupted,
     stationVars, openVars, closeVars, Enter, Windows
<1>2. ASSUME NEW s \in Stations, CreatePod(s)
      PROVE  TypeOK'
  BY <1>2 DEF CreatePod, TypeOK, OrderInv, Exists, Empty, Interrupted,
     stationVars, openVars, closeVars, Enter, Windows
<1>3. ASSUME NEW s \in Stations, WaitReady(s)
      PROVE  TypeOK'
  BY <1>3 DEF WaitReady, TypeOK, OrderInv, Exists, Empty, Interrupted,
     stationVars, openVars, closeVars, Enter, Windows
<1>4. ASSUME NEW s \in Stations, MarkDown(s)
      PROVE  TypeOK'
  BY <1>4 DEF MarkDown, TypeOK, OrderInv, Exists, Empty, Interrupted,
     stationVars, openVars, closeVars, Enter, Windows
<1>5. ASSUME NEW s \in Stations, DeletePod(s)
      PROVE  TypeOK'
  BY <1>5 DEF DeletePod, TypeOK, OrderInv, Exists, Empty, Interrupted,
     stationVars, openVars, closeVars, Enter, Windows
<1>6. ASSUME NEW s \in Stations, DeleteRow(s)
      PROVE  TypeOK'
  BY <1>6 DEF DeleteRow, TypeOK, OrderInv, Exists, Empty, Interrupted,
     stationVars, openVars, closeVars, Enter, Windows
<1>7. ASSUME NEW s \in Stations, ReleaseCheck(s)
      PROVE  TypeOK'
  BY <1>7 DEF ReleaseCheck, TypeOK, OrderInv, Exists, Empty, Interrupted,
     stationVars, openVars, closeVars, Enter, Windows
<1>8. ASSUME NEW s \in Stations, ReleaseClear(s)
      PROVE  TypeOK'
  BY <1>8 DEF ReleaseClear, TypeOK, OrderInv, Exists, Empty, Interrupted,
     stationVars, openVars, closeVars, Enter, Windows
<1>9. ASSUME NEW c \in Sessions, NEW s \in Stations, NEW p \in Projects,
             OpenCheck(c, s, p)
      PROVE  TypeOK'
  BY <1>9 DEF OpenCheck, TypeOK, OrderInv, Exists, Empty, Interrupted,
     stationVars, openVars, closeVars, Enter, Windows
<1>10. ASSUME NEW c \in Sessions, OpenCommit(c)
      PROVE  TypeOK'
  BY <1>10 DEF OpenCommit, TypeOK, OrderInv, Exists, Empty, Interrupted,
     stationVars, openVars, closeVars, Enter, Windows
<1>11. ASSUME NEW c \in Sessions, ContinueInterrupted(c)
      PROVE  TypeOK'
  BY <1>11 DEF ContinueInterrupted, TypeOK, OrderInv, Exists, Empty,
     Interrupted,
     stationVars, openVars, closeVars, Enter, Windows
<1>12. ASSUME NEW c \in Sessions, Deploy(c)
      PROVE  TypeOK'
  BY <1>12 DEF Deploy, Cloned, TypeOK, OrderInv, Exists, Empty, Interrupted,
     stationVars, openVars, closeVars, Enter, Windows
<1>13. ASSUME NEW c \in Sessions, Restore(c)
      PROVE  TypeOK'
  <2>1. /\ at' \in [Sessions -> {"idle", "checked", "committed", "linked", "deployed", "done"}]
        /\ UNCHANGED <<state, current, pod, creator, releaser, deleter, station, project,
                       continues, deployed, adrift, entered, closeVars>>
    BY <1>13 DEF Restore, TypeOK
  <2>2. workspace' \in [Stations -> [project : Projects \cup {None},
                                    branch : Stations \cup {None}]]
    BY <1>13 DEF Restore, CheckedOut, TypeOK
  <2>3. QED
    BY <2>1, <2>2 DEF TypeOK, closeVars
<1>14. ASSUME NEW c \in Sessions, StopOpening(c)
      PROVE  TypeOK'
  BY <1>14 DEF StopOpening, TypeOK, OrderInv, Exists, Empty, Interrupted,
     stationVars, openVars, closeVars, Enter, Windows
<1>14a. ASSUME NEW c \in Sessions, EndAdrift(c)
      PROVE  TypeOK'
  BY <1>14a DEF EndAdrift, Cloned, CheckedOut, TypeOK, OrderInv, Exists, Empty, Interrupted,
     stationVars, openVars, closeVars, Enter, Windows
<1>15. ASSUME NEW k \in Closers, NEW c \in Sessions, CloseChats(k, c)
      PROVE  TypeOK'
  BY <1>15 DEF CloseChats, TypeOK, OrderInv, Exists, Empty, Interrupted,
     stationVars, openVars, closeVars, Enter, Windows
<1>16. ASSUME NEW k \in Closers, SelectSession(k)
      PROVE  TypeOK'
  BY <1>16 DEF SelectSession, EndClosing, TypeOK, OrderInv, Exists, Empty, Interrupted,
     stationVars, openVars, closeVars, Enter, Windows
<1>17. ASSUME NEW k \in Closers, MarkClosed(k)
      PROVE  TypeOK'
  BY <1>17 DEF MarkClosed, TypeOK, OrderInv, Exists, Empty, Interrupted,
     stationVars, openVars, closeVars, Enter, Windows
<1>18. ASSUME NEW k \in Closers, FreeStation(k)
      PROVE  TypeOK'
  BY <1>18 DEF FreeStation, EndClosing, TypeOK, OrderInv, Exists, Empty, Interrupted,
     stationVars, openVars, closeVars, Enter, Windows
<1>19. ASSUME NEW k \in Closers, StopClosing(k)
      PROVE  TypeOK'
  BY <1>19 DEF StopClosing, EndClosing, TypeOK, OrderInv, Exists, Empty, Interrupted,
     stationVars, openVars, closeVars, Enter, Windows
<1>20. CASE UNCHANGED vars
  BY <1>20 DEF vars, TypeOK, OrderInv, Exists, Empty, Interrupted
<1>21. QED
  BY <1>1, <1>2, <1>3, <1>4, <1>5, <1>6, <1>7, <1>8, <1>9, <1>10,
     <1>11, <1>12, <1>13, <1>14, <1>14a, <1>15, <1>16, <1>17, <1>18, <1>19, <1>20
  DEF Next, StationStep, OpenStep, CloseStep

\* Every step keeps the order of the statements of a handler.
LEMMA OrderStep ==
  ASSUME TypeOK, OrderInv, [Next]_vars
  PROVE  OrderInv'
<1> USE SessionsAssumption
<1>1. ASSUME NEW s \in Stations, CreateWorkstation(s)
      PROVE  OrderInv'
  BY <1>1 DEF CreateWorkstation, TypeOK, OrderInv, Exists, Interrupted,
     stationVars, openVars, closeVars, Enter, Windows
<1>2. ASSUME NEW s \in Stations, CreatePod(s)
      PROVE  OrderInv'
  BY <1>2 DEF CreatePod, TypeOK, OrderInv, Exists, Interrupted,
     stationVars, openVars, closeVars, Enter, Windows
<1>3. ASSUME NEW s \in Stations, WaitReady(s)
      PROVE  OrderInv'
  BY <1>3 DEF WaitReady, TypeOK, OrderInv, Exists, Interrupted,
     stationVars, openVars, closeVars, Enter, Windows
<1>4. ASSUME NEW s \in Stations, MarkDown(s)
      PROVE  OrderInv'
  BY <1>4 DEF MarkDown, TypeOK, OrderInv, Exists, Interrupted,
     stationVars, openVars, closeVars, Enter, Windows
<1>5. ASSUME NEW s \in Stations, DeletePod(s)
      PROVE  OrderInv'
  BY <1>5 DEF DeletePod, TypeOK, OrderInv, Exists, Interrupted,
     stationVars, openVars, closeVars, Enter, Windows
<1>6. ASSUME NEW s \in Stations, DeleteRow(s)
      PROVE  OrderInv'
  BY <1>6 DEF DeleteRow, TypeOK, OrderInv, Exists, Interrupted,
     stationVars, openVars, closeVars, Enter, Windows
<1>7. ASSUME NEW s \in Stations, ReleaseCheck(s)
      PROVE  OrderInv'
  BY <1>7 DEF ReleaseCheck, TypeOK, OrderInv, Exists, Interrupted,
     stationVars, openVars, closeVars, Enter, Windows
<1>8. ASSUME NEW s \in Stations, ReleaseClear(s)
      PROVE  OrderInv'
  BY <1>8 DEF ReleaseClear, TypeOK, OrderInv, Exists, Interrupted,
     stationVars, openVars, closeVars, Enter, Windows
<1>9. ASSUME NEW c \in Sessions, NEW s \in Stations, NEW p \in Projects,
             OpenCheck(c, s, p)
      PROVE  OrderInv'
  BY <1>9 DEF OpenCheck, TypeOK, OrderInv, Exists, Interrupted,
     stationVars, openVars, closeVars, Enter, Windows
<1>10. ASSUME NEW c \in Sessions, OpenCommit(c)
      PROVE  OrderInv'
  BY <1>10 DEF OpenCommit, TypeOK, OrderInv, Exists, Interrupted,
     stationVars, openVars, closeVars, Enter, Windows
<1>11. ASSUME NEW c \in Sessions, ContinueInterrupted(c)
      PROVE  OrderInv'
  BY <1>11 DEF ContinueInterrupted, TypeOK, OrderInv, Exists, Interrupted,
     stationVars, openVars, closeVars, Enter, Windows
<1>12. ASSUME NEW c \in Sessions, Deploy(c)
      PROVE  OrderInv'
  BY <1>12 DEF Deploy, Cloned, TypeOK, OrderInv, Exists, Interrupted,
     stationVars, openVars, closeVars, Enter, Windows
<1>13. ASSUME NEW c \in Sessions, Restore(c)
      PROVE  OrderInv'
  BY <1>13 DEF Restore, CheckedOut, TypeOK, OrderInv, Exists, Interrupted,
     stationVars, openVars, closeVars, Enter, Windows
<1>14. ASSUME NEW c \in Sessions, StopOpening(c)
      PROVE  OrderInv'
  BY <1>14 DEF StopOpening, TypeOK, OrderInv, Exists, Interrupted,
     stationVars, openVars, closeVars, Enter, Windows
<1>14a. ASSUME NEW c \in Sessions, EndAdrift(c)
      PROVE  OrderInv'
  BY <1>14a DEF EndAdrift, Cloned, CheckedOut, TypeOK, OrderInv, Exists, Interrupted,
     stationVars, openVars, closeVars, Enter, Windows
<1>15. ASSUME NEW k \in Closers, NEW c \in Sessions, CloseChats(k, c)
      PROVE  OrderInv'
  BY <1>15 DEF CloseChats, TypeOK, OrderInv, Exists, Interrupted,
     stationVars, openVars, closeVars, Enter, Windows
<1>16. ASSUME NEW k \in Closers, SelectSession(k)
      PROVE  OrderInv'
  BY <1>16 DEF SelectSession, EndClosing, TypeOK, OrderInv, Exists, Interrupted,
     stationVars, openVars, closeVars, Enter, Windows
<1>17. ASSUME NEW k \in Closers, MarkClosed(k)
      PROVE  OrderInv'
  BY <1>17 DEF MarkClosed, TypeOK, OrderInv, Exists, Interrupted,
     stationVars, openVars, closeVars, Enter, Windows
<1>18. ASSUME NEW k \in Closers, FreeStation(k)
      PROVE  OrderInv'
  BY <1>18 DEF FreeStation, EndClosing, TypeOK, OrderInv, Exists, Interrupted,
     stationVars, openVars, closeVars, Enter, Windows
<1>19. ASSUME NEW k \in Closers, StopClosing(k)
      PROVE  OrderInv'
  BY <1>19 DEF StopClosing, EndClosing, TypeOK, OrderInv, Exists, Interrupted,
     stationVars, openVars, closeVars, Enter, Windows
<1>20. CASE UNCHANGED vars
  BY <1>20 DEF vars, TypeOK, OrderInv, Exists, Interrupted
<1>21. QED
  BY <1>1, <1>2, <1>3, <1>4, <1>5, <1>6, <1>7, <1>8, <1>9, <1>10,
     <1>11, <1>12, <1>13, <1>14, <1>14a, <1>15, <1>16, <1>17, <1>18, <1>19, <1>20
  DEF Next, StationStep, OpenStep, CloseStep

\* Without racing openings the checks still hold at the commit.
LEMMA OpenInvStep ==
  ASSUME TypeOK, OrderInv, OpenInv, [Next]_vars
  PROVE  OpenInv'
<1> USE SessionsAssumption
<1>1. ASSUME NEW s \in Stations, CreateWorkstation(s)
      PROVE  OpenInv'
  BY <1>1 DEF CreateWorkstation, TypeOK, OrderInv, OpenInv, OpenIsCurrent,
     Active, Opening, Exists,
     stationVars, openVars, closeVars, Enter, Windows
<1>2. ASSUME NEW s \in Stations, CreatePod(s)
      PROVE  OpenInv'
  BY <1>2 DEF CreatePod, TypeOK, OrderInv, OpenInv, OpenIsCurrent, Active,
     Opening, Exists,
     stationVars, openVars, closeVars, Enter, Windows
<1>3. ASSUME NEW s \in Stations, WaitReady(s)
      PROVE  OpenInv'
  BY <1>3 DEF WaitReady, TypeOK, OrderInv, OpenInv, OpenIsCurrent, Active,
     Opening, Exists,
     stationVars, openVars, closeVars, Enter, Windows
<1>4. ASSUME NEW s \in Stations, MarkDown(s)
      PROVE  OpenInv'
  BY <1>4 DEF MarkDown, TypeOK, OrderInv, OpenInv, OpenIsCurrent, Active,
     Opening, Exists,
     stationVars, openVars, closeVars, Enter, Windows
<1>5. ASSUME NEW s \in Stations, DeletePod(s)
      PROVE  OpenInv'
  BY <1>5 DEF DeletePod, TypeOK, OrderInv, OpenInv, OpenIsCurrent, Active,
     Opening, Exists,
     stationVars, openVars, closeVars, Enter, Windows
<1>6. ASSUME NEW s \in Stations, DeleteRow(s)
      PROVE  OpenInv'
  BY <1>6 DEF DeleteRow, TypeOK, OrderInv, OpenInv, OpenIsCurrent, Active,
     Opening, Exists,
     stationVars, openVars, closeVars, Enter, Windows
<1>7. ASSUME NEW s \in Stations, ReleaseCheck(s)
      PROVE  OpenInv'
  BY <1>7 DEF ReleaseCheck, TypeOK, OrderInv, OpenInv, OpenIsCurrent, Active,
     Opening, Exists,
     stationVars, openVars, closeVars, Enter, Windows
<1>8. ASSUME NEW s \in Stations, ReleaseClear(s)
      PROVE  OpenInv'
  BY <1>8 DEF ReleaseClear, TypeOK, OrderInv, OpenInv, OpenIsCurrent, Active,
     Opening, Exists,
     stationVars, openVars, closeVars, Enter, Windows
<1>9. ASSUME NEW c \in Sessions, NEW s \in Stations, NEW p \in Projects,
             OpenCheck(c, s, p)
      PROVE  OpenInv'
  BY <1>9 DEF OpenCheck, TypeOK, OrderInv, OpenInv, OpenIsCurrent, Active,
     Opening, Exists,
     stationVars, openVars, closeVars, Enter, Windows
<1>10. ASSUME NEW c \in Sessions, OpenCommit(c)
      PROVE  OpenInv'
  BY <1>10 DEF OpenCommit, TypeOK, OrderInv, OpenInv, OpenIsCurrent, Active,
     Opening, Exists,
     stationVars, openVars, closeVars, Enter, Windows
<1>11. ASSUME NEW c \in Sessions, ContinueInterrupted(c)
      PROVE  OpenInv'
  BY <1>11 DEF ContinueInterrupted, TypeOK, OrderInv, OpenInv, OpenIsCurrent,
     Active, Opening, Exists,
     stationVars, openVars, closeVars, Enter, Windows
<1>12. ASSUME NEW c \in Sessions, Deploy(c)
      PROVE  OpenInv'
  BY <1>12 DEF Deploy, Cloned, TypeOK, OrderInv, OpenInv, OpenIsCurrent, Active,
     Opening, Exists,
     stationVars, openVars, closeVars, Enter, Windows
<1>13. ASSUME NEW c \in Sessions, Restore(c)
      PROVE  OpenInv'
  BY <1>13 DEF Restore, CheckedOut, TypeOK, OrderInv, OpenInv, OpenIsCurrent, Active,
     Opening, Exists,
     stationVars, openVars, closeVars, Enter, Windows
<1>14. ASSUME NEW c \in Sessions, StopOpening(c)
      PROVE  OpenInv'
  BY <1>14 DEF StopOpening, TypeOK, OrderInv, OpenInv, OpenIsCurrent, Active,
     Opening, Exists,
     stationVars, openVars, closeVars, Enter, Windows
<1>14a. ASSUME NEW c \in Sessions, EndAdrift(c)
      PROVE  OpenInv'
  BY <1>14a DEF EndAdrift, Cloned, CheckedOut, TypeOK, OrderInv, OpenInv, OpenIsCurrent, Active,
     Opening, Exists,
     stationVars, openVars, closeVars, Enter, Windows
<1>15. ASSUME NEW k \in Closers, NEW c \in Sessions, CloseChats(k, c)
      PROVE  OpenInv'
  BY <1>15 DEF CloseChats, TypeOK, OrderInv, OpenInv, OpenIsCurrent, Active,
     Opening, Exists,
     stationVars, openVars, closeVars, Enter, Windows
<1>16. ASSUME NEW k \in Closers, SelectSession(k)
      PROVE  OpenInv'
  BY <1>16 DEF SelectSession, EndClosing, TypeOK, OrderInv, OpenInv, OpenIsCurrent,
     Active, Opening, Exists,
     stationVars, openVars, closeVars, Enter, Windows
<1>17. ASSUME NEW k \in Closers, MarkClosed(k)
      PROVE  OpenInv'
  BY <1>17 DEF MarkClosed, TypeOK, OrderInv, OpenInv, OpenIsCurrent, Active,
     Opening, Exists,
     stationVars, openVars, closeVars, Enter, Windows
<1>18. ASSUME NEW k \in Closers, FreeStation(k)
      PROVE  OpenInv'
  BY <1>18 DEF FreeStation, EndClosing, TypeOK, OrderInv, OpenInv, OpenIsCurrent, Active,
     Opening, Exists,
     stationVars, openVars, closeVars, Enter, Windows
<1>19. ASSUME NEW k \in Closers, StopClosing(k)
      PROVE  OpenInv'
  BY <1>19 DEF StopClosing, EndClosing, TypeOK, OrderInv, OpenInv, OpenIsCurrent, Active,
     Opening, Exists,
     stationVars, openVars, closeVars, Enter, Windows
<1>20. CASE UNCHANGED vars
  BY <1>20 DEF vars, TypeOK, OrderInv, OpenInv, OpenIsCurrent, Active,
     Opening, Exists
<1>21. QED
  BY <1>1, <1>2, <1>3, <1>4, <1>5, <1>6, <1>7, <1>8, <1>9, <1>10,
     <1>11, <1>12, <1>13, <1>14, <1>14a, <1>15, <1>16, <1>17, <1>18, <1>19, <1>20
  DEF Next, StationStep, OpenStep, CloseStep

\* Without racing closings and releases the files stay those of the session.
LEMMA FileInvStep ==
  ASSUME TypeOK, OrderInv, OpenInv, FileInv, [Next]_vars
  PROVE  FileInv'
<1> USE SessionsAssumption
<1>1. ASSUME NEW s \in Stations, CreateWorkstation(s)
      PROVE  FileInv'
  BY <1>1 DEF CreateWorkstation, TypeOK, OrderInv, OpenInv, OpenIsCurrent,
     FileInv, Active, Opening, Exists, Empty,
     stationVars, openVars, closeVars, Enter, Windows
<1>2. ASSUME NEW s \in Stations, CreatePod(s)
      PROVE  FileInv'
  BY <1>2 DEF CreatePod, TypeOK, OrderInv, OpenInv, OpenIsCurrent, FileInv,
     Active, Opening, Exists, Empty,
     stationVars, openVars, closeVars, Enter, Windows
<1>3. ASSUME NEW s \in Stations, WaitReady(s)
      PROVE  FileInv'
  BY <1>3 DEF WaitReady, TypeOK, OrderInv, OpenInv, OpenIsCurrent, FileInv,
     Active, Opening, Exists, Empty,
     stationVars, openVars, closeVars, Enter, Windows
<1>4. ASSUME NEW s \in Stations, MarkDown(s)
      PROVE  FileInv'
  BY <1>4 DEF MarkDown, TypeOK, OrderInv, OpenInv, OpenIsCurrent, FileInv,
     Active, Opening, Exists, Empty,
     stationVars, openVars, closeVars, Enter, Windows
<1>5. ASSUME NEW s \in Stations, DeletePod(s)
      PROVE  FileInv'
  BY <1>5 DEF DeletePod, TypeOK, OrderInv, OpenInv, OpenIsCurrent, FileInv,
     Active, Opening, Exists, Empty,
     stationVars, openVars, closeVars, Enter, Windows
<1>6. ASSUME NEW s \in Stations, DeleteRow(s)
      PROVE  FileInv'
  BY <1>6 DEF DeleteRow, TypeOK, OrderInv, OpenInv, OpenIsCurrent, FileInv,
     Active, Opening, Exists, Empty,
     stationVars, openVars, closeVars, Enter, Windows
<1>7. ASSUME NEW s \in Stations, ReleaseCheck(s)
      PROVE  FileInv'
  BY <1>7 DEF ReleaseCheck, TypeOK, OrderInv, OpenInv, OpenIsCurrent, FileInv,
     Active, Opening, Exists, Empty,
     stationVars, openVars, closeVars, Enter, Windows
<1>8. ASSUME NEW s \in Stations, ReleaseClear(s)
      PROVE  FileInv'
  BY <1>8 DEF ReleaseClear, TypeOK, OrderInv, OpenInv, OpenIsCurrent, FileInv,
     Active, Opening, Exists, Empty,
     stationVars, openVars, closeVars, Enter, Windows
<1>9. ASSUME NEW c \in Sessions, NEW s \in Stations, NEW p \in Projects,
             OpenCheck(c, s, p)
      PROVE  FileInv'
  BY <1>9 DEF OpenCheck, TypeOK, OrderInv, OpenInv, OpenIsCurrent, FileInv,
     Active, Opening, Exists, Empty,
     stationVars, openVars, closeVars, Enter, Windows
<1>10. ASSUME NEW c \in Sessions, OpenCommit(c)
      PROVE  FileInv'
  BY <1>10 DEF OpenCommit, TypeOK, OrderInv, OpenInv, OpenIsCurrent, FileInv,
     Active, Opening, Exists, Empty,
     stationVars, openVars, closeVars, Enter, Windows
<1>11. ASSUME NEW c \in Sessions, ContinueInterrupted(c)
      PROVE  FileInv'
  BY <1>11 DEF ContinueInterrupted, TypeOK, OrderInv, OpenInv, OpenIsCurrent,
     FileInv, Active, Opening, Exists, Empty,
     stationVars, openVars, closeVars, Enter, Windows
<1>12. ASSUME NEW c \in Sessions, Deploy(c)
      PROVE  FileInv'
  BY <1>12 DEF Deploy, Cloned, TypeOK, OrderInv, OpenInv, OpenIsCurrent, FileInv,
     Active, Opening, Exists, Empty,
     stationVars, openVars, closeVars, Enter, Windows
<1>13. ASSUME NEW c \in Sessions, Restore(c)
      PROVE  FileInv'
  BY <1>13 DEF Restore, CheckedOut, TypeOK, OrderInv, OpenInv, OpenIsCurrent, FileInv,
     Active, Opening, Exists, Empty,
     stationVars, openVars, closeVars, Enter, Windows
<1>14. ASSUME NEW c \in Sessions, StopOpening(c)
      PROVE  FileInv'
  BY <1>14 DEF StopOpening, TypeOK, OrderInv, OpenInv, OpenIsCurrent, FileInv,
     Active, Opening, Exists, Empty,
     stationVars, openVars, closeVars, Enter, Windows
<1>14a. ASSUME NEW c \in Sessions, EndAdrift(c)
      PROVE  FileInv'
  BY <1>14a DEF EndAdrift, Cloned, CheckedOut, TypeOK, OrderInv, OpenInv, OpenIsCurrent, FileInv,
     Active, Opening, Exists, Empty,
     stationVars, openVars, closeVars, Enter, Windows
<1>15. ASSUME NEW k \in Closers, NEW c \in Sessions, CloseChats(k, c)
      PROVE  FileInv'
  BY <1>15 DEF CloseChats, TypeOK, OrderInv, OpenInv, OpenIsCurrent, FileInv,
     Active, Opening, Exists, Empty,
     stationVars, openVars, closeVars, Enter, Windows
<1>16. ASSUME NEW k \in Closers, SelectSession(k)
      PROVE  FileInv'
  BY <1>16 DEF SelectSession, EndClosing, TypeOK, OrderInv, OpenInv, OpenIsCurrent,
     FileInv, Active, Opening, Exists, Empty,
     stationVars, openVars, closeVars, Enter, Windows
<1>17. ASSUME NEW k \in Closers, MarkClosed(k)
      PROVE  FileInv'
  BY <1>17 DEF MarkClosed, TypeOK, OrderInv, OpenInv, OpenIsCurrent, FileInv,
     Active, Opening, Exists, Empty,
     stationVars, openVars, closeVars, Enter, Windows
<1>18. ASSUME NEW k \in Closers, FreeStation(k)
      PROVE  FileInv'
  BY <1>18 DEF FreeStation, EndClosing, TypeOK, OrderInv, OpenInv, OpenIsCurrent, FileInv,
     Active, Opening, Exists, Empty,
     stationVars, openVars, closeVars, Enter, Windows
<1>19. ASSUME NEW k \in Closers, StopClosing(k)
      PROVE  FileInv'
  BY <1>19 DEF StopClosing, EndClosing, TypeOK, OrderInv, OpenInv, OpenIsCurrent, FileInv,
     Active, Opening, Exists, Empty,
     stationVars, openVars, closeVars, Enter, Windows
<1>20. CASE UNCHANGED vars
  BY <1>20 DEF vars, TypeOK, OrderInv, OpenInv, OpenIsCurrent, FileInv,
     Active, Opening, Exists, Empty
<1>21. QED
  BY <1>1, <1>2, <1>3, <1>4, <1>5, <1>6, <1>7, <1>8, <1>9, <1>10,
     <1>11, <1>12, <1>13, <1>14, <1>14a, <1>15, <1>16, <1>17, <1>18, <1>19, <1>20
  DEF Next, StationStep, OpenStep, CloseStep

\* Without a station that goes down under an opening a session never continues itself.
LEMMA RecoverInvStep ==
  ASSUME TypeOK, OrderInv, RecoverInv, [Next]_vars
  PROVE  RecoverInv'
<1> USE SessionsAssumption
<1>1. ASSUME NEW s \in Stations, CreateWorkstation(s)
      PROVE  RecoverInv'
  BY <1>1 DEF CreateWorkstation, TypeOK, OrderInv, RecoverInv,
     ContinuesAnother, Continues, Opening, Exists, Interrupted,
     stationVars, openVars, closeVars, Enter, Windows
<1>2. ASSUME NEW s \in Stations, CreatePod(s)
      PROVE  RecoverInv'
  BY <1>2 DEF CreatePod, TypeOK, OrderInv, RecoverInv, ContinuesAnother, Continues,
     Opening, Exists, Interrupted,
     stationVars, openVars, closeVars, Enter, Windows
<1>3. ASSUME NEW s \in Stations, WaitReady(s)
      PROVE  RecoverInv'
  BY <1>3 DEF WaitReady, TypeOK, OrderInv, RecoverInv, ContinuesAnother, Continues,
     Opening, Exists, Interrupted,
     stationVars, openVars, closeVars, Enter, Windows
<1>4. ASSUME NEW s \in Stations, MarkDown(s)
      PROVE  RecoverInv'
  BY <1>4 DEF MarkDown, TypeOK, OrderInv, RecoverInv, ContinuesAnother, Continues,
     Opening, Exists, Interrupted,
     stationVars, openVars, closeVars, Enter, Windows
<1>5. ASSUME NEW s \in Stations, DeletePod(s)
      PROVE  RecoverInv'
  BY <1>5 DEF DeletePod, TypeOK, OrderInv, RecoverInv, ContinuesAnother, Continues,
     Opening, Exists, Interrupted,
     stationVars, openVars, closeVars, Enter, Windows
<1>6. ASSUME NEW s \in Stations, DeleteRow(s)
      PROVE  RecoverInv'
  BY <1>6 DEF DeleteRow, TypeOK, OrderInv, RecoverInv, ContinuesAnother, Continues,
     Opening, Exists, Interrupted,
     stationVars, openVars, closeVars, Enter, Windows
<1>7. ASSUME NEW s \in Stations, ReleaseCheck(s)
      PROVE  RecoverInv'
  BY <1>7 DEF ReleaseCheck, TypeOK, OrderInv, RecoverInv, ContinuesAnother, Continues,
     Opening, Exists, Interrupted,
     stationVars, openVars, closeVars, Enter, Windows
<1>8. ASSUME NEW s \in Stations, ReleaseClear(s)
      PROVE  RecoverInv'
  BY <1>8 DEF ReleaseClear, TypeOK, OrderInv, RecoverInv, ContinuesAnother, Continues,
     Opening, Exists, Interrupted,
     stationVars, openVars, closeVars, Enter, Windows
<1>9. ASSUME NEW c \in Sessions, NEW s \in Stations, NEW p \in Projects,
             OpenCheck(c, s, p)
      PROVE  RecoverInv'
  BY <1>9 DEF OpenCheck, TypeOK, OrderInv, RecoverInv, ContinuesAnother, Continues,
     Opening, Exists, Interrupted,
     stationVars, openVars, closeVars, Enter, Windows
<1>10. ASSUME NEW c \in Sessions, OpenCommit(c)
      PROVE  RecoverInv'
  BY <1>10 DEF OpenCommit, TypeOK, OrderInv, RecoverInv, ContinuesAnother, Continues,
     Opening, Exists, Interrupted,
     stationVars, openVars, closeVars, Enter, Windows
<1>11. ASSUME NEW c \in Sessions, ContinueInterrupted(c)
      PROVE  RecoverInv'
  BY <1>11 DEF ContinueInterrupted, TypeOK, OrderInv, RecoverInv,
     ContinuesAnother, Continues, Opening, Exists, Interrupted,
     stationVars, openVars, closeVars, Enter, Windows
<1>12. ASSUME NEW c \in Sessions, Deploy(c)
      PROVE  RecoverInv'
  BY <1>12 DEF Deploy, Cloned, TypeOK, OrderInv, RecoverInv, ContinuesAnother, Continues,
     Opening, Exists, Interrupted,
     stationVars, openVars, closeVars, Enter, Windows
<1>13. ASSUME NEW c \in Sessions, Restore(c)
      PROVE  RecoverInv'
  BY <1>13 DEF Restore, CheckedOut, TypeOK, OrderInv, RecoverInv, ContinuesAnother, Continues,
     Opening, Exists, Interrupted,
     stationVars, openVars, closeVars, Enter, Windows
<1>14. ASSUME NEW c \in Sessions, StopOpening(c)
      PROVE  RecoverInv'
  BY <1>14 DEF StopOpening, TypeOK, OrderInv, RecoverInv, ContinuesAnother, Continues,
     Opening, Exists, Interrupted,
     stationVars, openVars, closeVars, Enter, Windows
<1>14a. ASSUME NEW c \in Sessions, EndAdrift(c)
      PROVE  RecoverInv'
  BY <1>14a DEF EndAdrift, Cloned, CheckedOut, TypeOK, OrderInv, RecoverInv, ContinuesAnother, Continues,
     Opening, Exists, Interrupted,
     stationVars, openVars, closeVars, Enter, Windows
<1>15. ASSUME NEW k \in Closers, NEW c \in Sessions, CloseChats(k, c)
      PROVE  RecoverInv'
  BY <1>15 DEF CloseChats, TypeOK, OrderInv, RecoverInv, ContinuesAnother, Continues,
     Opening, Exists, Interrupted,
     stationVars, openVars, closeVars, Enter, Windows
<1>16. ASSUME NEW k \in Closers, SelectSession(k)
      PROVE  RecoverInv'
  BY <1>16 DEF SelectSession, EndClosing, TypeOK, OrderInv, RecoverInv, ContinuesAnother, Continues,
     Opening, Exists, Interrupted,
     stationVars, openVars, closeVars, Enter, Windows
<1>17. ASSUME NEW k \in Closers, MarkClosed(k)
      PROVE  RecoverInv'
  BY <1>17 DEF MarkClosed, TypeOK, OrderInv, RecoverInv, ContinuesAnother, Continues,
     Opening, Exists, Interrupted,
     stationVars, openVars, closeVars, Enter, Windows
<1>18. ASSUME NEW k \in Closers, FreeStation(k)
      PROVE  RecoverInv'
  BY <1>18 DEF FreeStation, EndClosing, TypeOK, OrderInv, RecoverInv, ContinuesAnother, Continues,
     Opening, Exists, Interrupted,
     stationVars, openVars, closeVars, Enter, Windows
<1>19. ASSUME NEW k \in Closers, StopClosing(k)
      PROVE  RecoverInv'
  BY <1>19 DEF StopClosing, EndClosing, TypeOK, OrderInv, RecoverInv, ContinuesAnother, Continues,
     Opening, Exists, Interrupted,
     stationVars, openVars, closeVars, Enter, Windows
<1>20. CASE UNCHANGED vars
  BY <1>20 DEF vars, TypeOK, OrderInv, RecoverInv, ContinuesAnother, Continues, Opening,
     Exists, Interrupted
<1>21. QED
  BY <1>1, <1>2, <1>3, <1>4, <1>5, <1>6, <1>7, <1>8, <1>9, <1>10,
     <1>11, <1>12, <1>13, <1>14, <1>14a, <1>15, <1>16, <1>17, <1>18, <1>19, <1>20
  DEF Next, StationStep, OpenStep, CloseStep

\* Nothing exists at the start.
LEMMA InitInv == Init => TypeOK /\ OrderInv /\ OpenInv /\ FileInv /\ RecoverInv
BY SessionsAssumption
   DEF Init, TypeOK, OrderInv, OpenInv, OpenIsCurrent, FileInv, RecoverInv,
       ContinuesAnother, Continues, Empty

-----------------------------------------------------------------------------
(* Theorems.                                                               *)

\* Stations, sessions and handlers keep their types, and the statements of a
\* handler their order, whatever races and wherever a handler stops.
THEOREM TypeCorrect == Spec => [](TypeOK /\ OrderInv)
<1>1. TypeOK /\ OrderInv /\ [Next]_vars => (TypeOK /\ OrderInv)'
  BY TypeStep, OrderStep
<1>2. QED
  BY InitInv, <1>1, PTL DEF Spec

\* As long as no two openings of a station race, an open session is the current
\* session of its station and of no other, however many handlers close
\* sessions and wherever they stop (chats.rs, close_session_if_any).
THEOREM OpenIsCurrentCorrect == Spec => []OpenIsCurrent
<1>1. TypeOK /\ OrderInv /\ OpenInv /\ [Next]_vars => OpenInv'
  BY OpenInvStep
<1>2. OpenInv => OpenIsCurrent
  BY DEF OpenInv, OpenIsCurrent
<1>3. QED
  BY InitInv, TypeCorrect, <1>1, <1>2, PTL DEF Spec

\* As long as no closing comes between the commit and the clone or leaves a clone
\* running whose handler is gone, no opening between the check and the clearing of a
\* release, and no two openings pass the check together, an open session whose project
\* was deployed finds the files of that project (server.rs, open_workstation_session).
THEOREM SessionHasItsProjectCorrect == Spec => []SessionHasItsProject
<1>1. Spec => []OpenInv
  <2>1. TypeOK /\ OrderInv /\ OpenInv /\ [Next]_vars => OpenInv'
    BY OpenInvStep
  <2>2. QED
    BY InitInv, TypeCorrect, <2>1, PTL DEF Spec
<1>2. TypeOK /\ OrderInv /\ OpenInv /\ FileInv /\ [Next]_vars => FileInv'
  BY FileInvStep
<1>3. FileInv => SessionHasItsProject
  BY DEF FileInv, SessionHasItsProject, HasItsProject
<1>4. QED
  BY InitInv, TypeCorrect, <1>1, <1>2, <1>3, PTL DEF Spec

\* As long as no station goes down while a session is opened on it, a session
\* continues one of its project on another station (sessions.rs,
\* interrupted_session_for_project).
THEOREM ContinuesAnotherCorrect == Spec => []ContinuesAnother
<1>1. TypeOK /\ OrderInv /\ RecoverInv /\ [Next]_vars => RecoverInv'
  BY RecoverInvStep
<1>2. RecoverInv => ContinuesAnother
  BY DEF RecoverInv, ContinuesAnother
<1>3. QED
  BY InitInv, TypeCorrect, <1>1, <1>2, PTL DEF Spec
=============================================================================
