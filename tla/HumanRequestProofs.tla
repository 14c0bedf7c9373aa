------------------------ MODULE HumanRequestProofs ------------------------
(***************************************************************************)
(* Theorems about HumanRequest for any runs, replies, faults and crashes:  *)
(* types, one answer per question, one resumption per answer, a task that  *)
(* follows its request and never leaves its final status.                  *)
(***************************************************************************)
EXTENDS HumanRequest, TLAPS

IndInv == TypeOK /\ RunInv /\ RouteInv /\ AnswerInv /\ CauseInv

-----------------------------------------------------------------------------

LEMMA InitInv == Init => IndInv
BY HumanRequestAssumption
   DEF Init, IndInv, TypeOK, RunInv, RouteInv, AnswerInv, AnsweredOnce,
       CauseInv, AtRun, Active, AtReply, InRouting, Decided, Status, Settled

LEMMA StepInv == IndInv /\ [Next]_vars => IndInv'
<1> SUFFICES ASSUME IndInv, [Next]_vars
             PROVE  IndInv'
  OBVIOUS
<1> USE HumanRequestAssumption DEF IndInv
<1>1. ASSUME NEW r \in Runs, CallAgent(r)
      PROVE  IndInv'
  <2>1. TypeOK'
    BY <1>1 DEF CallAgent, TypeOK, RunInv, AtRun, Active, AtReply,
       InRouting, Status, Settled, runVars, replyVars, envVars
  <2>2. RunInv'
    BY <1>1 DEF CallAgent, TypeOK, RunInv, RouteInv, Active, runVars, replyVars, envVars
  <2>3. RouteInv'
    BY <1>1 DEF CallAgent, TypeOK, RunInv, RouteInv, InRouting, Decided, runVars,
       replyVars, envVars
  <2>4. AnswerInv'
    BY <1>1 DEF CallAgent, TypeOK, RunInv, RouteInv, AnswerInv, AnsweredOnce, runVars,
       replyVars, envVars
  <2>5. CauseInv'
    BY <1>1 DEF CallAgent, TypeOK, RunInv, CauseInv, InRouting, runVars, replyVars, envVars
  <2>6. QED
    BY <2>1, <2>2, <2>3, <2>4, <2>5
<1>2. ASSUME NEW r \in Runs, StartRun(r)
      PROVE  IndInv'
  <2>1. TypeOK'
    BY <1>2 DEF StartRun, QueryFails, TypeOK, RunInv, AtRun, Active, AtReply,
       InRouting, Status, Settled, runVars, replyVars, envVars
  <2>2. RunInv'
    BY <1>2 DEF StartRun, QueryFails, TypeOK, RunInv, RouteInv, Active, runVars, replyVars, envVars
  <2>3. RouteInv'
    BY <1>2 DEF StartRun, QueryFails, TypeOK, RunInv, RouteInv, InRouting, Decided, runVars,
       replyVars, envVars
  <2>4. AnswerInv'
    BY <1>2 DEF StartRun, QueryFails, TypeOK, RunInv, RouteInv, AnswerInv, AnsweredOnce, runVars,
       replyVars, envVars
  <2>5. CauseInv'
    BY <1>2 DEF StartRun, QueryFails, TypeOK, RunInv, CauseInv, InRouting, runVars, replyVars, envVars
  <2>6. QED
    BY <2>1, <2>2, <2>3, <2>4, <2>5
<1>3. ASSUME NEW r \in Runs, AbandonRun(r)
      PROVE  IndInv'
  <2>1. TypeOK'
    BY <1>3 DEF AbandonRun, QueryFails, TypeOK, RunInv, AtRun, Active, AtReply,
       InRouting, Status, Settled, runVars, replyVars, envVars
  <2>2. RunInv'
    BY <1>3 DEF AbandonRun, QueryFails, TypeOK, RunInv, RouteInv, Active, runVars, replyVars, envVars
  <2>3. RouteInv'
    BY <1>3 DEF AbandonRun, QueryFails, TypeOK, RunInv, RouteInv, InRouting, Decided, runVars,
       replyVars, envVars
  <2>4. AnswerInv'
    BY <1>3 DEF AbandonRun, QueryFails, TypeOK, RunInv, RouteInv, AnswerInv, AnsweredOnce, runVars,
       replyVars, envVars
  <2>5. CauseInv'
    BY <1>3 DEF AbandonRun, QueryFails, TypeOK, RunInv, CauseInv, InRouting, runVars, replyVars, envVars
  <2>6. QED
    BY <2>1, <2>2, <2>3, <2>4, <2>5
<1>4. ASSUME NEW r \in Runs, Finish(r)
      PROVE  IndInv'
  <2>1. TypeOK'
    BY <1>4 DEF Finish, TypeOK, RunInv, AtRun, Active, AtReply,
       InRouting, Status, Settled, runVars, replyVars, envVars
  <2>2. RunInv'
    BY <1>4 DEF Finish, TypeOK, RunInv, RouteInv, Active, runVars, replyVars, envVars
  <2>3. RouteInv'
    BY <1>4 DEF Finish, TypeOK, RunInv, RouteInv, InRouting, Decided, runVars,
       replyVars, envVars
  <2>4. AnswerInv'
    BY <1>4 DEF Finish, TypeOK, RunInv, RouteInv, AnswerInv, AnsweredOnce, runVars,
       replyVars, envVars
  <2>5. CauseInv'
    BY <1>4 DEF Finish, TypeOK, RunInv, CauseInv, InRouting, runVars, replyVars, envVars
  <2>6. QED
    BY <2>1, <2>2, <2>3, <2>4, <2>5
<1>5. ASSUME NEW r \in Runs, CreateRequest(r)
      PROVE  IndInv'
  <2>1. TypeOK'
    BY <1>5 DEF CreateRequest, TypeOK, RunInv, AtRun, Active, AtReply,
       InRouting, Status, Settled, runVars, replyVars, envVars
  <2>2. RunInv'
    BY <1>5 DEF CreateRequest, TypeOK, RunInv, RouteInv, Active, runVars, replyVars, envVars
  <2>3. RouteInv'
    BY <1>5 DEF CreateRequest, TypeOK, RunInv, RouteInv, InRouting, Decided, runVars,
       replyVars, envVars
  <2>4. AnswerInv'
    BY <1>5 DEF CreateRequest, TypeOK, RunInv, RouteInv, AnswerInv, AnsweredOnce, runVars,
       replyVars, envVars
  <2>5. CauseInv'
    BY <1>5 DEF CreateRequest, TypeOK, RunInv, CauseInv, InRouting, runVars, replyVars, envVars
  <2>6. QED
    BY <2>1, <2>2, <2>3, <2>4, <2>5
<1>6. ASSUME NEW r \in Runs, FailRun(r)
      PROVE  IndInv'
  <2>1. TypeOK'
    BY <1>6 DEF FailRun, TypeOK, RunInv, AtRun, Active, AtReply,
       InRouting, Status, Settled, runVars, replyVars, envVars
  <2>2. RunInv'
    BY <1>6 DEF FailRun, TypeOK, RunInv, RouteInv, Active, runVars, replyVars, envVars
  <2>3. RouteInv'
    BY <1>6 DEF FailRun, TypeOK, RunInv, RouteInv, InRouting, Decided, runVars,
       replyVars, envVars
  <2>4. AnswerInv'
    BY <1>6 DEF FailRun, TypeOK, RunInv, RouteInv, AnswerInv, AnsweredOnce, runVars,
       replyVars, envVars
  <2>5. CauseInv'
    BY <1>6 DEF FailRun, TypeOK, RunInv, CauseInv, InRouting, runVars, replyVars, envVars
  <2>6. QED
    BY <2>1, <2>2, <2>3, <2>4, <2>5
<1>7. ASSUME NEW r \in Runs, WaitHuman(r)
      PROVE  IndInv'
  <2>1. TypeOK'
    BY <1>7 DEF WaitHuman, TypeOK, RunInv, AtRun, Active, AtReply,
       InRouting, Status, Settled, runVars, replyVars, envVars
  <2>2. RunInv'
    BY <1>7 DEF WaitHuman, TypeOK, RunInv, RouteInv, Active, runVars, replyVars, envVars
  <2>3. RouteInv'
    BY <1>7 DEF WaitHuman, TypeOK, RunInv, RouteInv, InRouting, Decided, runVars,
       replyVars, envVars
  <2>4. AnswerInv'
    BY <1>7 DEF WaitHuman, TypeOK, RunInv, RouteInv, AnswerInv, AnsweredOnce, runVars,
       replyVars, envVars
  <2>5. CauseInv'
    BY <1>7 DEF WaitHuman, TypeOK, RunInv, CauseInv, InRouting, runVars, replyVars, envVars
  <2>6. QED
    BY <2>1, <2>2, <2>3, <2>4, <2>5
<1>8. ASSUME NEW r \in Runs, SendQuestion(r)
      PROVE  IndInv'
  <2>1. TypeOK'
    BY <1>8 DEF SendQuestion, LoseQuestion, QueryFails, TypeOK, RunInv, AtRun, Active, AtReply,
       InRouting, Status, Settled, runVars, replyVars, envVars
  <2>2. RunInv'
    BY <1>8 DEF SendQuestion, LoseQuestion, QueryFails, TypeOK, RunInv, RouteInv, Active, runVars, replyVars, envVars
  <2>3. RouteInv'
    BY <1>8 DEF SendQuestion, LoseQuestion, QueryFails, TypeOK, RunInv, RouteInv, InRouting, Decided, runVars,
       replyVars, envVars
  <2>4. AnswerInv'
    BY <1>8 DEF SendQuestion, LoseQuestion, QueryFails, TypeOK, RunInv, RouteInv, AnswerInv, AnsweredOnce, runVars,
       replyVars, envVars
  <2>5. CauseInv'
    BY <1>8 DEF SendQuestion, LoseQuestion, QueryFails, TypeOK, RunInv, CauseInv, InRouting, runVars, replyVars, envVars
  <2>6. QED
    BY <2>1, <2>2, <2>3, <2>4, <2>5
<1>9. ASSUME NEW r \in Runs, LinkRequest(r)
      PROVE  IndInv'
  <2>1. TypeOK'
    BY <1>9 DEF LinkRequest, QueryFails, TypeOK, RunInv, AtRun, Active, AtReply,
       InRouting, Status, Settled, runVars, replyVars, envVars
  <2>2. RunInv'
    BY <1>9 DEF LinkRequest, QueryFails, TypeOK, RunInv, RouteInv, Active, runVars, replyVars, envVars
  <2>3. RouteInv'
    BY <1>9 DEF LinkRequest, QueryFails, TypeOK, RunInv, RouteInv, InRouting, Decided, runVars,
       replyVars, envVars
  <2>4. AnswerInv'
    BY <1>9 DEF LinkRequest, QueryFails, TypeOK, RunInv, RouteInv, AnswerInv, AnsweredOnce, runVars,
       replyVars, envVars
  <2>5. CauseInv'
    BY <1>9 DEF LinkRequest, QueryFails, TypeOK, RunInv, CauseInv, InRouting, runVars, replyVars, envVars
  <2>6. QED
    BY <2>1, <2>2, <2>3, <2>4, <2>5
<1>10. ASSUME NEW r \in Runs, SendAnswer(r)
      PROVE  IndInv'
  <2>1. TypeOK'
    BY <1>10 DEF SendAnswer, TypeOK, RunInv, AtRun, Active, AtReply,
       InRouting, Status, Settled, runVars, replyVars, envVars
  <2>2. RunInv'
    BY <1>10 DEF SendAnswer, TypeOK, RunInv, RouteInv, Active, runVars, replyVars, envVars
  <2>3. RouteInv'
    BY <1>10 DEF SendAnswer, TypeOK, RunInv, RouteInv, InRouting, Decided, runVars,
       replyVars, envVars
  <2>4. AnswerInv'
    BY <1>10 DEF SendAnswer, TypeOK, RunInv, RouteInv, AnswerInv, AnsweredOnce, runVars,
       replyVars, envVars
  <2>5. CauseInv'
    BY <1>10 DEF SendAnswer, TypeOK, RunInv, CauseInv, InRouting, runVars, replyVars, envVars
  <2>6. QED
    BY <2>1, <2>2, <2>3, <2>4, <2>5
<1>11. ASSUME NEW m \in Replies, NEW r \in Runs, PostReply(m, r)
      PROVE  IndInv'
  <2>1. TypeOK'
    BY <1>11 DEF PostReply, TypeOK, RunInv, AtRun, Active, AtReply,
       InRouting, Status, Settled, runVars, replyVars, envVars
  <2>2. RunInv'
    BY <1>11 DEF PostReply, TypeOK, RunInv, RouteInv, Active, runVars, replyVars, envVars
  <2>3. RouteInv'
    BY <1>11 DEF PostReply, TypeOK, RunInv, RouteInv, InRouting, Decided, runVars,
       replyVars, envVars
  <2>4. AnswerInv'
    BY <1>11 DEF PostReply, TypeOK, RunInv, RouteInv, AnswerInv, AnsweredOnce, runVars,
       replyVars, envVars
  <2>5. CauseInv'
    BY <1>11 DEF PostReply, TypeOK, RunInv, CauseInv, InRouting, runVars, replyVars, envVars
  <2>6. QED
    BY <2>1, <2>2, <2>3, <2>4, <2>5
<1>12. ASSUME NEW m \in Replies, ReadPending(m)
      PROVE  IndInv'
  <2>1. TypeOK'
    BY <1>12 DEF ReadPending, QueryFails, TypeOK, RunInv, AtRun, Active, AtReply,
       InRouting, Status, Settled, runVars, replyVars, envVars
  <2>2. RunInv'
    BY <1>12 DEF ReadPending, QueryFails, TypeOK, RunInv, RouteInv, Active, runVars, replyVars, envVars
  <2>3. RouteInv'
    BY <1>12 DEF ReadPending, QueryFails, TypeOK, RunInv, RouteInv, InRouting, Decided, runVars,
       replyVars, envVars
  <2>4. AnswerInv'
    BY <1>12 DEF ReadPending, QueryFails, TypeOK, RunInv, RouteInv, AnswerInv, AnsweredOnce, runVars,
       replyVars, envVars
  <2>5. CauseInv'
    BY <1>12 DEF ReadPending, QueryFails, TypeOK, RunInv, CauseInv, InRouting, runVars, replyVars, envVars
  <2>6. QED
    BY <2>1, <2>2, <2>3, <2>4, <2>5
<1>13. ASSUME NEW m \in Replies, AnswerRequest(m)
      PROVE  IndInv'
  <2>1. TypeOK'
    BY <1>13 DEF AnswerRequest, QueryFails, TypeOK, RunInv, AtRun, Active, AtReply,
       InRouting, Status, Settled, runVars, replyVars, envVars
  <2>2. RunInv'
    BY <1>13 DEF AnswerRequest, QueryFails, TypeOK, RunInv, RouteInv, Active, runVars, replyVars, envVars
  <2>3. RouteInv'
    BY <1>13 DEF AnswerRequest, QueryFails, TypeOK, RunInv, RouteInv, InRouting, Decided, runVars,
       replyVars, envVars
  <2>4. AnswerInv'
    <3>1. CASE reply'[m] = "won"
      <4>1. target[m] \in Runs /\ m \in inChat /\ request[target[m]] = "pending"
        BY <1>13, <3>1 DEF AnswerRequest, QueryFails, TypeOK, RouteInv
      <4>2. winners[target[m]] = {} BY <4>1 DEF AnswerInv, AnsweredOnce
      <4>3. /\ winners'[target[m]] = {m} /\ request'[target[m]] = "answered"
            /\ inChat' = inChat
            /\ \A r \in Runs \ {target[m]} :
                 winners'[r] = winners[r] /\ request'[r] = request[r]
        BY <1>13, <3>1, <4>1, <4>2 DEF AnswerRequest, QueryFails, TypeOK
      <4> QED BY <4>1, <4>3 DEF AnswerInv, AnsweredOnce
    <3>2. CASE reply'[m] # "won"
      <4>1. UNCHANGED <<request, winners, inChat>>
        BY <1>13, <3>2 DEF AnswerRequest, TypeOK
      <4> QED BY <4>1 DEF AnswerInv, AnsweredOnce
    <3> QED BY <3>1, <3>2
  <2>5. CauseInv'
    BY <1>13 DEF AnswerRequest, QueryFails, TypeOK, RunInv, CauseInv, InRouting, runVars, replyVars, envVars
  <2>6. QED
    BY <2>1, <2>2, <2>3, <2>4, <2>5
<1>14. ASSUME NEW m \in Replies, CompleteTask(m)
      PROVE  IndInv'
  <2>0. /\ target[m] \in Runs /\ target[m] \in linked
        /\ request[target[m]] = "answered"
    BY <1>14 DEF CompleteTask, QueryFails, TypeOK, RouteInv, Decided, AnswerInv, AnsweredOnce
  <2>1. TypeOK'
    BY <1>14, <2>0 DEF CompleteTask, QueryFails, TypeOK, RunInv, AtRun, Active, AtReply,
       InRouting, Status, Settled, runVars, replyVars, envVars
  <2>2. RunInv'
    BY <1>14, <2>0 DEF CompleteTask, QueryFails, TypeOK, RunInv, RouteInv, Active, runVars, replyVars, envVars
  <2>3. RouteInv'
    BY <1>14 DEF CompleteTask, QueryFails, TypeOK, RunInv, RouteInv, InRouting, Decided, runVars,
       replyVars, envVars
  <2>4. AnswerInv'
    BY <1>14 DEF CompleteTask, QueryFails, TypeOK, RunInv, RouteInv, AnswerInv, AnsweredOnce, runVars,
       replyVars, envVars
  <2>5. CauseInv'
    BY <1>14 DEF CompleteTask, QueryFails, TypeOK, RunInv, CauseInv, InRouting, runVars, replyVars, envVars
  <2>6. QED
    BY <2>1, <2>2, <2>3, <2>4, <2>5
<1>15. ASSUME NEW m \in Replies, Resume(m)
      PROVE  IndInv'
  <2>1. TypeOK'
    BY <1>15 DEF Resume, TypeOK, RunInv, AtRun, Active, AtReply,
       InRouting, Status, Settled, runVars, replyVars, envVars
  <2>2. RunInv'
    BY <1>15 DEF Resume, TypeOK, RunInv, RouteInv, Active, runVars, replyVars, envVars
  <2>3. RouteInv'
    BY <1>15 DEF Resume, TypeOK, RunInv, RouteInv, InRouting, Decided, runVars,
       replyVars, envVars
  <2>4. AnswerInv'
    BY <1>15 DEF Resume, TypeOK, RunInv, RouteInv, AnswerInv, AnsweredOnce, runVars,
       replyVars, envVars
  <2>5. CauseInv'
    BY <1>15 DEF Resume, TypeOK, RunInv, CauseInv, InRouting, runVars, replyVars, envVars
  <2>6. QED
    BY <2>1, <2>2, <2>3, <2>4, <2>5
<1>16. CASE CloseChat
  <2>1. TypeOK'
    BY <1>16 DEF CloseChat, TypeOK, RunInv, AtRun, Active, AtReply,
       InRouting, Status, Settled, runVars, replyVars, envVars
  <2>2. RunInv'
    BY <1>16 DEF CloseChat, TypeOK, RunInv, RouteInv, Active, runVars, replyVars, envVars
  <2>3. RouteInv'
    BY <1>16 DEF CloseChat, TypeOK, RunInv, RouteInv, InRouting, Decided, runVars,
       replyVars, envVars
  <2>4. AnswerInv'
    BY <1>16 DEF CloseChat, TypeOK, RunInv, RouteInv, AnswerInv, AnsweredOnce, runVars,
       replyVars, envVars
  <2>5. CauseInv'
    BY <1>16 DEF CloseChat, TypeOK, RunInv, CauseInv, InRouting, runVars, replyVars, envVars
  <2>6. QED
    BY <2>1, <2>2, <2>3, <2>4, <2>5
<1>16a. CASE FillThread
  <2>1. TypeOK'
    BY <1>16a DEF FillThread, TypeOK, RunInv, AtRun, Active, AtReply,
       InRouting, Status, Settled, runVars, replyVars, envVars
  <2>2. RunInv'
    BY <1>16a DEF FillThread, TypeOK, RunInv, RouteInv, Active, runVars, replyVars, envVars
  <2>3. RouteInv'
    BY <1>16a DEF FillThread, TypeOK, RunInv, RouteInv, InRouting, Decided, runVars,
       replyVars, envVars
  <2>4. AnswerInv'
    BY <1>16a DEF FillThread, TypeOK, RunInv, RouteInv, AnswerInv, AnsweredOnce, runVars,
       replyVars, envVars
  <2>5. CauseInv'
    BY <1>16a DEF FillThread, TypeOK, RunInv, CauseInv, InRouting, runVars, replyVars, envVars
  <2>6. QED
    BY <2>1, <2>2, <2>3, <2>4, <2>5
<1>17. CASE EditSet
  <2>1. TypeOK'
    BY <1>17 DEF EditSet, TypeOK, RunInv, AtRun, Active, AtReply,
       InRouting, Status, Settled, runVars, replyVars, envVars
  <2>2. RunInv'
    BY <1>17 DEF EditSet, TypeOK, RunInv, RouteInv, Active, runVars, replyVars, envVars
  <2>3. RouteInv'
    BY <1>17 DEF EditSet, TypeOK, RunInv, RouteInv, InRouting, Decided, runVars,
       replyVars, envVars
  <2>4. AnswerInv'
    BY <1>17 DEF EditSet, TypeOK, RunInv, RouteInv, AnswerInv, AnsweredOnce, runVars,
       replyVars, envVars
  <2>5. CauseInv'
    BY <1>17 DEF EditSet, TypeOK, RunInv, CauseInv, InRouting, runVars, replyVars, envVars
  <2>6. QED
    BY <2>1, <2>2, <2>3, <2>4, <2>5
<1>18. CASE Crash
  <2>1. TypeOK'
    BY <1>18 DEF Crash, TypeOK, RunInv, AtRun, Active, AtReply,
       InRouting, Status, Settled, runVars, replyVars, envVars
  <2>2. RunInv'
    BY <1>18 DEF Crash, TypeOK, RunInv, RouteInv, Active, runVars, replyVars, envVars
  <2>3. RouteInv'
    BY <1>18 DEF Crash, TypeOK, RunInv, RouteInv, InRouting, Decided, runVars,
       replyVars, envVars
  <2>4. AnswerInv'
    BY <1>18 DEF Crash, TypeOK, RunInv, RouteInv, AnswerInv, AnsweredOnce, runVars,
       replyVars, envVars
  <2>5. CauseInv'
    BY <1>18 DEF Crash, TypeOK, RunInv, CauseInv, InRouting, runVars, replyVars, envVars
  <2>6. QED
    BY <2>1, <2>2, <2>3, <2>4, <2>5
<1>19. CASE UNCHANGED vars
  BY <1>19 DEF vars, TypeOK, RunInv, RouteInv, AnswerInv, AnsweredOnce, CauseInv
<1>20. QED
  BY <1>1, <1>2, <1>3, <1>4, <1>5, <1>6, <1>7, <1>8, <1>9,
     <1>10, <1>11, <1>12, <1>13, <1>14, <1>15, <1>16, <1>16a, <1>17, <1>18, <1>19
  DEF Next, RunStep, Leave, RouteStep

LEMMA Invariant == Spec => []IndInv
BY InitInv, StepInv, PTL DEF Spec

-----------------------------------------------------------------------------
(* The theorems.                                                           *)

\* Runs, requests and replies keep their types under every fault and crash.
THEOREM TypeCorrect == Spec => []TypeOK
<1>1. IndInv => TypeOK
  BY DEF IndInv
<1>2. QED
  BY <1>1, Invariant, PTL

\* A question is answered by at most one reply of its chat, whatever races.
THEOREM AnsweredOnceCorrect == Spec => []AnsweredOnce
<1>1. IndInv => AnsweredOnce
  BY DEF IndInv, AnswerInv
<1>2. QED
  BY <1>1, Invariant, PTL

\* One answer resumes at most one run, and a question has one answer.
THEOREM ResumedOnceCorrect == Spec => []ResumedOnce
<1>1. IndInv => ResumedOnce
  <2> SUFFICES ASSUME IndInv, NEW r \in Runs, NEW s \in Runs,
                      cause[r] # None, cause[s] # None,
                      target[cause[r]] = target[cause[s]]
               PROVE  r = s
    BY DEF ResumedOnce
  <2>1. cause[r] \in Replies /\ cause[s] \in Replies
    BY DEF IndInv, TypeOK
  <2>2. reply[cause[r]] = "resumed" /\ reply[cause[s]] = "resumed"
    BY DEF IndInv, CauseInv
  <2>3. /\ cause[r] \in winners[target[cause[r]]]
        /\ cause[s] \in winners[target[cause[r]]]
    BY <2>1, <2>2 DEF IndInv, RouteInv, Decided
  <2>4. target[cause[r]] \in Runs
    BY <2>1, <2>2 DEF IndInv, TypeOK, RouteInv
  <2>5. cause[r] = cause[s]
    BY <2>3, <2>4 DEF IndInv, AnswerInv, AnsweredOnce
  <2>6. QED
    BY <2>5 DEF IndInv, CauseInv
<1>2. QED
  BY <1>1, Invariant, PTL

\* Task and request agree, but for an answer that is on its way or was lost.
THEOREM TaskFollowsRequestCorrect == Spec => []TaskFollowsRequest
<1>1. IndInv => TaskFollowsRequest
  <2> SUFFICES ASSUME IndInv, NEW r \in Runs
               PROVE  /\ task[r] = "answered" => request[r] = "answered"
                      /\ request[r] = "answered" /\ task[r] # "answered" =>
                           \/ \E m \in winners[r] : reply[m] = "won"
                           \/ crashes > 0 \/ "db" \in happened
    BY DEF TaskFollowsRequest
  <2>1. task[r] = "answered" => request[r] = "answered"
    BY DEF IndInv, RunInv
  <2>2. ASSUME request[r] = "answered", task[r] # "answered", "db" \notin happened
        PROVE  (\E m \in winners[r] : reply[m] = "won") \/ crashes > 0
    <3>1. PICK m \in winners[r] : TRUE
      BY <2>2 DEF IndInv, AnswerInv
    <3>2. m \in Replies
      BY DEF IndInv, TypeOK
    <3>3. target[m] = r /\ reply[m] \in Decided \cup {"forgotten"}
      BY <3>2 DEF IndInv, RouteInv
    <3>4. CASE reply[m] = "forgotten"
      BY <3>2, <3>4 DEF IndInv, RouteInv
    <3>5. CASE reply[m] \in Decided
      <4>1. reply[m] = "won"
        BY <2>2, <3>2, <3>3, <3>5 DEF IndInv, RouteInv, Decided
      <4>2. QED
        BY <4>1
    <3>6. QED
      BY <3>3, <3>4, <3>5
  <2>3. QED
    BY <2>1, <2>2
<1>2. QED
  BY <1>1, Invariant, PTL

\* No step of any actor changes the status of a task that is over.
THEOREM SettledForGoodCorrect == Spec => SettledForGood
<1>1. IndInv /\ [Next]_vars =>
        [\A r \in Runs : task[r] \in Settled => task'[r] = task[r]]_vars
  <2> SUFFICES ASSUME IndInv, Next, NEW q \in Runs, task[q] \in Settled
               PROVE  task'[q] = task[q]
    OBVIOUS
  <2> USE DEF IndInv, TypeOK
  <2>1. ASSUME NEW r \in Runs, CallAgent(r) \/ RunStep(r)
        PROVE  task'[q] = task[q]
    BY <2>1 DEF CallAgent, RunStep, Leave, StartRun, AbandonRun, Finish, CreateRequest,
       FailRun, WaitHuman, SendQuestion, LoseQuestion, LinkRequest, SendAnswer, RunInv, Settled
  <2>2. ASSUME NEW m \in Replies, ReadPending(m) \/ AnswerRequest(m) \/ Resume(m)
        PROVE  task'[q] = task[q]
    BY <2>2 DEF ReadPending, AnswerRequest, Resume, QueryFails, runVars
  <2>3. ASSUME NEW m \in Replies, CompleteTask(m)
        PROVE  task'[q] = task[q]
    <3>1. target[m] \in linked
      BY <2>3 DEF CompleteTask, RouteInv, Decided
    <3>2. task[target[m]] \in {"waiting_human", "answered"}
      BY <3>1 DEF RunInv
    <3>3. QED
      BY <2>3, <3>2 DEF CompleteTask, Settled
  <2>4. ASSUME NEW m \in Replies, NEW r \in Runs, PostReply(m, r)
        PROVE  task'[q] = task[q]
    BY <2>4 DEF PostReply, runVars
  <2>5. CASE CloseChat \/ FillThread \/ EditSet \/ Crash
    BY <2>5 DEF CloseChat, FillThread, EditSet, Crash, runVars
  <2>6. QED
    BY <2>1, <2>2, <2>3, <2>4, <2>5 DEF Next, RouteStep
<1>2. QED
  BY <1>1, Invariant, PTL DEF Spec, SettledForGood

\* A task that waits for a human after its run has ended has a question that a
\* reply can reach, unless a statement failed or its chat was closed or full
\* before it was asked.
THEOREM QuestionAnswerableCorrect == Spec => []QuestionAnswerable
<1>1. Init => QuestionInv
  BY DEF Init, QuestionInv
<1>2. IndInv /\ QuestionInv /\ [Next]_vars => QuestionInv'
  <2> SUFFICES ASSUME IndInv, QuestionInv, [Next]_vars
               PROVE  QuestionInv'
    OBVIOUS
  <2> USE DEF IndInv, TypeOK, QuestionInv
  <2>1. ASSUME NEW r \in Runs, CallAgent(r) \/ RunStep(r)
        PROVE  QuestionInv'
    BY <2>1 DEF CallAgent, RunStep, Leave, StartRun, AbandonRun, Finish, CreateRequest,
       FailRun, WaitHuman, SendQuestion, LoseQuestion, LinkRequest, SendAnswer, QueryFails, RunInv, envVars
  <2>2. ASSUME NEW m \in Replies, RouteStep(m)
        PROVE  QuestionInv'
    BY <2>2 DEF RouteStep, ReadPending, AnswerRequest, CompleteTask, Resume, QueryFails,
       RunInv, runVars, envVars
  <2>3. ASSUME NEW m \in Replies, NEW r \in Runs, PostReply(m, r)
        PROVE  QuestionInv'
    BY <2>3 DEF PostReply, runVars, envVars
  <2>4. CASE CloseChat \/ FillThread \/ EditSet
    BY <2>4 DEF CloseChat, FillThread, EditSet, runVars
  <2>5. CASE Crash
    <3>1. /\ open' = open /\ room' = room /\ task' = task /\ asked' = asked /\ linked' = linked
          /\ happened' = happened
          /\ \A r \in Runs : at'[r] = IF at[r] \in Active \cup {"queued"}
                                      THEN "dead" ELSE at[r]
      BY <2>5 DEF Crash
    <3>2. QED
      BY <3>1 DEF Active
  <2>6. CASE UNCHANGED vars
    BY <2>6 DEF vars
  <2>7. QED
    BY <2>1, <2>2, <2>3, <2>4, <2>5, <2>6 DEF Next
<1>3. QuestionInv => QuestionAnswerable
  BY DEF QuestionInv, QuestionAnswerable
<1>4. QED
  BY <1>1, <1>2, <1>3, Invariant, PTL DEF Spec
=============================================================================
