--------------------------- MODULE WorkflowProofs ---------------------------
(***************************************************************************)
(* Theorems about WorkflowEngine for every flow, every number of handlers  *)
(* and users, and every bound.                                             *)
(***************************************************************************)
EXTENDS WorkflowProperties, FlowCriteria, TLAPS, SequenceTheorems

-----------------------------------------------------------------------------
(* Agendas as sequences.                                                   *)

\* The head of a non-empty agenda is a call, the rest is again an agenda.
LEMMA HeadTail ==
    ASSUME NEW S, NEW q \in Seq(S), q # <<>>
    PROVE  Head(q) \in S /\ Tail(q) \in Seq(S)
  OBVIOUS

\* A handler that makes calls of a set S keeps an agenda of calls of S.
LEMMA ThenSeq ==
    ASSUME NEW S, NEW t \in Thread, agenda \in [Thread -> Seq(S)],
           ~Idle(t), NEW new \in Seq(S), Then(t, new)
    PROVE  agenda' \in [Thread -> Seq(S)]
<1>1. Tail(agenda[t]) \in Seq(S)
  BY HeadTail DEF Idle
<1>2. new \o Tail(agenda[t]) \in Seq(S)
  BY <1>1, ConcatProperties
<1> QED
  BY <1>2 DEF Then

\* A sequence over a set is one over every larger set.
LEMMA SeqMonotone ==
    ASSUME NEW S, NEW T, S \subseteq T
    PROVE  Seq(S) \subseteq Seq(T)
  BY SeqDef

-----------------------------------------------------------------------------
(* The calls the executor makes are well formed.                           *)

LEMMA DoType ==
    ASSUME NEW op \in CallOp, NEW s \in Stage
    PROVE  /\ Do(op, s) \in Call
           /\ \A b \in BOOLEAN : DoIf(op, s, b) \in Call
           /\ \A v \in StageStatus : [Do(op, s) EXCEPT !.val = v] \in Call
           /\ \A X \in SUBSET Stage : [Do(op, s) EXCEPT !.seen = X] \in Call
  BY DEF Call, Do, DoIf, StageStatus

\* A call of each kind is a call of the executor.
LEMMA AllCalls ==
    /\ {"startFlow", "goToNextStage", "makeStageActive", "onStageActive",
        "createUserTasks", "makeTaskComplete", "afterComplete",
        "updateUserTask", "iterateNextStages", "makeFlowEnd",
        "markStageCompleted"} \subseteq CallOp
    /\ {"holdFlow", "holdTasks", "cancelFlow", "cancelTasks", "resumeFlow",
        "resumeTasks", "saveParams", "claimTask", "throw"} \subseteq CallOp
    /\ RequestOp \subseteq CallOp
  BY DEF CallOp

LEMMA HopsType ==
    ASSUME NEW p \in Stage
    PROVE  Hops(p) \in Seq(Call)
<1>1. nextOf[p] \in Seq(Stage)
  BY EdgeAssumption
<1>2. \A i \in DOMAIN nextOf[p] : Do("goToNextStage", nextOf[p][i]) \in Call
  BY <1>1, DoType, AllCalls
<1>3. DOMAIN nextOf[p] = 1..Len(nextOf[p]) /\ Len(nextOf[p]) \in Nat
  BY <1>1
<1>4. Hops(p) \in [1..Len(nextOf[p]) -> Call]
  BY <1>2, <1>3 DEF Hops
<1> QED
  BY <1>3, <1>4, SeqDef

LEMMA TaskCompletionType ==
    ASSUME TypeOK, NEW s \in Stage, NEW e \in BOOLEAN
    PROVE  /\ TaskCompletion(s) \in Call
           /\ [TaskCompletion(s) EXCEPT !.flag = e] \in Call
<1>1. DoIf("makeTaskComplete", s, failed[s]) \in Call
  BY DoType, AllCalls DEF TypeOK
<1> QED
  BY <1>1 DEF TypeOK, TaskCompletion, Call

LEMMA CompleteType ==
    ASSUME TypeOK, NEW s \in Stage, NEW e \in BOOLEAN
    PROVE  Complete(s, e) \in Seq(Call)
<1>1. Do("throw", s) \in Call
  BY DoType, AllCalls
<1>2. [TaskCompletion(s) EXCEPT !.flag = e] \in Call
  BY TaskCompletionType
<1> QED
  BY <1>1, <1>2 DEF Complete

LEMMA IterateType ==
    ASSUME TypeOK, NEW p \in Stage
    PROVE  IterateNextStages(p) \in Seq(Call)
<1>1. DoIf("iterateNextStages", p, flow = "completed") \in Call
  BY DoType, AllCalls
<1> QED
  BY <1>1, HopsType DEF IterateNextStages

LEMMA DispatchType ==
    ASSUME TypeOK, NEW k \in Stage
    PROVE  Dispatch(k) \in Seq(Call)
<1>1. FlowEnd(k) \in Call /\ Do("markStageCompleted", k) \in Call
  BY DoType, AllCalls DEF FlowEnd
<1>2. DoIf("makeStageActive", k, status[k] # "waiting") \in Call
  BY DoType, AllCalls
<1>3. failed[k] \in BOOLEAN /\ Complete(k, failed[k]) \in Seq(Call)
  BY CompleteType DEF TypeOK
<1>4. (IF JoinReady(k) THEN Hops(k) ELSE <<>>)
         \o <<Do("markStageCompleted", k)>> \in Seq(Call)
  <2>1. (IF JoinReady(k) THEN Hops(k) ELSE <<>>) \in Seq(Call)
    BY HopsType
  <2> QED
    BY <1>1, <2>1, ConcatProperties
<1>5. CASE kind[k] \in {"start", "event"}
  BY <1>5 DEF Dispatch
<1>6. CASE kind[k] = "end"
  BY <1>6, <1>1 DEF Dispatch
<1>7. CASE kind[k] \in {"auto", "direct"}
  BY <1>7, <1>3 DEF Dispatch
<1>8. CASE kind[k] = "parallel"
  BY <1>8, <1>4 DEF Dispatch
<1>9. CASE kind[k] = "inert"
  BY <1>9, <1>1 DEF Dispatch
<1>10. CASE kind[k] \notin {"start", "event", "end", "auto", "direct",
                            "parallel", "inert"}
  BY <1>10, <1>2 DEF Dispatch
<1> QED
  BY <1>5, <1>6, <1>7, <1>8, <1>9, <1>10

\* What a handler whose turn it is finds at the head of its agenda.
LEMMA TurnType ==
    ASSUME TypeOK, NEW t \in Thread, NEW op, Turn(t, op)
    PROVE  /\ ~Idle(t)
           /\ Head(agenda[t]) \in Call
           /\ Head(agenda[t]).op = op
           /\ Head(agenda[t]).at \in Stage
           /\ Head(agenda[t]).seen \subseteq Stage
           /\ Head(agenda[t]).flag \in BOOLEAN
           /\ Head(agenda[t]).val \in StageStatus
<1>1. agenda[t] \in Seq(Call) /\ agenda[t] # <<>>
  BY DEF TypeOK, Turn, Idle
<1>2. Head(agenda[t]) \in Call
  BY <1>1, HeadTail
<1> QED
  BY <1>2 DEF Turn, Call

\* A handler that makes no further call keeps the rest of its agenda.
LEMMA ThenNothing ==
    ASSUME TypeOK, NEW t \in Thread, ~Idle(t), Then(t, <<>>)
    PROVE  agenda' \in [Thread -> Seq(Call)]
<1>1. <<>> \in Seq(Call)
  BY EmptySeq
<1> QED
  BY <1>1, ThenSeq DEF TypeOK

\* Dropping an agenda, whole or but for its first call, keeps its type.
LEMMA DropType ==
    ASSUME TypeOK, NEW t \in Thread, ~Idle(t),
           agenda' = [agenda EXCEPT ![t] = Tail(@)]
             \/ agenda' = [agenda EXCEPT ![t] = <<>>]
    PROVE  agenda' \in [Thread -> Seq(Call)]
<1>1. Tail(agenda[t]) \in Seq(Call) /\ <<>> \in Seq(Call)
  BY HeadTail DEF TypeOK, Idle
<1> QED
  BY <1>1 DEF TypeOK

LEMMA InitType == Init => TypeOK
<1> SUFFICES ASSUME Init PROVE TypeOK
  OBVIOUS
<1>1. Do("startFlow", Start) \in Call
  BY StageAssumption, DoType, AllCalls
<1>2. agenda \in [Thread -> Seq(Call)]
  BY <1>1 DEF Init
<1>3. status \in [Stage -> StageStatus]
  BY DEF Init, StageStatus
<1>4. task \in [Stage -> TaskStatus] /\ holder \in [Stage -> User \cup {Nobody}]
  BY DEF Init, TaskStatus, StageStatus
<1>5. calls \in 0..MaxCalls /\ faults \in 0..MaxFaults
  BY BoundAssumption DEF Init
<1> QED
  BY <1>2, <1>3, <1>4, <1>5, StageAssumption DEF Init, TypeOK, FlowStatus

\* The executor's calls.
LEMMA ExecutorType ==
    ASSUME TypeOK, NEW t \in Thread,
           \/ StartFlow(t)        \/ GoToNextStage(t)   \/ MakeStageActive(t)
           \/ OnStageActive(t)    \/ CreateUserTasks(t) \/ MakeTaskComplete(t)
           \/ AfterComplete(t)    \/ UpdateUserTask(t)  \/ IterateToEnd(t)
           \/ MakeFlowEnd(t)      \/ MarkStageCompleted(t) \/ Throw(t)
    PROVE  TypeOK'
<1> USE StageAssumption
<1> DEFINE c == Head(agenda[t])
           k == c.at
<1>0. ASSUME ~Idle(t), NEW new \in Seq(Call), Then(t, new)
      PROVE  agenda' \in [Thread -> Seq(Call)]
  BY <1>0, ThenSeq DEF TypeOK
<1>1. CASE StartFlow(t)
  <2>1. agenda' \in [Thread -> Seq(Call)]
    BY <1>1, <1>0, HopsType DEF StartFlow, Turn
  <2> QED
    BY <1>1, <2>1 DEF StartFlow, TypeOK, StageStatus
<1>2. CASE GoToNextStage(t)
  <2>1. k \in Stage /\ ~Idle(t)
    BY <1>2, TurnType DEF GoToNextStage
  <2>2. ASSUME NEW b \in branches[k]
        PROVE  <<Do("goToNextStage", b)>> \o <<Do("markStageCompleted", k)>>
                 \in Seq(Call)
    <3>1. b \in Stage
      BY <2>1, EdgeAssumption
    <3>2. Do("goToNextStage", b) \in Call /\ Do("markStageCompleted", k) \in Call
      BY <2>1, <3>1, DoType, AllCalls
    <3> QED
      BY <3>2
  <2>3. IterateNextStages(k) \o <<Do("markStageCompleted", k)>> \in Seq(Call)
    <3>1. Do("markStageCompleted", k) \in Call
      BY <2>1, DoType, AllCalls
    <3> QED
      BY <2>1, <3>1, IterateType, ConcatProperties
  <2>4. agenda' \in [Thread -> Seq(Call)]
    <3>1. CASE Then(t, Dispatch(k))
      BY <3>1, <2>1, <1>0, DispatchType
    <3>2. CASE \E way \in {<<Do("goToNextStage", b)>> : b \in branches[k]}
                            \cup {IterateNextStages(k)} :
                 Then(t, way \o <<Do("markStageCompleted", k)>>)
      BY <3>2, <2>1, <2>2, <2>3, <1>0
    <3> QED
      BY <1>2, <3>1, <3>2 DEF GoToNextStage
  <2> QED
    BY <1>2, <2>1, <2>4 DEF GoToNextStage, TypeOK, docVars
<1>3. CASE MakeStageActive(t)
  <2>1. k \in Stage /\ ~Idle(t) /\ c.flag \in BOOLEAN
    BY <1>3, TurnType DEF MakeStageActive
  <2>2. (failed[k] /\ ~c.flag) \in BOOLEAN
    OBVIOUS
  <2>b. DoIf("onStageActive", k, failed[k] /\ ~c.flag) \in Call
    BY <2>1, <2>2, DoType, AllCalls
  <2>3. <<DoIf("onStageActive", k, failed[k] /\ ~c.flag)>> \in Seq(Call)
    BY <2>b
  <2>4. agenda' \in [Thread -> Seq(Call)]
    BY <1>3, <2>1, <2>3, <1>0 DEF MakeStageActive
  <2> QED
    BY <1>3, <2>1, <2>4 DEF MakeStageActive, TypeOK, StageStatus, history
<1>4. CASE OnStageActive(t)
  <2>1. k \in Stage /\ ~Idle(t) /\ c.flag \in BOOLEAN
    BY <1>4, TurnType DEF OnStageActive
  <2>a. (task[k] # "none") \in BOOLEAN
    OBVIOUS
  <2>b. DoIf("createUserTasks", k, task[k] # "none") \in Call
    BY <2>1, <2>a, DoType, AllCalls
  <2>2. <<DoIf("createUserTasks", k, task[k] # "none")>> \in Seq(Call)
    BY <2>b
  <2>3. Complete(k, c.flag) \in Seq(Call)
    BY <2>1, CompleteType
  <2>4. PICK new \in Seq(Call) : Then(t, new)
    <3>1. CASE kind[k] = "user"
      BY <1>4, <2>2, <3>1 DEF OnStageActive
    <3>2. CASE kind[k] = "deferred"
      BY <1>4, <2>3, <3>2 DEF OnStageActive
    <3>3. CASE kind[k] \notin {"user", "deferred"}
      <4>1. Then(t, <<>>)
        BY <1>4, <3>3 DEF OnStageActive
      <4> QED
        BY <4>1, EmptySeq
    <3> QED
      BY <3>1, <3>2, <3>3
  <2>5. agenda' \in [Thread -> Seq(Call)]
    BY <2>1, <2>4, <1>0
  <2> QED
    BY <1>4, <2>5 DEF OnStageActive, TypeOK, docVars, history
<1>5. CASE CreateUserTasks(t)
  <2>a. k \in Stage /\ ~Idle(t)
    BY <1>5, TurnType DEF CreateUserTasks
  <2>1. k \in Stage /\ agenda' \in [Thread -> Seq(Call)]
    BY <1>5, <2>a, ThenNothing DEF CreateUserTasks
  <2>2. assignee[k] \in User \cup {Nobody}
    BY <2>1, PeopleAssumption
  <2> QED
    BY <1>5, <2>1, <2>2 DEF CreateUserTasks, TypeOK, TaskStatus, history
<1>6. CASE MakeTaskComplete(t)
  <2>1. /\ k \in Stage /\ ~Idle(t) /\ c.flag \in BOOLEAN
        /\ c.seen \subseteq Stage
    BY <1>6, TurnType DEF MakeTaskComplete
  <2>a. PICK e \in AfterConnector(k, c.flag) : \E f \in AfterService(k, e) :
           /\ status' = [status EXCEPT ![k] = Shown(k, e)]
           /\ failed' = [failed EXCEPT ![k] = f]
           /\ Then(t, <<DoIf("afterComplete", k, Valid(k, e))>>)
    BY <1>6 DEF MakeTaskComplete
  <2>2. PICK f \in AfterService(k, e) :
           /\ status' = [status EXCEPT ![k] = Shown(k, e)]
           /\ failed' = [failed EXCEPT ![k] = f]
           /\ Then(t, <<DoIf("afterComplete", k, Valid(k, e))>>)
    BY <2>a
  <2>3. e \in BOOLEAN
    BY <2>1 DEF AfterConnector
  <2>4. f \in BOOLEAN
    BY <2>3 DEF AfterService
  <2>5. Shown(k, e) \in StageStatus
    BY DEF Shown, StageStatus
  <2>6. Valid(k, e) \in BOOLEAN
    BY DEF Valid
  <2>7. <<DoIf("afterComplete", k, Valid(k, e))>> \in Seq(Call)
    BY <2>1, <2>6, DoType, AllCalls
  <2>8. agenda' \in [Thread -> Seq(Call)]
    BY <2>1, <2>2, <2>7, <1>0
  <2> QED
    BY <1>6, <2>1, <2>2, <2>4, <2>5, <2>8 DEF MakeTaskComplete, TypeOK
<1>7. CASE AfterComplete(t)
  <2>1. k \in Stage /\ ~Idle(t) /\ status[k] \in StageStatus
    BY <1>7, TurnType DEF AfterComplete, TypeOK
  <2>2. <<[Do("updateUserTask", k) EXCEPT !.val = status[k]]>> \in Seq(Call)
    BY <2>1, DoType, AllCalls
  <2>3. IterateNextStages(k) \in Seq(Call) /\ <<>> \in Seq(Call)
    BY <2>1, IterateType
  <2>4. (IF kind[k] = "user"
           THEN <<[Do("updateUserTask", k) EXCEPT !.val = status[k]]>>
           ELSE <<>>)
          \o (IF c.flag THEN IterateNextStages(k) ELSE <<>>) \in Seq(Call)
    BY <2>2, <2>3, ConcatProperties
  <2>5. agenda' \in [Thread -> Seq(Call)]
    BY <1>7, <2>1, <2>4, <1>0 DEF AfterComplete
  <2> QED
    BY <1>7, <2>5 DEF AfterComplete, TypeOK, docVars, history
<1>8. CASE UpdateUserTask(t)
  <2>a. k \in Stage /\ c.val \in StageStatus /\ ~Idle(t)
    BY <1>8, TurnType DEF UpdateUserTask
  <2>1. k \in Stage /\ c.val \in StageStatus /\ agenda' \in [Thread -> Seq(Call)]
    BY <1>8, <2>a, ThenNothing DEF UpdateUserTask
  <2> QED
    BY <1>8, <2>1 DEF UpdateUserTask, TypeOK, TaskStatus, history
<1>9. CASE IterateToEnd(t)
  <2>1. FlowEnd(EndStage) \in Call
    BY DoType, AllCalls DEF FlowEnd
  <2>2. agenda' \in [Thread -> Seq(Call)]
    <3>1. ~Idle(t)
      BY <1>9 DEF IterateToEnd, Turn
    <3>2. CASE Then(t, <<>>)
      BY <3>1, <3>2, ThenNothing
    <3>3. CASE Then(t, <<FlowEnd(EndStage)>>)
      <4>1. <<FlowEnd(EndStage)>> \in Seq(Call)
        BY <2>1
      <4> QED
        BY <4>1, <3>1, <3>3, <1>0
    <3>4. IF c.flag THEN Then(t, <<>>) /\ UNCHANGED reached
                    ELSE /\ Then(t, <<FlowEnd(EndStage)>>)
                         /\ reached' = reached \cup {EndStage}
      BY <1>9 DEF IterateToEnd
    <3> QED
      BY <3>2, <3>3, <3>4
  <2> QED
    BY <1>9, <2>2 DEF IterateToEnd, TypeOK, docVars
<1>10. CASE MakeFlowEnd(t)
  <2>a. k \in Stage /\ ~Idle(t)
    BY <1>10, TurnType DEF MakeFlowEnd
  <2>1. k \in Stage /\ agenda' \in [Thread -> Seq(Call)]
    BY <1>10, <2>a, ThenNothing DEF MakeFlowEnd
  <2> QED
    BY <1>10, <2>1 DEF MakeFlowEnd, TypeOK, FlowStatus, StageStatus
<1>11. CASE MarkStageCompleted(t)
  <2>a. k \in Stage /\ ~Idle(t)
    BY <1>11, TurnType DEF MarkStageCompleted
  <2>1. k \in Stage /\ agenda' \in [Thread -> Seq(Call)]
    BY <1>11, <2>a, ThenNothing DEF MarkStageCompleted
  <2> QED
    BY <1>11, <2>1 DEF MarkStageCompleted, TypeOK, StageStatus
<1>12. CASE Throw(t)
  <2>1. agenda' \in [Thread -> Seq(Call)]
    BY <1>12, DropType DEF Throw, Turn
  <2> QED
    BY <1>12, <2>1 DEF Throw, TypeOK, docVars, history
<1> QED
  BY <1>1, <1>2, <1>3, <1>4, <1>5, <1>6, <1>7, <1>8, <1>9, <1>10, <1>11, <1>12

\* Starting a request.
LEMMA BeginType ==
    ASSUME TypeOK, NEW t \in Thread, NEW new \in Seq(Call), Begin(t, new)
    PROVE  TypeOK'
<1>1. agenda' \in [Thread -> Seq(Call)]
  BY DEF Begin, TypeOK
<1>2. calls' \in 0..MaxCalls
  BY BoundAssumption DEF Begin, TypeOK
<1> QED
  BY <1>1, <1>2 DEF Begin, TypeOK, docVars, history

LEMMA CancelWaysType ==
    ASSUME NEW s \in Stage, NEW b \in BOOLEAN
    PROVE  CancelWays(s, b) \subseteq Seq(Call)
<1>1. DoIf("cancelFlow", s, b) \in Call /\ Do("cancelTasks", s) \in Call
  BY DoType, AllCalls
<1> QED
  BY <1>1 DEF CancelWays

LEMMA SaveType ==
    ASSUME TypeOK, NEW s \in Stage
    PROVE  [Do("saveParams", s) EXCEPT !.seen = params] \in Call
  BY DoType, AllCalls DEF TypeOK

LEMMA WaysType ==
    ASSUME TypeOK, NEW s \in Stage, NEW verb \in RequestOp
    PROVE  Ways(verb, s) \subseteq Seq(Call)
<1>1. TaskCompletion(s) \in Call
  BY TaskCompletionType
<1>2. /\ Do("holdFlow", s) \in Call   /\ Do("holdTasks", s) \in Call
      /\ Do("resumeFlow", s) \in Call /\ Do("resumeTasks", s) \in Call
  BY DoType, AllCalls
<1>3. CASE verb = "complete"
  BY <1>1, <1>3 DEF Ways
<1>4. CASE verb = "hold"
  BY <1>2, <1>4 DEF Ways
<1>5. CASE verb = "cancel"
  BY <1>5, CancelWaysType DEF Ways
<1>6. CASE verb = "resume"
  BY <1>2, <1>6 DEF Ways
<1>7. CASE verb = "save"
  BY <1>7, SaveType DEF Ways
<1> QED
  BY <1>3, <1>4, <1>5, <1>6, <1>7 DEF RequestOp

LEMMA ReassignType ==
    ASSUME TypeOK, NEW s \in UserStage, NEW u \in User, ReassignTask(s, u)
    PROVE  TypeOK'
<1>1. calls' \in 0..MaxCalls
  BY BoundAssumption DEF ReassignTask, TypeOK
<1>2. holder' \in [Stage -> User \cup {Nobody}]
  BY DEF ReassignTask, TypeOK
<1> QED
  BY <1>1, <1>2 DEF ReassignTask, TypeOK, history

LEMMA RequestType ==
    ASSUME TypeOK, NEW t \in Thread, Request(t)
    PROVE  TypeOK'
<1>0. UserStage \subseteq Stage /\ Start \in Stage
  BY StageAssumption DEF UserStage, StagesOf
<1>1. ASSUME NEW s \in UserStage, NEW verb \in RequestOp,
             CompleteTask(t, s, verb)
      PROVE  TypeOK'
  <2>1. Do(verb, s) \in Call
    BY <1>0, DoType, AllCalls
  <2>2. <<Do(verb, s)>> \in Seq(Call)
    BY <2>1
  <2> QED
    BY <1>1, <2>2, BeginType DEF CompleteTask
<1>2. ASSUME NEW s \in UserStage, ClaimTask(t, s)
      PROVE  TypeOK'
  <2>1. Do("claimTask", s) \in Call
    BY <1>0, DoType, AllCalls
  <2>2. <<Do("claimTask", s)>> \in Seq(Call)
    BY <2>1
  <2> QED
    BY <1>2, <2>2, BeginType DEF ClaimTask
<1>3. CASE UpdateInstances(t)
  <2>1. <<[Do("saveParams", Start) EXCEPT !.seen = params]>> \in Seq(Call)
    BY <1>0, SaveType
  <2> QED
    BY <1>3, <2>1, BeginType DEF UpdateInstances
<1>4. CASE CancelInstance(t)
  BY <1>0, <1>4, CancelWaysType, BeginType DEF CancelInstance
<1> QED
  BY <1>1, <1>2, <1>3, <1>4 DEF Request

\* What the requests do after their first read.
LEMMA ServiceType ==
    ASSUME TypeOK, NEW t \in Thread,
           \/ CheckRequest(t)   \/ MakeFlowHold(t) \/ MakeFlowResume(t)
           \/ MakeFlowCancel(t) \/ SaveParams(t)   \/ ClaimWrite(t)
    PROVE  TypeOK'
<1> DEFINE s == Head(agenda[t]).at
<1>1. CASE CheckRequest(t)
  <2>1. PICK verb \in RequestOp :
          /\ Turn(t, verb)
          /\ IF Accepts(verb, s) THEN \E way \in Ways(verb, s) : Then(t, way)
                                 ELSE Then(t, <<>>)
    BY <1>1 DEF CheckRequest
  <2>2. ~Idle(t) /\ s \in Stage
    BY <2>1, TurnType
  <2>3. agenda' \in [Thread -> Seq(Call)]
    <3>1. CASE \E way \in Ways(verb, s) : Then(t, way)
      BY <2>2, <3>1, WaysType, ThenSeq DEF TypeOK
    <3>2. CASE Then(t, <<>>)
      BY <2>2, <3>2, ThenNothing
    <3> QED
      BY <2>1, <3>1, <3>2
  <2> QED
    BY <1>1, <2>3 DEF CheckRequest, TypeOK, docVars, history
<1>2. ASSUME NEW op, NEW from, NEW to \in FlowStatus, MoveFlow(t, op, from, to)
      PROVE  TypeOK'
  <2>1. agenda' \in [Thread -> Seq(Call)]
    BY <1>2, ThenNothing, TurnType DEF MoveFlow
  <2> QED
    BY <1>2, <2>1 DEF MoveFlow, TypeOK, history
<1>3. ASSUME NEW op, NEW from, NEW to \in TaskStatus, MoveTasks(t, op, from, to)
      PROVE  TypeOK'
  <2>1. agenda' \in [Thread -> Seq(Call)]
    BY <1>3, ThenNothing, TurnType DEF MoveTasks
  <2> QED
    BY <1>3, <2>1 DEF MoveTasks, TypeOK, history
<1>4. CASE MakeFlowHold(t)
  <2>1. "on-hold" \in FlowStatus /\ "on-hold" \in TaskStatus
    BY DEF FlowStatus, TaskStatus
  <2> QED
    BY <1>4, <1>2, <1>3, <2>1 DEF MakeFlowHold
<1>5. CASE MakeFlowResume(t)
  <2>1. "active" \in FlowStatus /\ "todo" \in TaskStatus
    BY DEF FlowStatus, TaskStatus
  <2> QED
    BY <1>5, <1>2, <1>3, <2>1 DEF MakeFlowResume
<1>6. CASE MakeFlowCancel(t)
  <2>1. CASE CancelFlow(t)
    <3>1. s \in Stage /\ ~Idle(t)
      BY <2>1, TurnType DEF CancelFlow
    <3>2. agenda' \in [Thread -> Seq(Call)]
      BY <2>1, <3>1, ThenNothing DEF CancelFlow
    <3> QED
      BY <2>1, <3>1, <3>2 DEF CancelFlow, TypeOK, FlowStatus, history
  <2>2. "done" \in TaskStatus
    BY DEF TaskStatus
  <2> QED
    BY <1>6, <2>1, <2>2, <1>3 DEF MakeFlowCancel
<1>7. CASE SaveParams(t)
  <2>1. s \in Stage /\ ~Idle(t) /\ Head(agenda[t]).seen \subseteq Stage
    BY <1>7, TurnType DEF SaveParams
  <2>2. agenda' \in [Thread -> Seq(Call)]
    BY <1>7, <2>1, ThenNothing DEF SaveParams
  <2> QED
    BY <1>7, <2>1, <2>2 DEF SaveParams, TypeOK, history
<1>8. CASE ClaimWrite(t)
  <2>1. s \in Stage /\ ~Idle(t) /\ userOf[t] \in User
    BY <1>8, TurnType, PeopleAssumption DEF ClaimWrite
  <2>2. agenda' \in [Thread -> Seq(Call)]
    BY <1>8, <2>1, ThenNothing DEF ClaimWrite
  <2> QED
    BY <1>8, <2>1, <2>2 DEF ClaimWrite, TypeOK, history
<1> QED
  BY <1>1, <1>4, <1>5, <1>6, <1>7, <1>8

LEMMA FaultType ==
    ASSUME TypeOK, Restart \/ \E t \in Thread : Fail(t)
    PROVE  TypeOK'
<1>1. CASE Restart
  <2>1. agenda' \in [Thread -> Seq(Call)]
    BY <1>1, EmptySeq DEF Restart
  <2> QED
    BY <1>1, <2>1, BoundAssumption DEF Restart, TypeOK, docVars, history
<1>2. ASSUME NEW t \in Thread, Fail(t)
      PROVE  TypeOK'
  <2>1. agenda' \in [Thread -> Seq(Call)]
    BY <1>2, DropType DEF Fail
  <2> QED
    BY <1>2, <2>1, BoundAssumption DEF Fail, TypeOK, docVars, history
<1> QED
  BY <1>1, <1>2

\* Every variable keeps to its type, whatever the flow and the schedule: in
\* particular no handler ever calls an operation on something not a stage.
THEOREM TypeCorrect == Spec => []TypeOK
<1>1. Init => TypeOK
  BY InitType
<1>2. ASSUME TypeOK, [Next]_vars
      PROVE  TypeOK'
  <2>1. ASSUME NEW t \in Thread, Handler(t)
        PROVE  TypeOK'
    BY <1>2, <2>1, ExecutorType, ServiceType DEF Handler
  <2>2. CASE UNCHANGED vars
    BY <1>2, <2>2 DEF TypeOK, vars, docVars, history
  <2>3. ASSUME NEW s \in UserStage, NEW u \in User, ReassignTask(s, u)
        PROVE  TypeOK'
    BY <1>2, <2>3, ReassignType
  <2> QED
    BY <1>2, <2>1, <2>2, <2>3, RequestType, FaultType DEF Next
<1> QED
  BY <1>1, <1>2, PTL DEF Spec

-----------------------------------------------------------------------------
(* What Executor.validateCriteria comes to where the executor uses it.     *)

\* The flags of a stage: only its error flag is ever set.
StageFlags == {f \in Flags : /\ ~f.allCompleted /\ ~f.anyCompleted
                             /\ ~f.allActivitiesCompleted
                             /\ ~f.anyActivitiesCompleted
                             /\ ~f.mandatoryCompleted}

\* For a stage two of the seven criteria count: whether an error is shown and
\* whether it stops the stage.  WorkflowEngine keeps just these (Valid, Shown).
THEOREM StageCriteria ==
    ASSUME NEW c \in Criteria, NEW f \in StageFlags
    PROVE  /\ ValidateCriteria(c, f).ok
                = ~(c.onErrorComplete = "false" /\ f.error)
           /\ ValidateCriteria(c, f).status = ShownStatus(c, f)
<1>1. ~MetCriterion(c, f)
  BY DEF MetCriterion, StageFlags, Flags
<1>2. CASE c.onErrorComplete = "unset"
  BY <1>1, <1>2 DEF ValidateCriteria
<1>3. CASE c.onErrorComplete # "unset"
  BY <1>3 DEF ValidateCriteria
<1> QED
  BY <1>2, <1>3

\* The flags of the flow never have the error flag set (updateFlowFlagStatuses
\* starts it at false and leaves it), so the criteria of a flow block nothing:
\* the checks before makeFlowEnd always succeed.
THEOREM FlowNeverBlocked ==
    ASSUME NEW c \in Criteria, NEW f \in Flags, ~f.error
    PROVE  ValidateCriteria(c, f) = [ok |-> TRUE, status |-> "completed"]
<1>1. ShownStatus(c, f) = "completed"
  BY DEF ShownStatus
<1>2. CASE c.onErrorComplete = "unset"
  <2>1. ValidateCriteria(c, f) =
          [ok |-> TRUE, status |-> IF MetCriterion(c, f) THEN "completed"
                                                         ELSE ShownStatus(c, f)]
    BY <1>2 DEF ValidateCriteria
  <2> QED
    BY <1>1, <2>1
<1>3. CASE c.onErrorComplete # "unset"
  <2>1. ~(c.onErrorComplete = "false" /\ f.error) = TRUE
    OBVIOUS
  <2> QED
    BY <1>1, <1>3, <2>1 DEF ValidateCriteria
<1> QED
  BY <1>2, <1>3
=============================================================================
