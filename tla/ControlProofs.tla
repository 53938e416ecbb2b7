---------------------------- MODULE ControlProofs ----------------------------
(***************************************************************************)
(* Control flow is never wrong, whatever the handlers interleave: the      *)
(* inductive invariant ControlJustified, and what follows from it.         *)
(***************************************************************************)
EXTENDS WorkflowProofs

-----------------------------------------------------------------------------
(* What may be pending only grows.                                         *)

LEMMA JustifiedGrows ==
    ASSUME NEW x, NEW r, NEW d, NEW r2, NEW d2, r \subseteq r2, d \subseteq d2,
           Justified(x, r, d)
    PROVE  Justified(x, r2, d2)
<1>1. PICK p \in Stage : Fired(p, r, d) /\ x \in Outgoing(p)
  BY DEF Justified
<1>2. Fired(p, r2, d2)
  <2>1. CASE kind[p] = "exclusive"
    BY <1>1, <2>1 DEF Fired
  <2>2. CASE kind[p] = "parallel"
    BY <1>1, <2>2 DEF Fired
  <2>3. CASE kind[p] \notin {"exclusive", "parallel"}
    BY <1>1, <2>3 DEF Fired
  <2> QED
    BY <2>1, <2>2, <2>3
<1> QED
  BY <1>1, <1>2 DEF Justified

LEMMA AllowedGrows ==
    ASSUME NEW r, NEW d, NEW h, NEW r2, NEW d2, NEW h2,
           r \subseteq r2, d \subseteq d2, h \subseteq h2
    PROVE  Seq(Allowed(r, d, h)) \subseteq Seq(Allowed(r2, d2, h2))
<1>1. ASSUME NEW c \in Allowed(r, d, h)
      PROVE  c \in Allowed(r2, d2, h2)
  <2>1. c.op = "goToNextStage" => Justified(c.at, r2, d2)
    BY JustifiedGrows DEF Allowed
  <2>2. c.op = "iterateNextStages" => Justified(EndStage, r2, d2)
    BY JustifiedGrows DEF Allowed
  <2> QED
    BY <2>1, <2>2 DEF Allowed
<1> QED
  BY <1>1, SeqMonotone

\* What lets a call be pending, for the calls the executor makes.
LEMMA AllowedCall ==
    ASSUME NEW r, NEW d, NEW h, NEW c \in Call, c.at \in r,
           c.op \notin {"goToNextStage", "iterateNextStages", "afterComplete"},
           c.op = "makeTaskComplete" =>
              kind[c.at] \in Activity /\ (c.at \in UserStage => c.at \in h),
           c.op \in {"makeFlowEnd", "markStageCompleted"} => c.at \notin UserStage,
           c.op \in RequestOp => c.at \in UserStage /\ c.at \in h
    PROVE  c \in Allowed(r, d, h)
  BY DEF Allowed

LEMMA HopAllowed ==
    ASSUME NEW r, NEW d, NEW h, NEW s \in Stage, Justified(s, r, d)
    PROVE  Do("goToNextStage", s) \in Allowed(r, d, h)
<1>1. Do("goToNextStage", s) \in Call
  BY DoType, AllCalls
<1>2. Do("goToNextStage", s).op = "goToNextStage"
      /\ Do("goToNextStage", s).at = s
  BY DEF Do
<1> QED
  BY <1>1, <1>2 DEF Allowed, RequestOp

LEMMA HopsAllowed ==
    ASSUME NEW r, NEW d, NEW h, NEW p \in Stage, Fired(p, r, d)
    PROVE  Hops(p) \in Seq(Allowed(r, d, h))
<1>1. nextOf[p] \in Seq(Stage)
  BY EdgeAssumption
<1>2. DOMAIN nextOf[p] = 1..Len(nextOf[p]) /\ Len(nextOf[p]) \in Nat
  BY <1>1
<1>3. ASSUME NEW i \in DOMAIN nextOf[p]
      PROVE  Do("goToNextStage", nextOf[p][i]) \in Allowed(r, d, h)
  <2>1. nextOf[p][i] \in Stage /\ nextOf[p][i] \in Outgoing(p)
    BY <1>1 DEF Outgoing, NextStages
  <2>2. Justified(nextOf[p][i], r, d)
    BY <2>1 DEF Justified
  <2> QED
    BY <2>1, <2>2, HopAllowed
<1>4. Hops(p) \in [1..Len(nextOf[p]) -> Allowed(r, d, h)]
  BY <1>2, <1>3 DEF Hops
<1> QED
  BY <1>2, <1>4, SeqDef

LEMMA IterateAllowed ==
    ASSUME NEW r, NEW d, NEW h, NEW p \in Stage, Fired(p, r, d),
           kind[p] # "parallel"
    PROVE  IterateNextStages(p) \in Seq(Allowed(r, d, h))
<1>1. CASE nextOf[p] = <<>>
  <2> DEFINE c == DoIf("iterateNextStages", p, flow = "completed")
  <2>1. EndStage \in Outgoing(p)
    BY <1>1 DEF Outgoing
  <2>2. Justified(EndStage, r, d)
    BY <2>1 DEF Justified
  <2>3. c \in Call
    BY DoType, AllCalls
  <2>4. c.op = "iterateNextStages" /\ c.at = p
    BY DEF DoIf, Do
  <2>5. c \in Allowed(r, d, h)
    BY <2>2, <2>3, <2>4 DEF Allowed, RequestOp
  <2> QED
    BY <1>1, <2>5 DEF IterateNextStages
<1>2. CASE nextOf[p] # <<>>
  BY <1>2, HopsAllowed DEF IterateNextStages
<1> QED
  BY <1>1, <1>2

LEMMA CompleteAllowed ==
    ASSUME TypeOK, NEW r, NEW d, NEW h, NEW s \in Stage, NEW e \in BOOLEAN,
           s \in r, kind[s] \in Activity, kind[s] # "user" \/ s \in h
    PROVE  /\ TaskCompletion(s) \in Allowed(r, d, h)
           /\ Complete(s, e) \in Seq(Allowed(r, d, h))
<1>1. /\ TaskCompletion(s) \in Call
      /\ [TaskCompletion(s) EXCEPT !.flag = e] \in Call
      /\ Do("throw", s) \in Call
  BY TaskCompletionType, DoType, AllCalls
<1>2. /\ TaskCompletion(s).op = "makeTaskComplete"
      /\ TaskCompletion(s).at = s
      /\ [TaskCompletion(s) EXCEPT !.flag = e].op = "makeTaskComplete"
      /\ [TaskCompletion(s) EXCEPT !.flag = e].at = s
      /\ Do("throw", s).op = "throw"
      /\ Do("throw", s).at = s
  BY DEF TaskCompletion, DoIf, Do
<1>3. s \in UserStage => s \in h
  BY DEF UserStage, StagesOf
<1>4. /\ TaskCompletion(s) \in Allowed(r, d, h)
      /\ [TaskCompletion(s) EXCEPT !.flag = e] \in Allowed(r, d, h)
  BY <1>1, <1>2, <1>3 DEF Allowed, RequestOp
<1>5. Do("throw", s) \in Allowed(r, d, h)
  BY <1>1, <1>2 DEF Allowed, RequestOp
<1> QED
  BY <1>4, <1>5 DEF Complete

\* A call that is neither a hop, an end, a completion nor a request.
LEMMA PlainAllowed ==
    ASSUME NEW r, NEW d, NEW h, NEW s \in Stage, s \in r,
           NEW op \in CallOp \ (RequestOp \cup {"goToNextStage",
                    "iterateNextStages", "makeTaskComplete", "afterComplete",
                    "makeFlowEnd", "markStageCompleted"})
    PROVE  /\ Do(op, s) \in Allowed(r, d, h)
           /\ \A b \in BOOLEAN : DoIf(op, s, b) \in Allowed(r, d, h)
           /\ \A v \in StageStatus :
                [Do(op, s) EXCEPT !.val = v] \in Allowed(r, d, h)
           /\ \A X \in SUBSET Stage :
                [Do(op, s) EXCEPT !.seen = X] \in Allowed(r, d, h)
<1>1. /\ Do(op, s) \in Call
      /\ \A b \in BOOLEAN : DoIf(op, s, b) \in Call
      /\ \A v \in StageStatus : [Do(op, s) EXCEPT !.val = v] \in Call
      /\ \A X \in SUBSET Stage : [Do(op, s) EXCEPT !.seen = X] \in Call
  BY DoType
<1>2. ASSUME NEW c \in Call, c.op = op, c.at = s
      PROVE  c \in Allowed(r, d, h)
  BY <1>2 DEF Allowed
<1>3. /\ Do(op, s).op = op /\ Do(op, s).at = s
      /\ \A b : DoIf(op, s, b).op = op /\ DoIf(op, s, b).at = s
      /\ \A v : /\ [Do(op, s) EXCEPT !.val = v].op = op
                /\ [Do(op, s) EXCEPT !.val = v].at = s
      /\ \A X : /\ [Do(op, s) EXCEPT !.seen = X].op = op
                /\ [Do(op, s) EXCEPT !.seen = X].at = s
  BY DEF DoIf, Do
<1> QED
  BY <1>1, <1>2, <1>3

\* Marking and ending are for stages that are not user tasks.
LEMMA MarkAllowed ==
    ASSUME NEW r, NEW d, NEW h, NEW s \in Stage, s \in r, s \notin UserStage
    PROVE  /\ Do("markStageCompleted", s) \in Allowed(r, d, h)
           /\ FlowEnd(s) \in Allowed(r, d, h)
<1>1. ASSUME NEW op \in {"markStageCompleted", "makeFlowEnd"}
      PROVE  Do(op, s) \in Allowed(r, d, h)
  <2>1. Do(op, s) \in Call
    BY DoType, AllCalls
  <2>2. Do(op, s).op = op /\ Do(op, s).at = s
    BY DEF Do
  <2> QED
    BY <2>1, <2>2 DEF Allowed, RequestOp
<1> QED
  BY <1>1 DEF FlowEnd

\* goToNextStage makes allowed calls, given what it has read: a join lets
\* control through only when its sources have finished.
LEMMA DispatchAllowed ==
    ASSUME TypeOK, ControlJustified, NEW r, NEW k \in Stage,
           k \in r, kind[k] # "exclusive"
    PROVE  Dispatch(k) \in Seq(Allowed(r, done, Tasked))
<1> DEFINE S == Allowed(r, done, Tasked)
<1>1. kind[k] # "user" => Do("markStageCompleted", k) \in S /\ FlowEnd(k) \in S
  BY MarkAllowed DEF UserStage, StagesOf
<1>2. CASE kind[k] \in {"start", "event"}
  BY <1>2, EmptySeq DEF Dispatch
<1>3. CASE kind[k] = "end"
  BY <1>3, <1>1 DEF Dispatch
<1>4. CASE kind[k] \in {"auto", "direct"}
  <2>1. failed[k] \in BOOLEAN
    BY DEF TypeOK
  <2>2. Complete(k, failed[k]) \in Seq(S)
    BY <1>4, <2>1, CompleteAllowed DEF Activity
  <2> QED
    BY <1>4, <2>2 DEF Dispatch
<1>5. CASE kind[k] = "parallel"
  <2>1. ASSUME JoinReady(k)
        PROVE  Hops(k) \in Seq(S)
    <3>1. Sources(k) \subseteq done
      BY <2>1 DEF JoinReady, Finished, Sources, ControlJustified, StatusJustified
    <3>2. Fired(k, r, done)
      BY <1>5, <3>1 DEF Fired
    <3> QED
      BY <3>2, HopsAllowed
  <2>2. (IF JoinReady(k) THEN Hops(k) ELSE <<>>) \in Seq(S)
    BY <2>1, EmptySeq
  <2>3. <<Do("markStageCompleted", k)>> \in Seq(S)
    BY <1>5, <1>1
  <2>4. (IF JoinReady(k) THEN Hops(k) ELSE <<>>)
           \o <<Do("markStageCompleted", k)>> \in Seq(S)
    BY <2>2, <2>3, ConcatProperties
  <2> QED
    BY <1>5, <2>4 DEF Dispatch
<1>6. CASE kind[k] = "inert"
  BY <1>6, <1>1 DEF Dispatch
<1>7. CASE kind[k] \notin {"start", "event", "end", "auto", "direct",
                           "parallel", "inert"}
  <2>1. (status[k] # "waiting") \in BOOLEAN
    OBVIOUS
  <2>2. DoIf("makeStageActive", k, status[k] # "waiting") \in S
    BY <2>1, PlainAllowed DEF CallOp, RequestOp
  <2> QED
    BY <1>7, <2>2 DEF Dispatch
<1> QED
  BY <1>2, <1>3, <1>4, <1>5, <1>6, <1>7

-----------------------------------------------------------------------------
(* Every step keeps control justified, and is a step of FlowRules.         *)

\* A handler's turn: its call is allowed in the present state.
LEMMA TurnAllowed ==
    ASSUME TypeOK, ControlJustified, NEW t \in Thread, NEW op, Turn(t, op)
    PROVE  /\ ~Idle(t)
           /\ Head(agenda[t]).op = op
           /\ Head(agenda[t]) \in Allowed(reached, done, Tasked)
<1>1. agenda[t] \in Seq(Allowed(reached, done, Tasked))
  BY DEF ControlJustified
<1> QED
  BY <1>1, HeadTail DEF Turn, Idle

\* When nothing is taken back, new allowed calls keep the agendas allowed.
LEMMA AgendaAllowed ==
    ASSUME ControlJustified, NEW t \in Thread, ~Idle(t),
           reached \subseteq reached', done \subseteq done', Tasked \subseteq Tasked',
           NEW new \in Seq(Allowed(reached', done', Tasked')), Then(t, new)
    PROVE  agenda' \in [Thread -> Seq(Allowed(reached', done', Tasked'))]
<1>1. Seq(Allowed(reached, done, Tasked))
        \subseteq Seq(Allowed(reached', done', Tasked'))
  BY AllowedGrows
<1>2. agenda \in [Thread -> Seq(Allowed(reached', done', Tasked'))]
  BY <1>1 DEF ControlJustified
<1> QED
  BY <1>2, ThenSeq

\* The same for a step that begins, drops or leaves agendas.
LEMMA AgendaSame ==
    ASSUME ControlJustified, reached' = reached, done' = done,
           Tasked \subseteq Tasked',
           \A t \in Thread :
              agenda'[t] \in Seq(Allowed(reached, done, Tasked)),
           agenda' \in [Thread -> Seq(Call)]
    PROVE  agenda' \in [Thread -> Seq(Allowed(reached', done', Tasked'))]
<1>1. Seq(Allowed(reached, done, Tasked))
        \subseteq Seq(Allowed(reached', done', Tasked'))
  BY AllowedGrows
<1> QED
  BY <1>1

LEMMA StartFlowControl ==
    ASSUME TypeOK, ControlJustified, NEW t \in Thread, StartFlow(t)
    PROVE  ControlJustified' /\ Rules!Finish(Start)
<1>1. /\ status' = [status EXCEPT ![Start] = "started"]
      /\ done' = done \cup {Start} /\ reached' = reached /\ task' = task
      /\ Then(t, Hops(Start)) /\ ~Idle(t)
  BY DEF StartFlow, Turn
<1>2. Tasked' = Tasked
  BY <1>1 DEF Tasked
<1>3. kind[Start] = "start" /\ Start \in Stage
  BY StageAssumption
<1>4. Fired(Start, reached', done')
  BY <1>1, <1>3 DEF Fired
<1>5. Hops(Start) \in Seq(Allowed(reached', done', Tasked'))
  BY <1>3, <1>4, HopsAllowed
<1>6. agenda' \in [Thread -> Seq(Allowed(reached', done', Tasked'))]
  BY <1>1, <1>2, <1>5, AgendaAllowed
<1>7. StatusJustified'
  BY <1>1, <1>3 DEF StatusJustified, ControlJustified, TypeOK
<1>8. FinishedHasTask'
  BY <1>1, <1>3 DEF FinishedHasTask, ControlJustified, UserStage, StagesOf
<1> QED
  BY <1>1, <1>2, <1>6, <1>7, <1>8 DEF ControlJustified, Rules!Finish

LEMMA GoToNextStageControl ==
    ASSUME TypeOK, ControlJustified, NEW t \in Thread, GoToNextStage(t)
    PROVE  /\ ControlJustified'
           /\ Justified(Head(agenda[t]).at, reached, done)
           /\ Head(agenda[t]).at \in Stage
           /\ reached' = reached \cup {Head(agenda[t]).at} /\ done' = done
<1> DEFINE k == Head(agenda[t]).at
<1>1. k \in Stage /\ ~Idle(t)
  BY TurnType DEF GoToNextStage
<1>2. Justified(k, reached, done)
  BY TurnAllowed DEF GoToNextStage, Allowed
<1>3. /\ reached' = reached \cup {k} /\ done' = done
      /\ task' = task /\ status' = status
  BY DEF GoToNextStage, docVars
<1>4. Tasked' = Tasked
  BY <1>3 DEF Tasked
<1> HIDE DEF k
<1>5. agenda' \in [Thread -> Seq(Allowed(reached', done', Tasked'))]
  <2> DEFINE S == Allowed(reached', done', Tasked')
  <2>1. CASE kind[k] # "exclusive" /\ Then(t, Dispatch(k))
    <3>1. Dispatch(k) \in Seq(Allowed(reached', done, Tasked))
      BY <1>1, <1>3, <2>1, DispatchAllowed
    <3>2. Dispatch(k) \in Seq(S)
      BY <3>1, <1>3, <1>4
    <3> QED
      BY <1>1, <1>3, <1>4, <2>1, <3>2, AgendaAllowed
  <2>2. CASE /\ kind[k] = "exclusive"
             /\ \E way \in {<<Do("goToNextStage", b)>> : b \in branches[k]}
                             \cup {IterateNextStages(k)} :
                  Then(t, way \o <<Do("markStageCompleted", k)>>)
    <3>1. Fired(k, reached', done')
      BY <1>3, <2>2 DEF Fired
    <3>2. <<Do("markStageCompleted", k)>> \in Seq(S)
      <4>1. k \notin UserStage
        BY <2>2 DEF UserStage, StagesOf
      <4>2. Do("markStageCompleted", k) \in S
        BY <1>1, <1>3, <4>1, MarkAllowed
      <4> QED
        BY <4>2
    <3>3. ASSUME NEW b \in branches[k]
          PROVE  <<Do("goToNextStage", b)>> \in Seq(S)
      <4>1. b \in Stage
        BY <1>1, EdgeAssumption
      <4>2. b \in Outgoing(k)
        BY <2>2 DEF Outgoing
      <4>3. Justified(b, reached', done')
        BY <1>1, <3>1, <4>2 DEF Justified
      <4>4. Do("goToNextStage", b) \in S
        BY <4>1, <4>3, HopAllowed
      <4> QED
        BY <4>4
    <3>4. IterateNextStages(k) \in Seq(S)
      BY <1>1, <2>2, <3>1, IterateAllowed
    <3>5. PICK way \in Seq(S) : Then(t, way \o <<Do("markStageCompleted", k)>>)
      BY <2>2, <3>3, <3>4
    <3>6. way \o <<Do("markStageCompleted", k)>> \in Seq(S)
      BY <3>2, <3>5, ConcatProperties
    <3> QED
      BY <1>1, <1>3, <1>4, <3>5, <3>6, AgendaAllowed
  <2> QED
    BY <2>1, <2>2 DEF GoToNextStage, k
<1>6. StatusJustified' /\ FinishedHasTask'
  BY <1>3 DEF StatusJustified, FinishedHasTask, ControlJustified
<1>7. ControlJustified'
  BY <1>3, <1>4, <1>5, <1>6 DEF ControlJustified
<1> QED
  BY <1>1, <1>2, <1>3, <1>7 DEF k

\* A step that moves no stage and leaves the history alone.
LEMMA QuietStep ==
    ASSUME ControlJustified, status' = status, reached' = reached, done' = done,
           Tasked' = Tasked,
           agenda' \in [Thread -> Seq(Allowed(reached', done', Tasked'))]
    PROVE  ControlJustified'
<1>1. StatusJustified'
  BY DEF StatusJustified, ControlJustified
<1>2. FinishedHasTask'
  BY DEF FinishedHasTask, ControlJustified, Tasked, UserStage, StagesOf
<1> QED
  BY <1>1, <1>2 DEF ControlJustified

LEMMA MakeStageActiveControl ==
    ASSUME TypeOK, ControlJustified, NEW t \in Thread, MakeStageActive(t)
    PROVE  ControlJustified' /\ UNCHANGED history
<1> DEFINE c == Head(agenda[t])
           k == c.at
           e == failed[k] /\ ~c.flag
<1>1. k \in Stage /\ ~Idle(t) /\ e \in BOOLEAN
  BY TurnType DEF MakeStageActive
<1>2. k \in reached
  BY TurnAllowed DEF MakeStageActive, Allowed
<1>3. /\ status' = [status EXCEPT ![k] = "active"]
      /\ task' = task /\ reached' = reached /\ done' = done
      /\ Then(t, <<DoIf("onStageActive", k, e)>>)
  BY DEF MakeStageActive, history
<1>4. Tasked' = Tasked
  BY <1>3 DEF Tasked
<1>5. DoIf("onStageActive", k, e) \in Allowed(reached', done', Tasked')
  BY <1>1, <1>2, <1>3, PlainAllowed DEF CallOp, RequestOp
<1>6. agenda' \in [Thread -> Seq(Allowed(reached', done', Tasked'))]
  <2>1. <<DoIf("onStageActive", k, e)>>
           \in Seq(Allowed(reached', done', Tasked'))
    BY <1>5
  <2> QED
    BY <2>1, <1>1, <1>3, <1>4, AgendaAllowed
<1>7. StatusJustified'
  BY <1>1, <1>2, <1>3 DEF StatusJustified, ControlJustified, TypeOK
<1>8. FinishedHasTask'
  BY <1>3 DEF FinishedHasTask, ControlJustified
<1> QED
  BY <1>3, <1>4, <1>6, <1>7, <1>8 DEF ControlJustified, history

LEMMA OnStageActiveControl ==
    ASSUME TypeOK, ControlJustified, NEW t \in Thread, OnStageActive(t)
    PROVE  ControlJustified' /\ UNCHANGED history
<1> DEFINE c == Head(agenda[t])
           k == c.at
           S == Allowed(reached, done, Tasked)
<1>1. k \in Stage /\ ~Idle(t) /\ c.flag \in BOOLEAN
  BY TurnType DEF OnStageActive
<1>2. k \in reached
  BY TurnAllowed DEF OnStageActive, Allowed
<1>3. status' = status /\ task' = task /\ reached' = reached /\ done' = done
  BY DEF OnStageActive, docVars, history
<1>4. Tasked' = Tasked
  BY <1>3 DEF Tasked
<1>5. PICK new \in Seq(S) : Then(t, new)
  <2>1. CASE kind[k] = "user"
    <3>1. (task[k] # "none") \in BOOLEAN
      OBVIOUS
    <3>2. DoIf("createUserTasks", k, task[k] # "none") \in S
      BY <1>1, <1>2, <3>1, PlainAllowed DEF CallOp, RequestOp
    <3>3. <<DoIf("createUserTasks", k, task[k] # "none")>> \in Seq(S)
      BY <3>2
    <3>4. Then(t, <<DoIf("createUserTasks", k, task[k] # "none")>>)
      BY <2>1 DEF OnStageActive
    <3> QED
      BY <3>3, <3>4
  <2>2. CASE kind[k] = "deferred"
    <3>1. Complete(k, c.flag) \in Seq(S)
      BY <1>1, <1>2, <2>2, CompleteAllowed DEF Activity
    <3>2. Then(t, Complete(k, c.flag))
      BY <2>2 DEF OnStageActive
    <3> QED
      BY <3>1, <3>2
  <2>3. CASE kind[k] \notin {"user", "deferred"}
    <3>1. Then(t, <<>>)
      BY <2>3 DEF OnStageActive
    <3> QED
      BY <3>1, EmptySeq
  <2> QED
    BY <2>1, <2>2, <2>3
<1>6. agenda' \in [Thread -> Seq(Allowed(reached', done', Tasked'))]
  BY <1>1, <1>3, <1>4, <1>5, AgendaAllowed
<1> QED
  BY <1>3, <1>4, <1>6, QuietStep DEF history

LEMMA CreateUserTasksControl ==
    ASSUME TypeOK, ControlJustified, NEW t \in Thread, CreateUserTasks(t)
    PROVE  ControlJustified' /\ UNCHANGED history
<1> DEFINE k == Head(agenda[t]).at
<1>1. k \in Stage /\ ~Idle(t)
  BY TurnType DEF CreateUserTasks
<1>2. k \in reached
  BY TurnAllowed DEF CreateUserTasks, Allowed
<1>3. /\ status' = status /\ reached' = reached /\ done' = done
      /\ task' = task \/ task' = [task EXCEPT ![k] = "todo"]
      /\ Then(t, <<>>)
  BY DEF CreateUserTasks, history
<1>4. Tasked \subseteq Tasked' /\ Tasked' \subseteq Tasked \cup {k}
  BY <1>1, <1>3 DEF Tasked, TypeOK
<1>5. agenda' \in [Thread -> Seq(Allowed(reached', done', Tasked'))]
  <2>1. <<>> \in Seq(Allowed(reached', done', Tasked'))
    BY EmptySeq
  <2> QED
    BY <1>1, <1>3, <1>4, <2>1, AgendaAllowed
<1>6. StatusJustified'
  BY <1>3 DEF StatusJustified, ControlJustified
<1>7. FinishedHasTask'
  BY <1>3, <1>4 DEF FinishedHasTask, ControlJustified, Tasked, UserStage, StagesOf
<1> QED
  BY <1>2, <1>3, <1>4, <1>5, <1>6, <1>7 DEF ControlJustified, history

LEMMA MakeTaskCompleteControl ==
    ASSUME TypeOK, ControlJustified, NEW t \in Thread, MakeTaskComplete(t)
    PROVE  ControlJustified' /\ Rules!Finish(Head(agenda[t]).at)
<1> DEFINE c == Head(agenda[t])
           k == c.at
<1>1. k \in Stage /\ ~Idle(t)
  BY TurnType DEF MakeTaskComplete
<1>2. k \in reached /\ kind[k] \in Activity /\ (k \in UserStage => k \in Tasked)
  BY TurnAllowed DEF MakeTaskComplete, Allowed
<1>3. PICK e \in AfterConnector(k, c.flag) :
         /\ status' = [status EXCEPT ![k] = Shown(k, e)]
         /\ Then(t, <<DoIf("afterComplete", k, Valid(k, e))>>)
  BY DEF MakeTaskComplete
<1>4. task' = task /\ reached' = reached /\ done' = done \cup {k}
  BY DEF MakeTaskComplete
<1>5. Tasked' = Tasked
  BY <1>4 DEF Tasked
<1>6. agenda' \in [Thread -> Seq(Allowed(reached', done', Tasked'))]
  <2> DEFINE n == DoIf("afterComplete", k, Valid(k, e))
  <2>1. Valid(k, e) \in BOOLEAN
    BY DEF Valid
  <2>2. n \in Call
    BY <1>1, <2>1, DoType, AllCalls
  <2>3. n.op = "afterComplete" /\ n.at = k
    BY DEF DoIf, Do
  <2>4. n \in Allowed(reached', done', Tasked')
    BY <1>2, <1>4, <2>2, <2>3 DEF Allowed, RequestOp
  <2>5. <<n>> \in Seq(Allowed(reached', done', Tasked'))
    BY <2>4
  <2> QED
    BY <1>1, <1>3, <1>4, <1>5, <2>5, AgendaAllowed
<1>7. StatusJustified'
  BY <1>1, <1>2, <1>3, <1>4 DEF StatusJustified, ControlJustified, TypeOK
<1>8. FinishedHasTask'
  BY <1>2, <1>4 DEF FinishedHasTask, ControlJustified, Tasked
<1> QED
  BY <1>2, <1>4, <1>5, <1>6, <1>7, <1>8 DEF ControlJustified, Rules!Finish

LEMMA AfterCompleteControl ==
    ASSUME TypeOK, ControlJustified, NEW t \in Thread, AfterComplete(t)
    PROVE  ControlJustified' /\ UNCHANGED history
<1> DEFINE c == Head(agenda[t])
           k == c.at
           S == Allowed(reached, done, Tasked)
           n == [Do("updateUserTask", k) EXCEPT !.val = status[k]]
<1>1. k \in Stage /\ ~Idle(t)
  BY TurnType DEF AfterComplete
<1>2. k \in done /\ k \in reached /\ kind[k] \in Activity
  BY TurnAllowed DEF AfterComplete, Allowed
<1>3. status' = status /\ task' = task /\ reached' = reached /\ done' = done
  BY DEF AfterComplete, docVars, history
<1>4. Tasked' = Tasked
  BY <1>3 DEF Tasked
<1>5. n \in S
  BY <1>1, <1>2, PlainAllowed DEF CallOp, RequestOp, TypeOK
<1>6. <<n>> \in Seq(S) /\ <<>> \in Seq(S)
  BY <1>5, EmptySeq
<1>7. IterateNextStages(k) \in Seq(S)
  <2>1. Fired(k, reached, done) /\ kind[k] # "parallel"
    BY <1>2 DEF Fired, Activity
  <2> QED
    BY <1>1, <2>1, IterateAllowed
<1>8. (IF kind[k] = "user" THEN <<n>> ELSE <<>>)
        \o (IF c.flag THEN IterateNextStages(k) ELSE <<>>) \in Seq(S)
  BY <1>6, <1>7, ConcatProperties
<1>9. agenda' \in [Thread -> Seq(Allowed(reached', done', Tasked'))]
  <2>1. Then(t, (IF kind[k] = "user" THEN <<n>> ELSE <<>>)
                  \o (IF c.flag THEN IterateNextStages(k) ELSE <<>>))
    BY DEF AfterComplete
  <2> QED
    BY <1>1, <1>3, <1>4, <1>8, <2>1, AgendaAllowed
<1> QED
  BY <1>3, <1>4, <1>9, QuietStep DEF history

\* The abstract specification's notion of justification is the engine's.
LEMMA RulesJustified ==
    ASSUME NEW x, NEW r, NEW d
    PROVE  Rules!Justified(x, r, d) <=> Justified(x, r, d)
<1>1. \A p \in Stage : Rules!Fired(p, r, d) <=> Fired(p, r, d)
  <2> TAKE p \in Stage
  <2>1. Rules!Sources(p) = Sources(p)
    BY DEF Rules!Sources, Sources, Rules!NextStages, NextStages
  <2> QED
    BY <2>1, Zenon DEF Rules!Fired, Fired
<1>2. \A p \in Stage : Rules!Outgoing(p) = Outgoing(p)
  BY DEF Rules!Outgoing, Outgoing, Rules!NextStages, NextStages
<1> QED
  BY <1>1, <1>2 DEF Rules!Justified, Justified

\* A step after which the handler goes on with the rest of its agenda.
LEMMA NothingAllowed ==
    ASSUME ControlJustified, NEW t \in Thread, ~Idle(t), Then(t, <<>>),
           reached \subseteq reached', done \subseteq done', Tasked \subseteq Tasked'
    PROVE  agenda' \in [Thread -> Seq(Allowed(reached', done', Tasked'))]
<1>1. <<>> \in Seq(Allowed(reached', done', Tasked'))
  BY EmptySeq
<1> QED
  BY <1>1, AgendaAllowed

LEMMA UpdateUserTaskControl ==
    ASSUME TypeOK, ControlJustified, NEW t \in Thread, UpdateUserTask(t)
    PROVE  ControlJustified' /\ UNCHANGED history
<1> DEFINE c == Head(agenda[t])
<1>1. ~Idle(t) /\ c.at \in Stage /\ c.val \in StageStatus
  BY TurnType DEF UpdateUserTask
<1>2. /\ status' = status /\ reached' = reached /\ done' = done
      /\ Then(t, <<>>)
      /\ task' = [task EXCEPT ![c.at] =
                    IF @ = "none" THEN @
                    ELSE IF c.val = "completed" THEN "done" ELSE c.val]
  BY DEF UpdateUserTask, history
<1>3. Tasked' = Tasked
  BY <1>1, <1>2 DEF Tasked, TypeOK, StageStatus
<1>4. agenda' \in [Thread -> Seq(Allowed(reached', done', Tasked'))]
  BY <1>1, <1>2, <1>3, NothingAllowed
<1> QED
  BY <1>2, <1>3, <1>4, QuietStep DEF history

LEMMA IterateToEndControl ==
    ASSUME TypeOK, ControlJustified, NEW t \in Thread, IterateToEnd(t)
    PROVE  /\ ControlJustified'
           /\ UNCHANGED history \/ Rules!Reach(EndStage)
<1>1. ~Idle(t) /\ Justified(EndStage, reached, done)
  BY TurnAllowed DEF IterateToEnd, Allowed
<1>2. status' = status /\ task' = task /\ done' = done
  BY DEF IterateToEnd, docVars
<1>3. Tasked' = Tasked
  BY <1>2 DEF Tasked
<1>4. CASE Then(t, <<>>) /\ reached' = reached
  <2>1. agenda' \in [Thread -> Seq(Allowed(reached', done', Tasked'))]
    BY <1>1, <1>2, <1>3, <1>4, NothingAllowed
  <2> QED
    BY <1>2, <1>3, <1>4, <2>1, QuietStep DEF history
<1>5. CASE /\ Then(t, <<FlowEnd(EndStage)>>)
           /\ reached' = reached \cup {EndStage}
  <2>1. EndStage \in Stage /\ EndStage \notin UserStage
    BY StageAssumption DEF UserStage, StagesOf
  <2>2. FlowEnd(EndStage) \in Allowed(reached', done', Tasked')
    BY <1>5, <2>1, MarkAllowed
  <2>3. <<FlowEnd(EndStage)>> \in Seq(Allowed(reached', done', Tasked'))
    BY <2>2
  <2>4. agenda' \in [Thread -> Seq(Allowed(reached', done', Tasked'))]
    BY <1>1, <1>2, <1>3, <1>5, <2>3, AgendaAllowed
  <2>5. StatusJustified' /\ FinishedHasTask'
    BY <1>2, <1>5 DEF StatusJustified, FinishedHasTask, ControlJustified
  <2>6. Rules!Justified(EndStage, reached, done)
    BY <1>1, RulesJustified
  <2> QED
    BY <1>2, <1>3, <1>5, <2>4, <2>5, <2>6 DEF ControlJustified, Rules!Reach
<1> QED
  BY <1>4, <1>5 DEF IterateToEnd

\* The two writes that complete a gateway or the end of the flow.
LEMMA MarkControl ==
    ASSUME TypeOK, ControlJustified, NEW t \in Thread,
           MakeFlowEnd(t) \/ MarkStageCompleted(t)
    PROVE  ControlJustified' /\ Rules!Finish(Head(agenda[t]).at)
<1> DEFINE k == Head(agenda[t]).at
<1>1. k \in Stage /\ ~Idle(t)
  BY TurnType DEF MakeFlowEnd, MarkStageCompleted
<1>2. k \in reached /\ k \notin UserStage
  BY TurnAllowed DEF MakeFlowEnd, MarkStageCompleted, Allowed
<1>3. /\ status' = [status EXCEPT ![k] = "completed"]
      /\ task' = task /\ reached' = reached /\ done' = done \cup {k}
      /\ Then(t, <<>>)
  BY DEF MakeFlowEnd, MarkStageCompleted
<1>4. Tasked' = Tasked
  BY <1>3 DEF Tasked
<1>5. agenda' \in [Thread -> Seq(Allowed(reached', done', Tasked'))]
  BY <1>1, <1>3, <1>4, NothingAllowed
<1>6. StatusJustified'
  BY <1>1, <1>2, <1>3 DEF StatusJustified, ControlJustified, TypeOK
<1>7. FinishedHasTask'
  BY <1>2, <1>3 DEF FinishedHasTask, ControlJustified
<1> QED
  BY <1>2, <1>3, <1>4, <1>5, <1>6, <1>7 DEF ControlJustified, Rules!Finish

\* An agenda that is replaced by allowed calls, nothing else of note changing.
LEMMA AgendaReplaced ==
    ASSUME ControlJustified, NEW t \in Thread,
           NEW new \in Seq(Allowed(reached, done, Tasked)),
           agenda' = [agenda EXCEPT ![t] = new],
           UNCHANGED <<status, task, reached, done>>
    PROVE  ControlJustified' /\ UNCHANGED history
<1>1. Tasked' = Tasked
  BY DEF Tasked
<1>2. agenda' \in [Thread -> Seq(Allowed(reached', done', Tasked'))]
  BY <1>1 DEF ControlJustified
<1> QED
  BY <1>1, <1>2, QuietStep DEF history

LEMMA ThrowControl ==
    ASSUME TypeOK, ControlJustified, NEW t \in Thread, Throw(t) \/ Fail(t)
    PROVE  ControlJustified' /\ UNCHANGED history
<1> DEFINE S == Allowed(reached, done, Tasked)
<1>1. ~Idle(t) /\ UNCHANGED <<status, task, reached, done>>
  BY DEF Throw, Turn, Fail, docVars, history
<1>2. agenda[t] \in Seq(S) /\ agenda[t] # <<>>
  BY <1>1 DEF ControlJustified, Idle
<1>3. <<>> \in Seq(S) /\ Tail(agenda[t]) \in Seq(S)
  BY <1>2, HeadTail, EmptySeq
<1>4. PICK new \in Seq(S) : agenda' = [agenda EXCEPT ![t] = new]
  BY <1>3 DEF Throw, Fail
<1> QED
  BY <1>1, <1>4, AgendaReplaced

-----------------------------------------------------------------------------
(* Requests.                                                               *)

LEMMA BeginControl ==
    ASSUME TypeOK, ControlJustified, NEW t \in Thread,
           NEW new \in Seq(Allowed(reached, done, Tasked)), Begin(t, new)
    PROVE  ControlJustified' /\ UNCHANGED history
<1>1. /\ agenda' = [agenda EXCEPT ![t] = new]
      /\ UNCHANGED <<status, task, reached, done>>
  BY DEF Begin, docVars, history
<1> QED
  BY <1>1, AgendaReplaced

LEMMA CancelWaysAllowed ==
    ASSUME NEW r, NEW d, NEW h, NEW s \in Stage, s \in r, NEW b \in BOOLEAN
    PROVE  CancelWays(s, b) \subseteq Seq(Allowed(r, d, h))
<1>1. /\ DoIf("cancelFlow", s, b) \in Allowed(r, d, h)
      /\ Do("cancelTasks", s) \in Allowed(r, d, h)
  BY PlainAllowed DEF CallOp, RequestOp
<1> QED
  BY <1>1 DEF CancelWays

LEMMA SaveAllowed ==
    ASSUME TypeOK, NEW r, NEW d, NEW h, NEW s \in Stage, s \in r
    PROVE  [Do("saveParams", s) EXCEPT !.seen = params] \in Allowed(r, d, h)
<1>1. params \in SUBSET Stage /\ "saveParams" \in CallOp
  BY DEF TypeOK, CallOp
<1> QED
  BY <1>1, PlainAllowed DEF RequestOp

LEMMA WaysAllowed ==
    ASSUME TypeOK, NEW r, NEW d, NEW h, NEW s \in UserStage, s \in r, s \in h,
           NEW verb \in RequestOp
    PROVE  Ways(verb, s) \subseteq Seq(Allowed(r, d, h))
<1> DEFINE S == Allowed(r, d, h)
<1>0. s \in Stage /\ kind[s] = "user"
  BY DEF UserStage, StagesOf
<1>1. TaskCompletion(s) \in S
  BY <1>0, CompleteAllowed DEF Activity
<1>2. /\ Do("holdFlow", s) \in S   /\ Do("holdTasks", s) \in S
      /\ Do("resumeFlow", s) \in S /\ Do("resumeTasks", s) \in S
  BY <1>0, PlainAllowed DEF CallOp, RequestOp
<1>3. CASE verb = "complete"
  BY <1>1, <1>3 DEF Ways
<1>4. CASE verb = "hold"
  BY <1>2, <1>4 DEF Ways
<1>5. CASE verb = "cancel"
  BY <1>0, <1>5, CancelWaysAllowed DEF Ways
<1>6. CASE verb = "resume"
  BY <1>2, <1>6 DEF Ways
<1>7. CASE verb = "save"
  BY <1>0, <1>7, SaveAllowed DEF Ways
<1> QED
  BY <1>3, <1>4, <1>5, <1>6, <1>7 DEF RequestOp

LEMMA RequestControl ==
    ASSUME TypeOK, ControlJustified, NEW t \in Thread, Request(t)
    PROVE  ControlJustified' /\ UNCHANGED history
<1> DEFINE S == Allowed(reached, done, Tasked)
<1>0. UserStage \subseteq Stage /\ Start \in Stage /\ Start \in reached
  BY StageAssumption DEF UserStage, StagesOf, ControlJustified
<1>1. \A s \in UserStage : task[s] # "none" => s \in Tasked /\ s \in reached
  BY <1>0 DEF Tasked, ControlJustified
<1>2. ASSUME NEW s \in UserStage, NEW verb \in RequestOp,
             CompleteTask(t, s, verb)
      PROVE  ControlJustified' /\ UNCHANGED history
  <2>1. s \in Tasked /\ s \in reached
    BY <1>1, <1>2 DEF CompleteTask
  <2>2. Do(verb, s) \in Call
    BY <1>0, DoType, AllCalls
  <2>3. Do(verb, s).op = verb /\ Do(verb, s).at = s
    BY DEF Do
  <2>4. Do(verb, s) \in S
    BY <2>1, <2>2, <2>3 DEF Allowed, RequestOp
  <2>5. <<Do(verb, s)>> \in Seq(S)
    BY <2>4
  <2> QED
    BY <1>2, <2>5, BeginControl DEF CompleteTask
<1>3. ASSUME NEW s \in UserStage, ClaimTask(t, s)
      PROVE  ControlJustified' /\ UNCHANGED history
  <2>1. s \in Stage /\ s \in reached
    BY <1>0, <1>1, <1>3 DEF ClaimTask
  <2>2. Do("claimTask", s) \in S
    BY <2>1, PlainAllowed DEF CallOp, RequestOp
  <2>3. <<Do("claimTask", s)>> \in Seq(S)
    BY <2>2
  <2> QED
    BY <1>3, <2>3, BeginControl DEF ClaimTask
<1>4. CASE UpdateInstances(t)
  <2>1. <<[Do("saveParams", Start) EXCEPT !.seen = params]>> \in Seq(S)
    BY <1>0, SaveAllowed
  <2> QED
    BY <1>4, <2>1, BeginControl DEF UpdateInstances
<1>5. CASE CancelInstance(t)
  BY <1>0, <1>5, CancelWaysAllowed, BeginControl DEF CancelInstance
<1> QED
  BY <1>2, <1>3, <1>4, <1>5 DEF Request

LEMMA ServiceControl ==
    ASSUME TypeOK, ControlJustified, NEW t \in Thread,
           \/ CheckRequest(t)   \/ MakeFlowHold(t) \/ MakeFlowResume(t)
           \/ MakeFlowCancel(t) \/ SaveParams(t)   \/ ClaimWrite(t)
    PROVE  ControlJustified' /\ UNCHANGED history
<1> DEFINE s == Head(agenda[t]).at
           S == Allowed(reached, done, Tasked)
<1>1. CASE CheckRequest(t)
  <2>1. PICK verb \in RequestOp :
          /\ Turn(t, verb)
          /\ IF Accepts(verb, s) THEN \E way \in Ways(verb, s) : Then(t, way)
                                 ELSE Then(t, <<>>)
    BY <1>1 DEF CheckRequest
  <2>2. ~Idle(t) /\ s \in UserStage /\ s \in Tasked /\ s \in reached
    BY <2>1, TurnAllowed DEF Allowed, RequestOp
  <2>3. UNCHANGED <<status, task, reached, done>>
    BY <1>1 DEF CheckRequest, docVars, history
  <2>4. Tasked' = Tasked
    BY <2>3 DEF Tasked
  <2>5. agenda' \in [Thread -> Seq(Allowed(reached', done', Tasked'))]
    <3>1. ASSUME NEW way \in Ways(verb, s), Then(t, way)
          PROVE  agenda' \in [Thread -> Seq(Allowed(reached', done', Tasked'))]
      <4>1. way \in Seq(S)
        BY <2>2, <3>1, WaysAllowed
      <4> QED
        BY <2>2, <2>3, <2>4, <3>1, <4>1, AgendaAllowed
    <3>2. CASE Then(t, <<>>)
      BY <2>2, <2>3, <2>4, <3>2, NothingAllowed
    <3> QED
      BY <2>1, <3>1, <3>2
  <2> QED
    BY <2>3, <2>4, <2>5, QuietStep DEF history
<1>2. ASSUME ~Idle(t), Then(t, <<>>), UNCHANGED <<status, reached, done>>,
             Tasked' = Tasked
      PROVE  ControlJustified' /\ UNCHANGED history
  BY <1>2, NothingAllowed, QuietStep DEF history
<1>3. ASSUME NEW op, NEW from, NEW to, MoveFlow(t, op, from, to)
      PROVE  ControlJustified' /\ UNCHANGED history
  BY <1>2, <1>3 DEF MoveFlow, Turn, Tasked, history
<1>4. ASSUME NEW op, NEW from, NEW to, "none" \notin from, to # "none",
             MoveTasks(t, op, from, to)
      PROVE  ControlJustified' /\ UNCHANGED history
  <2>1. Tasked' = Tasked
    BY <1>4 DEF MoveTasks, Tasked
  <2> QED
    BY <1>2, <1>4, <2>1 DEF MoveTasks, Turn, history
<1>5. CASE MakeFlowHold(t)
  BY <1>3, <1>4, <1>5 DEF MakeFlowHold
<1>6. CASE MakeFlowResume(t)
  BY <1>3, <1>4, <1>6 DEF MakeFlowResume
<1>7. CASE MakeFlowCancel(t)
  <2>1. CASE CancelFlow(t)
    BY <1>2, <2>1 DEF CancelFlow, Turn, Tasked, history
  <2> QED
    BY <1>4, <1>7, <2>1 DEF MakeFlowCancel
<1>8. CASE SaveParams(t)
  BY <1>2, <1>8 DEF SaveParams, Turn, Tasked, history
<1>9. CASE ClaimWrite(t)
  BY <1>2, <1>9 DEF ClaimWrite, Turn, Tasked, history
<1> QED
  BY <1>1, <1>5, <1>6, <1>7, <1>8, <1>9

LEMMA OtherControl ==
    ASSUME TypeOK, ControlJustified,
           \/ Restart
           \/ \E s \in UserStage : \E u \in User : ReassignTask(s, u)
           \/ UNCHANGED vars
    PROVE  ControlJustified' /\ UNCHANGED history
<1>1. UNCHANGED <<status, task, reached, done>>
  BY DEF Restart, ReassignTask, vars, docVars, history
<1>2. Tasked' = Tasked
  BY <1>1 DEF Tasked
<1>3. agenda' \in [Thread -> Seq(Allowed(reached', done', Tasked'))]
  <2>1. CASE agenda' = [t \in Thread |-> <<>>]
    BY <2>1, EmptySeq
  <2>2. CASE agenda' = agenda
    BY <1>1, <1>2, <2>2 DEF ControlJustified
  <2> QED
    BY <2>1, <2>2 DEF Restart, ReassignTask, vars, docVars
<1> QED
  BY <1>1, <1>2, <1>3, QuietStep DEF history

-----------------------------------------------------------------------------
(* The theorems.                                                           *)

LEMMA InitControl == Init => ControlJustified
<1> SUFFICES ASSUME Init PROVE ControlJustified
  OBVIOUS
<1>1. reached = {Start} /\ done = {} /\ Tasked = {} /\ Start \in Stage
  BY StageAssumption DEF Init, Tasked
<1>2. StatusJustified /\ FinishedHasTask
  BY <1>1 DEF Init, StatusJustified, FinishedHasTask
<1>3. Do("startFlow", Start) \in Allowed(reached, done, Tasked)
  BY <1>1, PlainAllowed DEF CallOp, RequestOp
<1>4. agenda \in [Thread -> Seq(Allowed(reached, done, Tasked))]
  <2>1. <<Do("startFlow", Start)>> \in Seq(Allowed(reached, done, Tasked))
    BY <1>3
  <2>2. <<>> \in Seq(Allowed(reached, done, Tasked))
    BY EmptySeq
  <2> QED
    BY <2>1, <2>2 DEF Init
<1> QED
  BY <1>1, <1>2, <1>4 DEF ControlJustified

\* One step of the engine keeps the invariant and is a step of FlowRules, or
\* leaves the history alone.
LEMMA StepControl ==
    ASSUME TypeOK, ControlJustified, [Next]_vars
    PROVE  ControlJustified' /\ [Rules!RulesNext]_<<reached, done>>
<1>1. ASSUME NEW t \in Thread, Handler(t)
      PROVE  ControlJustified' /\ (UNCHANGED history \/ Rules!RulesNext)
  <2>0. Start \in Stage /\ EndStage \in Stage
    BY StageAssumption
  <2>1. CASE StartFlow(t)
    BY <2>0, <2>1, StartFlowControl DEF Rules!RulesNext
  <2>2. CASE GoToNextStage(t)
    <3>1. Rules!Reach(Head(agenda[t]).at)
      BY <2>2, GoToNextStageControl, RulesJustified DEF Rules!Reach
    <3> QED
      BY <2>2, <3>1, GoToNextStageControl DEF Rules!RulesNext
  <2>3. CASE MakeStageActive(t)
    BY <2>3, MakeStageActiveControl
  <2>4. CASE OnStageActive(t)
    BY <2>4, OnStageActiveControl
  <2>5. CASE CreateUserTasks(t)
    BY <2>5, CreateUserTasksControl
  <2>6. CASE MakeTaskComplete(t)
    BY <2>6, MakeTaskCompleteControl, TurnType DEF Rules!RulesNext, MakeTaskComplete
  <2>7. CASE AfterComplete(t)
    BY <2>7, AfterCompleteControl
  <2>8. CASE UpdateUserTask(t)
    BY <2>8, UpdateUserTaskControl
  <2>9. CASE IterateToEnd(t)
    BY <2>0, <2>9, IterateToEndControl DEF Rules!RulesNext
  <2>10. CASE MakeFlowEnd(t) \/ MarkStageCompleted(t)
    BY <2>10, MarkControl, TurnType
    DEF Rules!RulesNext, MakeFlowEnd, MarkStageCompleted
  <2>11. CASE Throw(t)
    BY <2>11, ThrowControl
  <2>12. CASE \/ CheckRequest(t)   \/ MakeFlowHold(t) \/ MakeFlowResume(t)
              \/ MakeFlowCancel(t) \/ SaveParams(t)   \/ ClaimWrite(t)
    BY <2>12, ServiceControl
  <2> QED
    BY <1>1, <2>1, <2>2, <2>3, <2>4, <2>5, <2>6, <2>7, <2>8, <2>9, <2>10,
       <2>11, <2>12 DEF Handler
<1>2. ASSUME NEW t \in Thread, Request(t) \/ Fail(t)
      PROVE  ControlJustified' /\ UNCHANGED history
  BY <1>2, RequestControl, ThrowControl
<1> QED
  BY <1>1, <1>2, OtherControl DEF Next, history

\* Control is justified in every reachable state, whatever the flow, the
\* number of concurrent handlers, the requests and the faults: no stage shows a
\* status it did not earn, no user task is finished without its document, and
\* every call still pending in some handler is still in order.
THEOREM ControlCorrect == Spec => []ControlJustified
<1>1. Init => TypeOK /\ ControlJustified
  BY InitType, InitControl
<1>2. TypeOK /\ ControlJustified /\ [Next]_vars => ControlJustified'
  BY StepControl
<1> QED
  BY <1>1, <1>2, TypeCorrect, PTL DEF Spec

\* The part of it users see: a finished user task can be found in the task list.
THEOREM FinishedTasksListed == Spec => []FinishedHasTask
<1>1. ControlJustified => FinishedHasTask
  BY DEF ControlJustified
<1> QED
  BY <1>1, ControlCorrect, PTL

\* The executor implements the rules of control flow.
THEOREM EngineFollowsRules == Spec => FollowsRules
<1>1. Init => Rules!RulesInit
  BY DEF Init, Rules!RulesInit
<1>2. TypeOK /\ ControlJustified /\ [Next]_vars => [Rules!RulesNext]_(Rules!ruleVars)
  BY StepControl DEF Rules!ruleVars
<1> QED
  BY <1>1, <1>2, TypeCorrect, ControlCorrect, PTL
  DEF Spec, FollowsRules, Rules!RulesSpec

\* The rules keep the flow in causal order: in particular nothing behind a
\* parallel gateway is reached before all its sources have finished.
LEMMA RulesCausal == Rules!RulesSpec => []Rules!Causal
<1>1. Rules!RulesInit => Rules!Causal
  BY StageAssumption DEF Rules!RulesInit, Rules!Causal
<1>2. ASSUME Rules!Causal, [Rules!RulesNext]_(Rules!ruleVars)
      PROVE  Rules!Causal'
  <2>1. ASSUME NEW y \in Stage, Rules!Reach(y) \/ Rules!Finish(y)
        PROVE  Rules!Causal'
    <3>1. reached \subseteq reached' /\ done \subseteq done'
      BY <2>1 DEF Rules!Reach, Rules!Finish
    <3>2. \A x \in reached' \ {Start} : Justified(x, reached, done)
      BY <1>2, <2>1, RulesJustified DEF Rules!Causal, Rules!Reach, Rules!Finish
    <3>3. \A x \in reached' \ {Start} : Rules!Justified(x, reached', done')
      BY <3>1, <3>2, JustifiedGrows, RulesJustified
    <3> QED
      BY <1>2, <2>1, <3>3 DEF Rules!Causal, Rules!Reach, Rules!Finish
  <2>2. CASE UNCHANGED Rules!ruleVars
    BY <1>2, <2>2, RulesJustified DEF Rules!Causal, Rules!ruleVars
  <2> QED
    BY <1>2, <2>1, <2>2 DEF Rules!RulesNext
<1> QED
  BY <1>1, <1>2, PTL DEF Rules!RulesSpec

\* Hence the engine reaches stages in causal order.
THEOREM StagesInOrder == Spec => []Rules!Causal
  BY EngineFollowsRules, RulesCausal, PTL DEF FollowsRules
=============================================================================
