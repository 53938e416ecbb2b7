------------------------- MODULE WorkflowProperties -------------------------
(***************************************************************************)
(* What a process instance must satisfy.  The first group holds whatever   *)
(* handlers are in flight; the second group holds between requests when    *)
(* requests come one at a time and no call fails, which is what the code   *)
(* was written for; the third is what the code says of itself and breaks   *)
(* under concurrency.                                                      *)
(***************************************************************************)
EXTENDS WorkflowEngine

Rules == INSTANCE FlowRules

-----------------------------------------------------------------------------
(* Under every interleaving and every fault.                               *)

\* The executor keeps the rules of control flow: however goToNextStage calls of
\* concurrent handlers interleave, each step reaches a stage whose predecessor
\* let control through, or finishes a stage that was reached.
FollowsRules == Rules!RulesSpec

\* A stage leaves "waiting" only when control has come to it, and a stage that
\* shows a result (or started the flow) has really been completed.
StatusJustified ==
    \A s \in Stage :
      /\ status[s] # "waiting" => s \in reached
      /\ status[s] \in {"completed", "error", "started"} => s \in done

\* A user task is only ever completed through its document in the task
\* collection (completeTask looks it up first), so every finished user stage has
\* one; its absence would leave a finished stage no worklist or report shows.
FinishedHasTask == \A s \in UserStage : s \in done => task[s] # "none"

\* The calls a handler may have pending when control has come to the stages r,
\* those of d have finished and those of h have a task document.
Allowed(r, d, h) ==
    {c \in Call :
       /\ c.op = "goToNextStage" => Justified(c.at, r, d)
       /\ c.op = "iterateNextStages" => Justified(EndStage, r, d)
       /\ c.op \notin {"goToNextStage", "iterateNextStages"} => c.at \in r
       /\ c.op \in {"makeTaskComplete", "afterComplete"} => kind[c.at] \in Activity
       /\ c.op = "makeTaskComplete" /\ c.at \in UserStage => c.at \in h
       /\ c.op = "afterComplete" => c.at \in d
       /\ c.op \in {"makeFlowEnd", "markStageCompleted"} => c.at \notin UserStage
       /\ c.op \in RequestOp => c.at \in UserStage /\ c.at \in h}

Tasked == {s \in Stage : task[s] # "none"}

\* Whatever was read when a call was made, the call is still in order when its
\* turn comes: the guards of the executor are stable, so acting on a stale
\* instance document never lets control through too early.
ControlJustified ==
    /\ Start \in reached
    /\ done \subseteq reached
    /\ Tasked \subseteq reached
    /\ StatusJustified
    /\ FinishedHasTask
    /\ agenda \in [Thread -> Seq(Allowed(reached, done, Tasked))]

\* A join is never lost: when all branches of a parallel gateway have finished,
\* whichever handlers finished them and in whatever order they looked, control
\* eventually goes past it.  This is for flows that do not stop on errors, and
\* for joins of activities: the code marks a gateway among the sources completed
\* only after everything behind it has run.
JoinFires ==
    \A g \in StagesOf({"parallel"}) :
      stopsOnError = {} /\ (\A s \in Sources(g) : kind[s] \in Activity) =>
        \A x \in NextStages(g) : (Sources(g) \subseteq done) ~> (x \in reached)

\* Every handler comes to an end: no request runs for ever.  This is for flows
\* in which every cycle passes a stage that waits for somebody: on a cycle of
\* automatic stages the executor goes round for as long as no error stops it.
HandlersFinish == \A t \in Thread : []<>Idle(t)

-----------------------------------------------------------------------------
(* One request at a time, no faults.                                       *)

Undisturbed == Quiet /\ faults = 0

\* Between requests the task collection mirrors the instance: a user stage is
\* active exactly when its document is open, the document is on hold exactly
\* when the flow is, and an error shows in both.  After a cancellation every
\* document is done.
TaskMirror ==
    Undisturbed =>
      \A s \in UserStage :
        IF flow = "cancelled" THEN task[s] \in {"none", "done"}
        ELSE /\ status[s] = "waiting"   <=> task[s] = "none"
             /\ status[s] = "active" <=>
                  task[s] = (IF flow = "on-hold" THEN "on-hold" ELSE "todo")
             /\ status[s] = "completed" <=> task[s] = "done"
             /\ status[s] = "error"     <=> task[s] = "error"

\* No field that was submitted is lost from the instance's parameters, through
\* however many stages, loops and saves (cancelling through a form replaces them).
FieldsKept ==
    Undisturbed /\ flow # "cancelled" =>
      \A s \in done : kind[s] \in Activity => s \in params

\* A flow that shows completed has nothing left to do.
EndsClean == Undisturbed /\ flow = "completed" => ~AnyActive

\* The stages a gateway g sends control to before x.
Before(g, x) ==
    {nextOf[g][i] : i \in {i \in DOMAIN nextOf[g] :
                            \E j \in DOMAIN nextOf[g] : i < j /\ nextOf[g][j] = x}}

\* Control that has run on to x comes from g, which has sent it to no stage
\* before x from where it runs back to a source of g and activates it again.
OnlyBehind(x, g) ==
    /\ x \in NextStages(g)
    /\ \A p \in Stage \ {g} : x \notin Outgoing(p)
    /\ \A y \in Before(g, x) : Run[y] \cap Sources(g) \cap StagesOf(Opened) = {}

\* What stands behind a join only becomes active while every branch of the join
\* is finished, also in the second and later rounds of a loop.
JoinCurrent ==
    [][\A g \in StagesOf({"parallel"}) : \A x \in Stage :
         status[x] # "active" /\ status'[x] = "active" /\ OnlyBehind(x, g)
         => \A s \in Sources(g) : Finished(s)]_status

-----------------------------------------------------------------------------
(* What the code says of itself.                                           *)

\* completeTask refuses a task that is "Already completed": no completion is
\* written over a completed user task.
NotCompletedTwice ==
    [][\A t \in Thread : MakeTaskComplete(t) =>
         LET s == Head(agenda[t]).at IN
           kind[s] = "user" => status[s] # "completed"]_vars

\* makeFlowCancel is to "cancel all user task": once everything has settled a
\* cancelled flow has no open task.
CancelClosesTasks ==
    Undisturbed /\ flow = "cancelled" => \A s \in Stage : task[s] # "todo"

\* claimTask gives out unassigned tasks only: claiming never takes a task from
\* somebody.
ClaimTakesFromNobody ==
    [][\A t \in Thread : ClaimWrite(t) =>
         LET s == Head(agenda[t]).at IN holder[s] \in {Nobody, holder'[s]}]_vars
=============================================================================
