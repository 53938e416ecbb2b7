--------------------------- MODULE WorkflowEngine ---------------------------
(***************************************************************************)
(* One process instance of the workflow engine: Executor and the handlers  *)
(* of TasksService that call it.  Every HTTP request is an asynchronous    *)
(* handler that awaits the database between reads and writes, so handlers  *)
(* interleave at every database operation and act on what they read        *)
(* earlier.  A handler's remaining work is its agenda: the calls it has    *)
(* still to make, innermost first.  The executor's calls are strictly      *)
(* nested and nothing uses their results, so the call stack is a work      *)
(* list: each step takes the head, does one database operation, and puts   *)
(* the calls it makes in front of the rest.                                *)
(***************************************************************************)
EXTENDS FlowGraph

CONSTANTS
    Thread,     \* request handlers that may be in flight at once
    User,       \* people who work on tasks
    Nobody,     \* the null assignee
    userOf,     \* whose session a handler serves
    assignee,   \* what valueLocator makes of a stage's assignee expression
    candidate,  \* who may claim the task of a stage
    MaxCalls,   \* bound: requests made in a behaviour
    MaxFaults   \* bound: failed database calls and restarts in a behaviour

ASSUME PeopleAssumption ==
    /\ Nobody \notin User
    /\ userOf \in [Thread -> User]
    /\ assignee \in [Stage -> User \cup {Nobody}]
    /\ candidate \in [Stage -> SUBSET User]

ASSUME BoundAssumption == MaxCalls \in Nat /\ MaxFaults \in Nat

VARIABLES
    flow,     \* status of the instance document
    status,   \* status of each stage in it
    failed,   \* _flags._error of each stage
    params,   \* stages whose form fields are in the instance's parameters
    task,     \* status of each stage's document in the user task collection
    holder,   \* assignee of that document
    agenda,   \* what each handler has left to do
    calls,    \* requests made so far
    faults,   \* faults so far
    reached,  \* history: stages control has come to
    done      \* history: stages that have been completed (or put in error)

docVars == <<flow, status, failed, params, task, holder>>
history == <<reached, done>>
vars    == <<docVars, agenda, calls, faults, history>>

FlowStatus  == {"active", "on-hold", "cancelled", "completed"}
StageStatus == {"waiting", "active", "completed", "error", "started"}
TaskStatus  == StageStatus \cup {"none", "todo", "done", "on-hold"}

RequestOp == {"complete", "hold", "cancel", "resume", "save"}

CallOp ==
    {"startFlow", "goToNextStage", "makeStageActive", "onStageActive",
     "createUserTasks", "makeTaskComplete", "afterComplete", "updateUserTask",
     "iterateNextStages", "makeFlowEnd", "markStageCompleted", "holdFlow",
     "holdTasks", "cancelFlow", "cancelTasks", "resumeFlow", "resumeTasks",
     "saveParams", "claimTask", "throw"} \cup RequestOp

\* The calls an agenda holds; a request stands for the part of completeTask
\* after its first read.
Call ==
    [op   : CallOp,
     at   : Stage,            \* the stage concerned
     seen : SUBSET Stage,     \* instance parameters read earlier
     flag : BOOLEAN,          \* a condition decided on what was read earlier
     val  : StageStatus]      \* stage status read earlier

Do(op, s) ==
    [op |-> op, at |-> s, seen |-> {}, flag |-> FALSE, val |-> "waiting"]
DoIf(op, s, b) == [Do(op, s) EXCEPT !.flag = b]

\* Mutant of Hops: the next stages are activated without being dispatched.
HopsUndispatched(p) ==
    [i \in DOMAIN nextOf[p] |-> Do("makeStageActive", nextOf[p][i])]

Hops(p) == [i \in DOMAIN nextOf[p] |-> Do("goToNextStage", nextOf[p][i])]

Idle(t)     == agenda[t] = <<>>
Quiet       == \A t \in Thread : Idle(t)
Turn(t, op) == ~Idle(t) /\ Head(agenda[t]).op = op

\* Handler t is done with the head of its agenda and makes these calls next.
Then(t, new) == agenda' = [agenda EXCEPT ![t] = new \o Tail(@)]

Finished(s) == status[s] \in {"completed", "error"}
AnyActive   == \E s \in Stage : status[s] = "active"

\* validateCriteria for the criteria of stage s and its error flag e.
Valid(s, e) == ~(s \in stopsOnError /\ e)
Shown(s, e) == IF s \in showsError /\ e THEN "error" ELSE "completed"

TypeOK ==
    /\ flow \in FlowStatus
    /\ status \in [Stage -> StageStatus]
    /\ failed \in [Stage -> BOOLEAN]
    /\ params \subseteq Stage
    /\ task \in [Stage -> TaskStatus]
    /\ holder \in [Stage -> User \cup {Nobody}]
    /\ agenda \in [Thread -> Seq(Call)]
    /\ calls \in 0..MaxCalls
    /\ faults \in 0..MaxFaults
    /\ reached \subseteq Stage
    /\ done \subseteq Stage

\* The instance document has been created (Compiler.compile) and the request
\* that created it is about to start the flow.
Init ==
    /\ flow = "active"
    /\ status = [s \in Stage |-> IF s = Start THEN "active" ELSE "waiting"]
    /\ failed = [s \in Stage |-> FALSE]
    /\ params = {}
    /\ task = [s \in Stage |-> "none"]
    /\ holder = [s \in Stage |-> Nobody]
    /\ \E t \in Thread :
         agenda = [u \in Thread |->
                     IF u = t THEN <<Do("startFlow", Start)>> ELSE <<>>]
    /\ calls = 0
    /\ faults = 0
    /\ reached = {Start}
    /\ done = {}

-----------------------------------------------------------------------------
(* Running the flow: Executor.                                             *)

StartFlow(t) ==
    /\ Turn(t, "startFlow")
    /\ status' = [status EXCEPT ![Start] = "started"]
    /\ params' = {Start}
    /\ done' = done \cup {Start}
    /\ Then(t, Hops(Start))
    /\ UNCHANGED <<flow, failed, task, holder, calls, faults, reached>>

\* Mutant of TaskCompletion: the parameters read before are not passed on.
TaskCompletionForgetful(s) == DoIf("makeTaskComplete", s, failed[s])

\* The parameters and flags makeTaskComplete is called with are those of the
\* instance its caller read.
TaskCompletion(s) ==
    [DoIf("makeTaskComplete", s, failed[s]) EXCEPT !.seen = params]

\* makeTaskComplete as the executor calls it, with error flag e.  A completion
\* the criteria refuse is logged for a task marked auto and thrown for another.
Complete(s, e) ==
    IF Valid(s, e) THEN <<[TaskCompletion(s) EXCEPT !.flag = e]>>
                   ELSE IF kind[s] = "auto" THEN <<>> ELSE <<Do("throw", s)>>

\* Mutants of JoinReady: any source will do; a source in error does not count;
\* a source that finished in an earlier round counts.
JoinReadyAny(g)       == \E s \in Sources(g) : Finished(s)
JoinReadyCompleted(g) == \A s \in Sources(g) : status[s] = "completed"
JoinReadyEver(g)      == Sources(g) \subseteq done

\* parallelHandler: the join is ready when every source has finished in the
\* instance just read.
JoinReady(g) == \A s \in Sources(g) : Finished(s)

\* Mutants of FlowEnd: the flow ends whatever is active; the end is tried again
\* until nothing is active.
FlowEndAlways(s)  == Do("makeFlowEnd", s)
FlowEndPolling(s) ==
    IF AnyActive THEN Do("iterateNextStages", s) ELSE Do("makeFlowEnd", s)

\* makeFlowEnd on the instance just read: with a stage still active only the
\* end stage is marked.
FlowEnd(s) ==
    IF AnyActive THEN Do("markStageCompleted", s) ELSE Do("makeFlowEnd", s)

\* iterateNextStages for stage p; "flow" is the status read by its caller.
IterateNextStages(p) ==
    IF nextOf[p] = <<>> THEN <<DoIf("iterateNextStages", p, flow = "completed")>>
                        ELSE Hops(p)

\* What goToNextStage calls for a stage k that is not an exclusive gateway.
Dispatch(k) ==
    CASE kind[k] \in {"start", "event"} -> <<>>
      [] kind[k] = "end"      -> <<FlowEnd(k)>>
      [] kind[k] \in {"auto", "direct"} -> Complete(k, failed[k])
      [] kind[k] = "parallel" -> (IF JoinReady(k) THEN Hops(k) ELSE <<>>)
                                   \o <<Do("markStageCompleted", k)>>
      [] kind[k] = "inert"    -> <<Do("markStageCompleted", k)>>
      [] OTHER -> <<DoIf("makeStageActive", k, status[k] # "waiting")>>

\* goToNextStage reads the instance (updateFlowFlagStatuses returns it fresh)
\* and dispatches on the stage.  The conditions of an exclusive gateway depend
\* on data: any of them may be the first that is true, or none.  A gateway is
\* marked completed after everything behind it has run.
GoToNextStage(t) ==
    /\ Turn(t, "goToNextStage")
    /\ LET k == Head(agenda[t]).at IN
         /\ reached' = reached \cup {k}
         /\ \/ kind[k] # "exclusive" /\ Then(t, Dispatch(k))
            \/ /\ kind[k] = "exclusive"
               /\ \E way \in {<<Do("goToNextStage", b)>> : b \in branches[k]}
                               \cup {IterateNextStages(k)} :
                    Then(t, way \o <<Do("markStageCompleted", k)>>)
    /\ UNCHANGED <<docVars, calls, faults, done>>

\* makeStageActive; a stage that was not waiting when it was read is re-opened
\* (its earlier run goes to its history and its flags are cleared).
MakeStageActive(t) ==
    /\ Turn(t, "makeStageActive")
    /\ LET k == Head(agenda[t]).at
           e == failed[k] /\ ~Head(agenda[t]).flag IN
         /\ status' = [status EXCEPT ![k] = "active"]
         /\ failed' = [failed EXCEPT ![k] = e]
         /\ Then(t, <<DoIf("onStageActive", k, e)>>)
    /\ UNCHANGED <<flow, params, task, holder, calls, faults, history>>

\* onStageActive.  For a user task this step is the lookup of its document in
\* createUserTasks.  A call activity never gets its child: the lookup of the
\* child's definition throws and createChildProcessInstance swallows it.
OnStageActive(t) ==
    /\ Turn(t, "onStageActive")
    /\ LET c == Head(agenda[t])  k == c.at IN
         Then(t, CASE kind[k] = "user" ->
                        <<DoIf("createUserTasks", k, task[k] # "none")>>
                   [] kind[k] = "deferred" -> Complete(k, c.flag)
                   [] OTHER -> <<>>)
    /\ UNCHANGED <<docVars, calls, faults, history>>

\* Mutant of CreateUserTasks: a document found is left as it is.
CreateUserTasksOnce(t) ==
    /\ Turn(t, "createUserTasks")
    /\ LET k == Head(agenda[t]).at IN
         IF task[k] = "none"
           THEN /\ task' = [task EXCEPT ![k] = "todo"]
                /\ holder' = [holder EXCEPT ![k] = assignee[k]]
           ELSE UNCHANGED <<task, holder>>
    /\ Then(t, <<>>)
    /\ UNCHANGED <<flow, status, failed, params, calls, faults, history>>

\* An exception nobody catches ends the handler's request.
Throw(t) ==
    /\ Turn(t, "throw")
    /\ agenda' = [agenda EXCEPT ![t] = <<>>]
    /\ UNCHANGED <<docVars, calls, faults, history>>

\* createUserTasks: the document found is re-opened; otherwise one is created,
\* which the unique index refuses when another handler has been faster (the
\* error is logged and dropped).
CreateUserTasks(t) ==
    /\ Turn(t, "createUserTasks")
    /\ LET c == Head(agenda[t])  k == c.at IN
         IF c.flag \/ task[k] = "none"
           THEN /\ task' = [task EXCEPT ![k] = "todo"]
                /\ holder' = [holder EXCEPT ![k] = assignee[k]]
           ELSE UNCHANGED <<task, holder>>
    /\ Then(t, <<>>)
    /\ UNCHANGED <<flow, status, failed, params, calls, faults, history>>

\* What the connector and the service of stage k may leave in its error flag:
\* a connector sets or clears it (or returns nothing), a service only sets it.
AfterConnector(k, e) == IF k \in connector THEN {TRUE, FALSE, e} ELSE {e}
AfterService(k, e)   == IF k \in service THEN {TRUE, e} ELSE {e}

\* makeTaskComplete: one write of the stage and of the instance's parameters,
\* which are the ones read at the start of the call with the task's own added.
MakeTaskComplete(t) ==
    /\ Turn(t, "makeTaskComplete")
    /\ LET c == Head(agenda[t])  k == c.at IN
         /\ \E e \in AfterConnector(k, c.flag) : \E f \in AfterService(k, e) :
              /\ status' = [status EXCEPT ![k] = Shown(k, e)]
              /\ failed' = [failed EXCEPT ![k] = f]
              /\ Then(t, <<DoIf("afterComplete", k, Valid(k, e))>>)
         /\ params' = c.seen \cup {k}
         /\ done' = done \cup {k}
    /\ UNCHANGED <<flow, task, holder, calls, faults, reached>>

\* The rest of makeTaskComplete works on the instance read again after the
\* write; a stage stopped by its criteria goes no further.
AfterComplete(t) ==
    /\ Turn(t, "afterComplete")
    /\ LET c == Head(agenda[t])  k == c.at IN
         Then(t, (IF kind[k] = "user"
                    THEN <<[Do("updateUserTask", k) EXCEPT !.val = status[k]]>>
                    ELSE <<>>)
                 \o (IF c.flag THEN IterateNextStages(k) ELSE <<>>))
    /\ UNCHANGED <<docVars, calls, faults, history>>

\* Mutant of UpdateUserTask: whatever the stage shows, the task is done.
UpdateUserTaskDone(t) ==
    /\ Turn(t, "updateUserTask")
    /\ LET k == Head(agenda[t]).at IN
         task' = [task EXCEPT ![k] = IF @ = "none" THEN @ ELSE "done"]
    /\ Then(t, <<>>)
    /\ UNCHANGED <<flow, status, failed, params, holder, calls, faults, history>>

UpdateUserTask(t) ==
    /\ Turn(t, "updateUserTask")
    /\ LET c == Head(agenda[t]) IN
         task' = [task EXCEPT ![c.at] =
                    IF @ = "none" THEN @
                    ELSE IF c.val = "completed" THEN "done" ELSE c.val]
    /\ Then(t, <<>>)
    /\ UNCHANGED <<flow, status, failed, params, holder, calls, faults, history>>

\* iterateNextStages with nothing next: the flow ends, unless it had ended
\* when the caller read it.
IterateToEnd(t) ==
    /\ Turn(t, "iterateNextStages")
    /\ IF Head(agenda[t]).flag
         THEN Then(t, <<>>) /\ UNCHANGED reached
         ELSE Then(t, <<FlowEnd(EndStage)>>) /\ reached' = reached \cup {EndStage}
    /\ UNCHANGED <<docVars, calls, faults, done>>

\* The unconditional write of makeFlowEnd.  onFlowEnd has no parent to tell.
MakeFlowEnd(t) ==
    /\ Turn(t, "makeFlowEnd")
    /\ flow' = "completed"
    /\ LET k == Head(agenda[t]).at IN
         /\ status' = [status EXCEPT ![k] = "completed"]
         /\ done' = done \cup {k}
    /\ Then(t, <<>>)
    /\ UNCHANGED <<failed, params, task, holder, calls, faults, reached>>

\* The last write of gatewayHandler, and of makeFlowEnd while a stage is active.
MarkStageCompleted(t) ==
    /\ Turn(t, "markStageCompleted")
    /\ LET k == Head(agenda[t]).at IN
         /\ status' = [status EXCEPT ![k] = "completed"]
         /\ done' = done \cup {k}
    /\ Then(t, <<>>)
    /\ UNCHANGED <<flow, failed, params, task, holder, calls, faults, reached>>

-----------------------------------------------------------------------------
(* Requests: the handlers of TasksService and ProcessInstancesService.     *)

Begin(t, new) ==
    /\ Idle(t)
    /\ calls < MaxCalls
    /\ calls' = calls + 1
    /\ agenda' = [agenda EXCEPT ![t] = new]
    /\ UNCHANGED <<docVars, faults, history>>

\* Mutant of CompleteTask: the task document is not looked up.
CompleteTaskUnchecked(t, s, verb) == Begin(t, <<Do(verb, s)>>)

\* completeTask first finds the user's task document, whatever its status.
CompleteTask(t, s, verb) ==
    /\ task[s] # "none" /\ holder[s] = userOf[t]
    /\ Begin(t, <<Do(verb, s)>>)

\* claimTask finds an unassigned open task the user is a candidate for...
ClaimTask(t, s) ==
    /\ task[s] = "todo" /\ holder[s] = Nobody /\ userOf[t] \in candidate[s]
    /\ Begin(t, <<Do("claimTask", s)>>)

\* ... and updateInstances reads the parameters it will merge with.
UpdateInstances(t) ==
    Begin(t, <<[Do("saveParams", Start) EXCEPT !.seen = params]>>)

\* The two writes of makeFlowCancel are awaited together, in either order.
\* Cancelling through a task puts the task's form in place of the parameters.
CancelWays(s, form) ==
    LET flowFirst == <<DoIf("cancelFlow", s, form), Do("cancelTasks", s)>>
    IN  {flowFirst, <<flowFirst[2], flowFirst[1]>>}

CancelInstance(t) == \E way \in CancelWays(Start, FALSE) : Begin(t, way)

\* changeTaskAssignee; the document is updated without being awaited.
ReassignTask(s, u) ==
    /\ calls < MaxCalls
    /\ calls' = calls + 1
    /\ task[s] # "none"
    /\ holder' = [holder EXCEPT ![s] = u]
    /\ UNCHANGED <<flow, status, failed, params, task, agenda, faults, history>>

\* completeTask goes on when the instance it reads allows the request.
Accepts(verb, s) ==
    CASE verb = "complete" -> /\ status[s] \in {"active", "error"}
                              /\ flow \notin {"on-hold", "cancelled"}
                              /\ Valid(s, failed[s])
      [] verb = "hold"     -> flow # "on-hold"
      [] verb = "cancel"   -> flow # "cancelled"
      [] verb = "resume"   -> flow = "on-hold"
      [] verb = "save"     -> flow \notin {"on-hold", "cancelled"}

\* The ways a request that is allowed may go on.
Ways(verb, s) ==
    CASE verb = "complete" -> {<<TaskCompletion(s)>>}
      [] verb = "hold"     -> {<<Do("holdFlow", s), Do("holdTasks", s)>>}
      [] verb = "cancel"   -> CancelWays(s, TRUE)
      [] verb = "resume"   -> {<<Do("resumeFlow", s), Do("resumeTasks", s)>>}
      [] verb = "save"     -> {<<[Do("saveParams", s) EXCEPT !.seen = params]>>}

CheckRequest(t) ==
    /\ \E verb \in RequestOp :
         /\ Turn(t, verb)
         /\ LET s == Head(agenda[t]).at IN
              IF Accepts(verb, s) THEN \E way \in Ways(verb, s) : Then(t, way)
                                  ELSE Then(t, <<>>)
    /\ UNCHANGED <<docVars, calls, faults, history>>

\* updateMany from one status to another, on the instances or on the tasks of
\* the root instance.
MoveFlow(t, op, from, to) ==
    /\ Turn(t, op)
    /\ flow' = IF flow = from THEN to ELSE flow
    /\ Then(t, <<>>)
    /\ UNCHANGED <<status, failed, params, task, holder, calls, faults, history>>

MoveTasks(t, op, from, to) ==
    /\ Turn(t, op)
    /\ task' = [s \in Stage |-> IF task[s] \in from THEN to ELSE task[s]]
    /\ Then(t, <<>>)
    /\ UNCHANGED <<flow, status, failed, params, holder, calls, faults, history>>

MakeFlowHold(t) == \/ MoveFlow(t, "holdFlow", "active", "on-hold")
                   \/ MoveTasks(t, "holdTasks", {"todo"}, "on-hold")

MakeFlowResume(t) == \/ MoveFlow(t, "resumeFlow", "on-hold", "active")
                     \/ MoveTasks(t, "resumeTasks", {"on-hold"}, "todo")

CancelFlow(t) ==
    /\ Turn(t, "cancelFlow")
    /\ flow' = "cancelled"
    /\ params' = IF Head(agenda[t]).flag THEN {Head(agenda[t]).at} ELSE params
    /\ Then(t, <<>>)
    /\ UNCHANGED <<status, failed, task, holder, calls, faults, history>>

\* Mutant of MakeFlowCancel: the tasks get a status of their own.
MakeFlowCancelMarked(t) ==
    \/ CancelFlow(t)
    \/ MoveTasks(t, "cancelTasks", TaskStatus \ {"none"}, "cancelled")

MakeFlowCancel(t) == \/ CancelFlow(t)
                     \/ MoveTasks(t, "cancelTasks", TaskStatus \ {"none"}, "done")

SaveParams(t) ==
    /\ Turn(t, "saveParams")
    /\ params' = Head(agenda[t]).seen \cup {Head(agenda[t]).at}
    /\ Then(t, <<>>)
    /\ UNCHANGED <<flow, status, failed, task, holder, calls, faults, history>>

\* claimTask writes the assignee without looking at it again.
ClaimWrite(t) ==
    /\ Turn(t, "claimTask")
    /\ holder' = [holder EXCEPT ![Head(agenda[t]).at] = userOf[t]]
    /\ Then(t, <<>>)
    /\ UNCHANGED <<flow, status, failed, params, task, calls, faults, history>>

-----------------------------------------------------------------------------
(* Faults, and the specification.                                          *)

\* A database call is refused: the exception ends the handler, except where
\* the executor catches it and goes on.
Fail(t) ==
    /\ ~Idle(t) /\ faults < MaxFaults
    /\ faults' = faults + 1
    /\ agenda' = [agenda EXCEPT ![t] =
                     IF Head(@).op \in {"createUserTasks", "updateUserTask"}
                       THEN Tail(@) ELSE <<>>]
    /\ UNCHANGED <<docVars, calls, history>>

\* The process restarts.  Nothing takes the handlers' work up again.
Restart ==
    /\ ~Quiet /\ faults < MaxFaults
    /\ faults' = faults + 1
    /\ agenda' = [t \in Thread |-> <<>>]
    /\ UNCHANGED <<docVars, calls, history>>

Handler(t) ==
    \/ StartFlow(t)        \/ GoToNextStage(t)   \/ MakeStageActive(t)
    \/ OnStageActive(t)    \/ CreateUserTasks(t) \/ MakeTaskComplete(t)
    \/ AfterComplete(t)    \/ UpdateUserTask(t)  \/ IterateToEnd(t)
    \/ Throw(t)
    \/ MakeFlowEnd(t)      \/ MarkStageCompleted(t)
    \/ CheckRequest(t)     \/ MakeFlowHold(t)    \/ MakeFlowResume(t)
    \/ MakeFlowCancel(t)   \/ SaveParams(t)      \/ ClaimWrite(t)

Request(t) ==
    \/ \E s \in UserStage : \E verb \in RequestOp : CompleteTask(t, s, verb)
    \/ \E s \in UserStage : ClaimTask(t, s)
    \/ UpdateInstances(t)
    \/ CancelInstance(t)

Next ==
    \/ \E t \in Thread : Handler(t) \/ Request(t) \/ Fail(t)
    \/ \E s \in UserStage : \E u \in User : ReassignTask(s, u)
    \/ Restart

Spec == Init /\ [][Next]_vars

\* The event loop resumes every handler whose database call has returned; no
\* one is obliged to make a request.
FairSpec == Spec /\ \A t \in Thread : WF_vars(Handler(t))
=============================================================================
