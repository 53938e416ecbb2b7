----------------------------- MODULE SerialFlow -----------------------------
(***************************************************************************)
(* Requests one at a time: why the properties of WorkflowProperties hold   *)
(* then, and for which flows.                                              *)
(***************************************************************************)
EXTENDS WorkflowProperties

\* Calls of the executor, and those of them that may wait behind another.
EngineOp == {"startFlow", "goToNextStage", "makeStageActive", "onStageActive",
             "createUserTasks", "makeTaskComplete", "afterComplete", "throw",
             "updateUserTask", "iterateNextStages", "makeFlowEnd",
             "markStageCompleted"}
Behind   == {"goToNextStage", "iterateNextStages", "markStageCompleted"}

\* What a call may be about when the flow runs, at the head of its agenda or not,
\* the last of it or not.  A user task is only completed by the request itself,
\* so nothing waits behind that.
Fits(c, first, last) ==
    /\ c.op \in (IF first THEN EngineOp ELSE Behind)
    /\ c.op \in {"makeTaskComplete", "afterComplete", "iterateNextStages"} =>
         \/ kind[c.at] = "user" /\ last
         \/ kind[c.at] \in Passing \ {"parallel"}
    /\ c.op = "iterateNextStages" => nextOf[c.at] = <<>>
    /\ c.op \in {"makeStageActive", "onStageActive"} => kind[c.at] \in Opened
    /\ c.op \in {"createUserTasks", "updateUserTask"} => kind[c.at] = "user"
    /\ c.op = "makeFlowEnd" => kind[c.at] = "end"
    /\ c.op = "markStageCompleted" => kind[c.at] \in Gateway \cup {"end"}
    /\ c.op = "startFlow" => c.at = Start /\ last

Working(t) ==
    /\ flow \in {"active", "completed"}
    /\ \A i \in DOMAIN agenda[t] : Fits(agenda[t][i], i = 1, i = Len(agenda[t]))
    /\ Turn(t, "startFlow") => flow = "active" /\ done = {}

Single(t, ops) == Len(agenda[t]) = 1 /\ Head(agenda[t]).op \in ops
Pair(t, x, y)  ==
    Len(agenda[t]) = 2 /\ agenda[t][1].op = x /\ agenda[t][2].op = y

\* A request that does not run the flow, or not yet.
Errand(t) ==
    \/ Single(t, RequestOp \cup {"claimTask", "saveParams", "cancelFlow"})
    \/ Pair(t, "cancelFlow", "cancelTasks")
    \/ Pair(t, "cancelTasks", "cancelFlow")
    \/ flow = "cancelled" /\ Single(t, {"cancelTasks"})
    \/ flow # "on-hold"   /\ Pair(t, "holdFlow", "holdTasks")
    \/ flow # "active"    /\ Single(t, {"holdTasks"})
    \/ flow = "on-hold"   /\ Pair(t, "resumeFlow", "resumeTasks")
    \/ flow = "active"    /\ Single(t, {"resumeTasks"})

PlanInv == \A t \in Thread : Idle(t) \/ Working(t) \/ Errand(t)

-----------------------------------------------------------------------------
(* Fields and joins.                                                       *)

\* No field is lost, and no write to come loses one.
FieldsInv ==
    /\ flow # "cancelled" => \A s \in done : kind[s] \in Activity => s \in params
    /\ \A t \in Thread : \A i \in DOMAIN agenda[t] :
         agenda[t][i].op \in {"makeTaskComplete", "saveParams"} =>
            agenda[t][i].seen = params

\* While a stage behind a join waits for its turn nothing disturbs the join.
JoinInv ==
    \A t \in Thread, g \in StagesOf({"parallel"}), x \in Stage :
      \A i \in DOMAIN agenda[t] :
        /\ agenda[t][i].op \in {"goToNextStage", "makeStageActive"}
        /\ agenda[t][i].at = x
        /\ OnlyBehind(x, g)
        => /\ JoinReady(g)
           /\ \A h \in 1..(i - 1) : \E y \in Before(g, x) : agenda[t][h].at \in Run[y]

-----------------------------------------------------------------------------
(* The end of the flow.                                                    *)

\* Calls that carry control on.
Carries == {"goToNextStage", "makeStageActive", "onStageActive",
            "makeTaskComplete", "afterComplete", "iterateNextStages"}

MayOpen(c) == c.op \in Carries /\ Opens(c.at)
MayEnd(c)  == c.op \in Carries \cup {"makeFlowEnd"} /\ Ends(c.at)

\* Call c is to activate a stage that waits; such a stage is active.
Holds(c) == c.op \in {"goToNextStage", "makeStageActive"} /\ kind[c.at] \in Waiting
Held     == \E s \in StagesOf(Waiting) : status[s] = "active"

\* When a call may end the flow and one behind it activate a stage, something
\* holds the flow open or will by then.
EndInv ==
    /\ \A s \in Stage : status[s] = "error" => failed[s] /\ s \in showsError
    /\ flow = "completed" => ~AnyActive
    /\ \A t \in Thread : LET a == agenda[t] IN
         /\ flow = "completed" => \A i \in DOMAIN a : ~MayOpen(a[i])
         /\ \A i, j \in DOMAIN a : i < j /\ MayEnd(a[i]) /\ MayOpen(a[j]) =>
              Held \/ \E h \in 1..(i - 1) : Holds(a[h])
         /\ Turn(t, "makeFlowEnd") => ~AnyActive

-----------------------------------------------------------------------------
(* The worklist.                                                           *)

\* The document of stage s shows its status; that of an active one is "open".
Reflects(s, open) ==
    \/ status[s] = "waiting"   /\ task[s] = "none"
    \/ status[s] = "active"    /\ task[s] = open
    \/ status[s] = "completed" /\ task[s] = "done"
    \/ status[s] = "error"     /\ task[s] = "error"

Reflected(open) == \A s \in UserStage : Reflects(s, open)
TasksClosed     == \A s \in UserStage : task[s] \in {"none", "done"}

Mirror == IF flow = "cancelled" THEN TasksClosed
          ELSE Reflected(IF flow = "on-hold" THEN "on-hold" ELSE "todo")

\* The stage of call c has been written, its document not yet.
LagOp   == {"onStageActive", "createUserTasks", "afterComplete", "updateUserTask"}
Lags(c) == c.op \in LagOp /\ c.at \in UserStage

LagInv(c) ==
    /\ c.op \in {"onStageActive", "createUserTasks"} => status[c.at] = "active"
    /\ c.op = "createUserTasks" => c.flag = (task[c.at] # "none")
    /\ c.op \in {"afterComplete", "updateUserTask"} =>
         status[c.at] \in {"completed", "error"}
    /\ c.op = "updateUserTask" => c.val = status[c.at]
    /\ \A s \in UserStage \ {c.at} : Reflects(s, "todo")

\* Calls between the two writes of a hold, a resumption or a cancellation.
HalfDone == {"holdTasks", "resumeTasks", "cancelFlow", "cancelTasks"}

TaskInv(a) ==
    LET c == Head(a) IN
    /\ Lags(c) => LagInv(c)
    /\ c.op = "holdTasks" =>
         IF flow = "cancelled" THEN TasksClosed ELSE Reflected("todo")
    /\ c.op = "resumeTasks" => Reflected("on-hold")
    /\ c.op = "cancelFlow" /\ Tail(a) = <<>> => TasksClosed
    /\ c.op \notin HalfDone /\ ~Lags(c) => Mirror

MirrorInv ==
    faults = 0 => \A t \in Thread :
        IF Idle(t) THEN Mirror ELSE TaskInv(agenda[t])

-----------------------------------------------------------------------------
(* The premises, and the inductive invariant.                              *)

\* In a fork where one branch may run to the end by itself and a later one
\* activates a stage, a branch before them waits for somebody; else the flow
\* ends first and the later branch is activated in a completed flow.
OrderedForks ==
    \A p \in Stage : \A i, j \in DOMAIN nextOf[p] :
        i < j /\ Ends(nextOf[p][i]) /\ Opens(nextOf[p][j]) =>
            \E h \in 1..(i - 1) : kind[nextOf[p][h]] \in Waiting

\* A user task that shows its error stops its branch: else it may be completed
\* once more when the flow has ended.
ErrorsStop == showsError \cap UserStage \subseteq stopsOnError

SerialInv ==
    /\ PlanInv
    /\ FieldsInv
    /\ JoinInv
    /\ OrderedForks /\ ErrorsStop => EndInv /\ MirrorInv
=============================================================================
