----------------------------- MODULE FlowGraph ------------------------------
(***************************************************************************)
(* A process definition as the executor sees it: the stages of one process *)
(* instance, how each is dispatched, and the edges between them.  The      *)
(* definition is fixed for the life of an instance (Compiler.compile       *)
(* copies it into the instance document).                                  *)
(***************************************************************************)
EXTENDS Naturals, Sequences

CONSTANTS
    Stage,        \* the stages of the instance, one per key
    Start,        \* stages[_startIndex]
    EndStage,     \* stages[_endIndex]
    kind,         \* how Executor.goToNextStage and onStageActive treat a stage
    nextOf,       \* the array nextStages of a stage
    branches,     \* the targets onTrueNextStage of a gateway's conditionsExp
    connector,    \* stages with a connector: an external call that may fail
    service,      \* stages with a service: an in-process call that may fail
    showsError,   \* stages whose criteria.showError is true
    stopsOnError  \* stages whose criteria.onErrorComplete is false

(***************************************************************************)
(* The classes of stages the two switches tell apart:                      *)
(*   auto      a system, service or plain task with auto = true: completed *)
(*             as soon as control reaches it                               *)
(*   direct    an activity of another subtype: completed at once too, but  *)
(*             not marked auto, so a refused completion is an exception    *)
(*   manual    a system task with auto = false: activated, then left alone *)
(*   deferred  a service or plain task with auto = false, or a compound    *)
(*             task without a definition key: activated, completed at once *)
(*   call      a compound task or call activity with a definition key      *)
(*   event     an event that goToNextStage ignores                         *)
(*   inert     a gateway of a subtype no handler exists for                *)
(***************************************************************************)
Event    == {"start", "end", "timer", "event"}
Activity == {"user", "auto", "direct", "manual", "deferred", "call"}
Gateway  == {"exclusive", "parallel", "inert"}
Kind     == Event \cup Activity \cup Gateway

ASSUME StageAssumption ==
    /\ Start \in Stage /\ EndStage \in Stage
    /\ kind \in [Stage -> Kind]
    /\ kind[Start] = "start" /\ kind[EndStage] = "end"

\* The Joi schema of a start stage demands exactly one next stage.
ASSUME EdgeAssumption ==
    /\ nextOf \in [Stage -> Seq(Stage)]
    /\ branches \in [Stage -> SUBSET Stage]
    /\ Len(nextOf[Start]) = 1

ASSUME TaskAssumption ==
    /\ connector \subseteq Stage /\ service \subseteq Stage
    /\ showsError \subseteq Stage /\ stopsOnError \subseteq Stage

StagesOf(K) == {s \in Stage : kind[s] \in K}
UserStage   == StagesOf({"user"})

NextStages(p) == {nextOf[p][i] : i \in DOMAIN nextOf[p]}

\* The stages a parallel gateway waits for: those that name it in nextStages.
\* A gateway that reaches it through a condition does not.
Sources(g) == {s \in Stage : g \in NextStages(s)}

\* Where control may go from p.  A stage with no next stage ends the flow.
Outgoing(p) ==
    NextStages(p)
      \cup (IF kind[p] = "exclusive" THEN branches[p] ELSE {})
      \cup (IF nextOf[p] = <<>> /\ kind[p] # "parallel" THEN {EndStage}
                                                        ELSE {})

\* p lets control through, given the stages reached and finished so far: an
\* exclusive gateway when control reaches it, a parallel one when all its
\* sources have finished too, any other stage when it has finished itself.
Fired(p, reached, done) ==
    CASE kind[p] = "exclusive" -> p \in reached
      [] kind[p] = "parallel"  -> p \in reached /\ Sources(p) \subseteq done
      [] OTHER                 -> p \in done

Justified(x, reached, done) ==
    \E p \in Stage : Fired(p, reached, done) /\ x \in Outgoing(p)

\* Stages that control activates, those of them that then wait for somebody, and
\* those it goes through.
Opened  == {"user", "manual", "call", "timer", "deferred"}
Waiting == Opened \ {"deferred"}
Passing == {"auto", "direct", "deferred", "exclusive", "parallel"}

\* R is closed: control does not leave it without waiting.
Closed(R) == \A p \in R \cap StagesOf(Passing) : Outgoing(p) \subseteq R

\* The stages control may run through from x before it has to wait.
Run == [x \in Stage |->
          {s \in Stage : \A R \in SUBSET Stage : x \in R /\ Closed(R) => s \in R}]

\* What control may do from x in one run: activate a stage, end the flow.
Opens(x) == Run[x] \cap StagesOf(Opened) # {}
Ends(x)  == Run[x] \cap StagesOf({"end"}) # {}
=============================================================================
