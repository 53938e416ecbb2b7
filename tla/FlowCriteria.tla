---------------------------- MODULE FlowCriteria ----------------------------
(***************************************************************************)
(* The completion criteria of a stage or of a flow, and the flags the      *)
(* executor judges them by (Executor.validateCriteria and                  *)
(* Executor.updateFlowFlagStatuses).  Pure: no variables.                  *)
(***************************************************************************)

\* A Boolean field of a Mongo document may be missing.
Optional == {"unset", "true", "false"}

\* The criteria object of a definition.  A document without criteria (null)
\* is the constant NoCriteria, which is not a record of this set.
Criteria == [showError      : Optional,
             onErrorComplete : Optional,
             allCompleted   : Optional,
             anyCompleted   : Optional,
             allActivitiesCompleted : Optional,
             anyActivitiesCompleted : Optional,
             mandatoryCompleted     : Optional]

Flags == [error : BOOLEAN,
          allCompleted : BOOLEAN,
          anyCompleted : BOOLEAN,
          allActivitiesCompleted : BOOLEAN,
          anyActivitiesCompleted : BOOLEAN,
          mandatoryCompleted     : BOOLEAN]

Verdict == [ok : BOOLEAN, status : {"completed", "error"}]

\* The first rule of validateCriteria: what status the stage will show.
ShownStatus(c, f) ==
    IF c.showError = "true" /\ f.error THEN "error" ELSE "completed"

\* The early returns that follow it, in the order of the code.  A criterion
\* that is met returns "completed"; when none is, the shown status stands.
MetCriterion(c, f) ==
    \/ c.allCompleted = "true" /\ f.allCompleted
    \/ c.anyCompleted = "true" /\ f.anyCompleted
    \/ c.allActivitiesCompleted = "true" /\ f.allActivitiesCompleted
    \/ c.anyActivitiesCompleted = "true" /\ f.anyActivitiesCompleted
    \/ c.mandatoryCompleted = "true" /\ f.mandatoryCompleted

ValidateCriteria(c, f) ==
    IF c.onErrorComplete # "unset"
      THEN [ok     |-> ~(c.onErrorComplete = "false" /\ f.error),
            status |-> ShownStatus(c, f)]
      ELSE [ok     |-> TRUE,
            status |-> IF MetCriterion(c, f) THEN "completed"
                                             ELSE ShownStatus(c, f)]
=============================================================================
