----------------------------- MODULE FlowRules ------------------------------
(***************************************************************************)
(* What the executor promises of control flow, whatever the handlers do    *)
(* and however they interleave: a stage is reached only when a stage before*)
(* it lets control through, and only a stage that was reached finishes.    *)
(***************************************************************************)
EXTENDS FlowGraph

VARIABLES
    reached,  \* stages control has come to
    done      \* stages that have finished at least once

ruleVars == <<reached, done>>

RulesInit == reached = {Start} /\ done = {}

Reach(x) ==
    /\ Justified(x, reached, done)
    /\ reached' = reached \cup {x}
    /\ done' = done

Finish(x) ==
    /\ x \in reached
    /\ done' = done \cup {x}
    /\ reached' = reached

RulesNext == \E x \in Stage : Reach(x) \/ Finish(x)

RulesSpec == RulesInit /\ [][RulesNext]_ruleVars

(***************************************************************************)
(* No stage is ever reached out of order: everything control has come to   *)
(* has a predecessor that let it through, and what has finished was        *)
(* reached.  With a parallel gateway as the only predecessor this says the *)
(* join is sound: nothing behind it runs before all its branches are done. *)
(***************************************************************************)
Causal ==
    /\ reached \subseteq Stage
    /\ done \subseteq reached
    /\ \A x \in reached \ {Start} : Justified(x, reached, done)
=============================================================================
