---------------------------- MODULE MCConcurrent ----------------------------
(***************************************************************************)
(* Two handlers in flight on a fork and join whose branches differ in      *)
(* length, with leaves of the other stage classes behind the join:         *)
(*                                                                         *)
(*  s -> open -> fork -> left ----------> join -> pick -> leaf or the end  *)
(*                    -> right -> mail ->                                  *)
(***************************************************************************)
EXTENDS WorkflowProperties, TLC

CONSTANTS u1, u2, t1, t2

mcStage == {"s", "open", "fork", "left", "right", "mail", "join", "pick",
            "nap", "hush", "e"}
mcKind ==
    [s |-> "start", open |-> "auto", fork |-> "parallel", left |-> "user", right |-> "user",
     mail |-> "deferred", join |-> "parallel", pick |-> "exclusive",
     nap |-> "timer", hush |-> "inert", e |-> "end"]
mcNextOf ==
    [s |-> <<"open">>, open |-> <<"fork">>, fork |-> <<"left", "right">>, left |-> <<"join">>,
     right |-> <<"mail">>, mail |-> <<"join">>, join |-> <<"pick">>,
     pick |-> <<>>, nap |-> <<"e">>, hush |-> <<"e">>,
     e |-> <<>>]
mcBranches ==
    [x \in mcStage |-> IF x = "pick" THEN {"nap", "hush"} ELSE {}]
mcUserOf == (t1 :> u1) @@ (t2 :> u2)
mcAssignee ==
    [x \in mcStage |-> IF x = "left" THEN u1 ELSE u2]
mcCandidate == [x \in mcStage |-> {u2}]
=============================================================================
