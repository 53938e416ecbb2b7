------------------------------- MODULE MCLoop -------------------------------
(***************************************************************************)
(* A fork and join of two user tasks in a loop, requests one at a time:    *)
(*                                                                         *)
(*  s -> ask -> fork -> left, right -> join -> sign -> again               *)
(*              fork -> log -> e          again -> ask, or -> e            *)
(***************************************************************************)
EXTENDS SerialFlow, TLC

CONSTANTS u1, u2, t1

mcStage ==
    {"s", "ask", "log", "fork", "left", "right", "join", "sign", "again", "e"}
mcKind ==
    [s |-> "start", ask |-> "user", log |-> "direct", fork |-> "parallel",
     left |-> "user", right |-> "user", join |-> "parallel", sign |-> "user",
     again |-> "exclusive", e |-> "end"]
mcNextOf ==
    [s |-> <<"ask">>, ask |-> <<"fork">>, log |-> <<"e">>,
     fork |-> <<"left", "right", "log">>, left |-> <<"join">>, right |-> <<"join">>,
     join |-> <<"sign">>, sign |-> <<"again">>, again |-> <<"e">>, e |-> <<>>]
mcBranches == [x \in mcStage |-> IF x = "again" THEN {"ask"} ELSE {}]
mcUserOf == (t1 :> u1)
mcAssignee == [x \in mcStage |-> IF x = "right" THEN Nobody ELSE u1]
mcCandidate == [x \in mcStage |-> {u1}]
=============================================================================
