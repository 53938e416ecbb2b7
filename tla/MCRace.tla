------------------------------- MODULE MCRace -------------------------------
(***************************************************************************)
(* Two user tasks in a row, s -> first -> second -> e, worked on by two    *)
(* handlers of the same person or of two people.                           *)
(***************************************************************************)
EXTENDS WorkflowProperties, TLC

CONSTANTS u1, u2, t1, t2

mcStage == {"s", "first", "second", "e"}
mcKind == [s |-> "start", first |-> "user", second |-> "user", e |-> "end"]
mcNextOf ==
    [s |-> <<"first">>, first |-> <<"second">>, second |-> <<"e">>, e |-> <<>>]
mcBranches == [x \in mcStage |-> {}]
mcSameUser == (t1 :> u1) @@ (t2 :> u1)
mcTwoUsers == (t1 :> u1) @@ (t2 :> u2)
mcAssigned == [x \in mcStage |-> u1]
mcPool == [x \in mcStage |-> Nobody]
mcCandidate == [x \in mcStage |-> {u1, u2}]
=============================================================================
