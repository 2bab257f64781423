------------------------------ MODULE MCService ------------------------------
(***************************************************************************)
(* Small instances of Service for TLC: a scenario that raises a review, and *)
(* one whose sensors fail.                                                 *)
(***************************************************************************)
EXTENDS Service, MCRuntime

StreamFixtures ==
  "default" :> Blind @@ "contradiction_case" :> ContradictionCase
StreamScenarios == DOMAIN StreamFixtures

NoMagnitude == [n \in {} |-> 0]
=============================================================================
