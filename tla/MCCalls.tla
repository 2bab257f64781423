------------------------------ MODULE MCCalls ------------------------------
(***************************************************************************)
(* Small instances of Calls for TLC.                                       *)
(***************************************************************************)
EXTENDS Calls, MCRuntime

\* One scenario, whose sensors work and have nothing new to say.
Quiet == "default" :> Plain(NoFacts, Observed(<<>>, 90, 0, None))
QuietScenarios == DOMAIN Quiet

OneMagnitude == hundred :> 100
=============================================================================
