----------------------------- MODULE MCAgentRun -----------------------------
(* The built-in plugins for TLC, with budgets small enough to be used up.  *)
EXTENDS AgentRun

BuiltIn == {[SmartResponder EXCEPT !.budget = 3],
            [MeetingPrep EXCEPT !.budget = 9],
            [DeliveryStatusHandler EXCEPT !.budget = 1],
            IndividualReturnPrep}
=============================================================================
