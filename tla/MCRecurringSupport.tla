------------------------- MODULE MCRecurringSupport -------------------------
(* The instance of RecurringSupport: a week of one tick, a month of two.   *)
EXTENDS RecurringSupport

MCPeriod == [f \in Frequency |-> IF f = "weekly" THEN 1 ELSE 2]

Unchanged == [status |-> "same", frequency |-> "same", asset |-> "same"]
MCBody == {[Unchanged EXCEPT !.status = "paused"], [Unchanged EXCEPT !.frequency = "monthly"]}
=============================================================================
