----------------------------- MODULE MCRateLimit -----------------------------
(* An instance of RateLimit for TLC. *)
EXTENDS RateLimit

\* The operator widens and tightens both the budget and the window.  In ticks
\* of half a second the windows end inside a second: retry_after rounds up.
EditedLimits == {[requests |-> 2, window |-> 3],
                 [requests |-> 1, window |-> 5]}

=============================================================================
