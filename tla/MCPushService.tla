--------------------------- MODULE MCPushService ---------------------------
(* PushService for TLC: the goroutines are interchangeable.                *)
EXTENDS PushService, TLC

Symmetry == Permutations(Req)

\* The outcome of the last request is not needed to tell states apart.
View == <<behaviour, limiter, now, pc, stamp, snapshot, origin, admitted, lost>>

=============================================================================
