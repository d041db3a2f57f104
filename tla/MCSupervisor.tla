---------------------------- MODULE MCSupervisor ----------------------------
(* Two services, a window of 3 ticks, a base backoff of 1 tick and a budget *)
(* of 2 restarts: the streak can be extended, can expire and can overflow.  *)
EXTENDS Supervisor, TLC

CONSTANTS aegisd, dashboard

MCServices == {aegisd, dashboard}
Symmetry == Permutations(MCServices)
=============================================================================
