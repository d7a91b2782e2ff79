---------------------------- MODULE MCScheduler ----------------------------
EXTENDS Scheduler

(* A pipeline for each role: outside the startup sequence, first in it,    *)
(* last in it.  The first stays on; the patch scan also changes its        *)
(* interval, or loses its plugin.                                          *)
MCPolicies ==
    {p \in [mode : [Keys -> {"off", "armed", "effective"}],
            interval : {[k \in Keys |-> IF k = "patch" THEN i ELSE 1] : i \in {1, 2}}] :
        /\ p.mode["inventory"] = "effective"
        /\ \A k \in Keys : p.mode[k] = "armed" => k = "patch"
        /\ p.mode["patch"] # "effective" => p.interval["patch"] = 1}
=============================================================================
