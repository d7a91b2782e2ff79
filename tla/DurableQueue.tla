---------------------------- MODULE DurableQueue ----------------------------
(***************************************************************************)
(* What the persistent outbox promises its callers, with every mechanism   *)
(* (SQL rows, locks, back-off, leases) left out.  An accepted event waits; *)
(* while it waits it may be handed to the sender, at most MaxHandouts      *)
(* times; it stops waiting exactly once, either done (the control plane    *)
(* acknowledged it) or dead (rejected or out of attempts); and only an     *)
(* event that no longer waits may be forgotten.  The one exception is a    *)
(* database file found corrupt when the process opens it, which starts the *)
(* queue again from nothing.                                               *)
(***************************************************************************)
EXTENDS Naturals

CONSTANTS Ids,          \* the numbers the queue can give to an event
          MaxHandouts   \* how often one event may be handed to the sender

VARIABLES stage,        \* stage[i]: where the life of event i has got to
          handouts      \* handouts[i]: times event i was handed out

vars == <<stage, handouts>>

Stage == {"unknown", "waiting", "done", "dead", "forgotten"}

Init == /\ stage = [i \in Ids |-> "unknown"]
        /\ handouts = [i \in Ids |-> 0]

Accept(i) ==
    /\ stage[i] = "unknown"
    /\ stage' = [stage EXCEPT ![i] = "waiting"]
    /\ UNCHANGED handouts

(* Hand a non-empty batch of waiting events to the sender.                 *)
HandOut(S) ==
    /\ \A i \in S : stage[i] = "waiting" /\ handouts[i] < MaxHandouts
    /\ handouts' = [i \in Ids |-> IF i \in S THEN handouts[i] + 1 ELSE handouts[i]]
    /\ UNCHANGED stage

Settle(S, outcome) ==
    /\ \A i \in S : stage[i] = "waiting"
    /\ stage' = [i \in Ids |-> IF i \in S THEN outcome ELSE stage[i]]
    /\ UNCHANGED handouts

Complete(i) == Settle({i}, "done")
GiveUp(S)   == Settle(S, "dead")

(* A forgotten event keeps its number: it is never given out again.        *)
Forget(S) ==
    /\ \A i \in S : stage[i] \in {"done", "dead"}
    /\ stage' = [i \in Ids |-> IF i \in S THEN "forgotten" ELSE stage[i]]
    /\ handouts' = [i \in Ids |-> IF i \in S THEN 0 ELSE handouts[i]]

StartOver == Init'

Next == \/ \E i \in Ids : Accept(i) \/ Complete(i)
        \/ \E S \in SUBSET Ids : HandOut(S) \/ GiveUp(S) \/ Forget(S)
        \/ StartOver

Spec == Init /\ [][Next]_vars
=============================================================================
