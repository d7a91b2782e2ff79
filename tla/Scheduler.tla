----------------------------- MODULE Scheduler -----------------------------
(***************************************************************************)
(* When the agent's pipelines run: class Scheduler of                      *)
(* src/src/core/scheduler.ts with the decisions of pipeline-plan.ts and    *)
(* startup-sequence.ts.  What a run collects and sends is left out; a run  *)
(* starts, and ends or hangs.                                              *)
(*                                                                         *)
(* A run is "young" until WORKER_STUCK_TIMEOUT_MS after its start; one     *)
(* that goes on is a zombie.  The scheduler knows neither: it has a flag   *)
(* per pipeline and the time the flag was raised.                          *)
(***************************************************************************)
EXTENDS Integers, FiniteSets

CONSTANTS Keys,         \* the pipelines of the instance, among AllKeys
          Policies,     \* the policies that occur
          Hangs,        \* what an overdue run may do: "never" occurs, hangs
                        \* "forever", or does "return" in the end
          HangsAtBoot,  \* whether the run that start() awaits may hang too
          MaxYoung      \* bound: young runs of one pipeline

AllKeys == {"inventory", "update", "compliance", "cdp", "patch"}

ASSUME KeysAssumption == Keys \subseteq AllKeys /\ "inventory" \in Keys
ASSUME HangsAssumption == Hangs \subseteq {"never", "forever", "return"} /\ HangsAtBoot \in BOOLEAN
ASSUME MaxYoungAssumption == MaxYoung \in Nat \ {0}

(* A policy gives each pipeline a mode and an interval.  "armed" is a      *)
(* module without its plugin: the timer runs, the run does nothing; update *)
(* and cdp have only one switch.                                           *)
Modes(k) == IF k \in {"update", "cdp"} THEN {"off", "effective"} ELSE {"off", "armed", "effective"}

ASSUME PoliciesAssumption ==
    \A p \in Policies :
        /\ DOMAIN p = {"mode", "interval"}
        /\ p.mode \in [Keys -> {"off", "armed", "effective"}] /\ p.interval \in [Keys -> Nat \ {0}]
        /\ \A k \in Keys : p.mode[k] \in Modes(k)

VARIABLES phase,        \* "off", "booting" (start awaits an inventory), "running"
          policy,       \* what policyRuntime answers
          plan,         \* plan and capabilitySig: the policy last reconciled
          active,       \* pipelineActive
          timers,       \* timers[k]: the interval k was armed with, 0 without
          running,      \* inventoryRunning, complianceRunning, ...
          overdue,      \* the flag was raised longer ago than the timeout
          young,        \* young[k]: how many young runs of k are executing
          zombies,      \* zombies[k]: older runs of k are executing
          pending,      \* startupPending
          step,         \* the startup sequence: "none", "turn", "uptime", or
                        \* the pipeline whose run it awaits
          uptimeOk,     \* the machine has been up for ten minutes
          hang,         \* what an overdue run does in this behaviour
          scanned       \* history: k was asked to run since it became effective

planVars == <<policy, plan, active, timers>>
runVars == <<running, overdue, young, zombies, scanned>>
startupVars == <<pending, step>>
machineVars == <<uptimeOk, hang>>
vars == <<phase, planVars, runVars, startupVars, machineVars>>

-----------------------------------------------------------------------------
(* Policies and the plan they ask for.                                     *)

Armed(p) == {k \in Keys : p.mode[k] # "off"}
Effective(p) == {k \in Keys : p.mode[k] = "effective"}

(* Mutant: a change of the interval leaves the timer as it is.             *)
RearmArmedOnly(old, new) == {k \in Keys : k \in Armed(old) <=> k \notin Armed(new)}

(* diffPipelinePlan.                                                       *)
Rearm(old, new) ==
    {k \in Keys : \/ k \in Armed(old) <=> k \notin Armed(new)
                  \/ k \in Armed(new) /\ old.interval[k] # new.interval[k]}

(* Mutant: only the module's switch counts as becoming active.             *)
RunNowOnArmed(old, new) == Effective(new) \ Armed(old)

RunNow(old, new) == Effective(new) \ Effective(old)

(* STARTUP_SERIAL_ORDER.                                                   *)
Rank == [compliance |-> 1, cdp |-> 2, patch |-> 3]
Startup == Keys \cap DOMAIN Rank

TypeOK ==
    /\ phase \in {"off", "booting", "running"}
    /\ policy \in Policies /\ plan \in Policies
    /\ active \subseteq Keys /\ timers \in [Keys -> Nat]
    /\ running \in [Keys -> BOOLEAN] /\ overdue \in [Keys -> BOOLEAN]
    /\ young \in [Keys -> 0..MaxYoung] /\ zombies \in [Keys -> BOOLEAN]
    /\ pending \subseteq Startup /\ step \in Keys \cup {"none", "turn", "uptime"}
    /\ uptimeOk \in BOOLEAN /\ hang \in Hangs /\ scanned \in [Keys -> BOOLEAN]
    /\ \A k \in Keys : overdue[k] => running[k]

Init ==
    /\ phase = "off"
    /\ policy \in Policies /\ plan = policy
    /\ active = {} /\ timers = [k \in Keys |-> 0]
    /\ running = [k \in Keys |-> FALSE] /\ overdue = [k \in Keys |-> FALSE]
    /\ young = [k \in Keys |-> 0] /\ zombies = [k \in Keys |-> FALSE]
    /\ pending = {} /\ step = "none"
    /\ uptimeOk \in BOOLEAN /\ hang \in Hangs /\ scanned = [k \in Keys |-> FALSE]

-----------------------------------------------------------------------------
(* Runs.                                                                   *)

(* A turn of the startup sequence follows in the same stretch of the       *)
(* process as whatever led to it, so nothing comes in between.             *)
Quiet == step # "turn"

(* Mutant: nothing frees a flag whose run hangs.                           *)
ProceedsIfIdle(k) == ~running[k]

(* Mutant: the running flag is not looked at.                              *)
ProceedsAlways(k) == TRUE

(* checkStuckWorker.                                                       *)
Proceeds(k) == ~running[k] \/ overdue[k]

Starting(S, p) == {k \in S \cap Effective(p) : Proceeds(k)}

(* runInventory, runCompliance, ... for the pipelines of S under policy p, *)
(* up to their first await.                                                *)
RunPipelines(S, p) ==
    /\ \A k \in Starting(S, p) : young[k] < MaxYoung
    /\ young' = [k \in Keys |-> IF k \in Starting(S, p) THEN young[k] + 1 ELSE young[k]]
    /\ running' = [k \in Keys |-> running[k] \/ k \in Starting(S, p)]
    /\ overdue' = [k \in Keys |-> overdue[k] /\ k \notin Starting(S, p)]
    /\ scanned' = [k \in Keys |-> k \in Effective(p) /\ (scanned[k] \/ k \in S)]
    /\ UNCHANGED zombies

(* Mutant: the time of the start outlives the run.                         *)
FinallyKeepsAge(k) ==
    /\ running' = [running EXCEPT ![k] = FALSE]
    /\ UNCHANGED overdue

(* The finally of a run: the flag goes down, whoever raised it.            *)
Finally(k) ==
    /\ running' = [running EXCEPT ![k] = FALSE]
    /\ overdue' = [overdue EXCEPT ![k] = FALSE]

(* The sequence awaits the first run of k, which may be the one that ends. *)
Awaited(k, others) ==
    step' \in IF step # k THEN {step} ELSE IF others THEN {"turn", step} ELSE {"turn"}

RunEnds(k) ==
    /\ Quiet
    /\ young[k] > 0
    /\ young' = [young EXCEPT ![k] = @ - 1]
    /\ Finally(k)
    /\ Awaited(k, young[k] > 1 \/ zombies[k])
    /\ UNCHANGED <<phase, planVars, zombies, scanned, pending, machineVars>>

(* The oldest young run passes the timeout.  If the flag is up and no      *)
(* other run is young, the flag is this run's.  (While the sequence awaits *)
(* it, STARTUP_STEP_CAP_MS passes first; here the order is left open.)     *)
RunOverruns(k) ==
    /\ hang # "never"
    /\ phase = "running" \/ HangsAtBoot
    /\ Quiet
    /\ young[k] > 0
    /\ young' = [young EXCEPT ![k] = @ - 1]
    /\ zombies' = [zombies EXCEPT ![k] = TRUE]
    /\ overdue' = [overdue EXCEPT ![k] = running[k] /\ young[k] = 1]
    /\ UNCHANGED <<phase, planVars, running, scanned, startupVars, machineVars>>

ZombieEnds(k) ==
    /\ hang = "return"
    /\ Quiet
    /\ zombies[k]
    /\ Finally(k)
    /\ zombies' \in {zombies, [zombies EXCEPT ![k] = FALSE]}
    /\ Awaited(k, young[k] > 0 \/ zombies'[k])
    /\ UNCHANGED <<phase, planVars, young, scanned, pending, machineVars>>

-----------------------------------------------------------------------------
(* Starting.                                                               *)

(* start, up to the await of its first inventory.                          *)
Start ==
    /\ phase = "off"
    /\ phase' = "booting"
    /\ RunPipelines({"inventory"}, policy)
    /\ UNCHANGED <<planVars, startupVars, machineVars>>

(* The rest of start, and startPipelines.                                  *)
StartPipelines ==
    /\ phase = "booting"
    /\ young["inventory"] = 0 /\ ~zombies["inventory"]
    /\ phase' = "running"
    /\ plan' = policy
    /\ active' = Armed(policy)
    /\ timers' = [k \in Keys |-> IF k \in Armed(policy) THEN policy.interval[k] ELSE 0]
    /\ RunPipelines({"update"} \cap Armed(policy), policy)
    /\ pending' = Startup
    /\ step' = "turn"
    /\ UNCHANGED <<policy, machineVars>>

(* The sequence runs k if the plan of this moment has it.                  *)
TakeTurn(k) ==
    /\ pending' = pending \ {k}
    /\ RunPipelines({k} \cap Armed(plan), policy)
    /\ step' = IF k \in Starting(Armed(plan), policy) THEN k ELSE "turn"
    /\ UNCHANGED <<phase, planVars, machineVars>>

StartupTurn ==
    /\ step = "turn"
    /\ \E k \in pending :
          /\ \A j \in pending : Rank[j] >= Rank[k]
          /\ k # "patch" \/ uptimeOk
          /\ TakeTurn(k)

StartupWaits ==
    /\ step = "turn"
    /\ pending \subseteq {"patch"}
    /\ pending = {} \/ ~uptimeOk
    /\ step' = IF pending = {} THEN "none" ELSE "uptime"
    /\ UNCHANGED <<phase, planVars, runVars, pending, machineVars>>

UptimeReached ==
    /\ ~uptimeOk
    /\ Quiet
    /\ uptimeOk' = TRUE
    /\ UNCHANGED <<phase, planVars, runVars, startupVars, hang>>

StartupResumes ==
    /\ step = "uptime"
    /\ uptimeOk
    /\ TakeTurn("patch")

(* Mutant: the sequence waits for a step however long it takes.            *)
StartupNeverCapped == FALSE

(* withCap: the sequence leaves a step that takes over ten minutes.        *)
StartupCapped ==
    /\ step \in Keys
    /\ step' = "turn"
    /\ UNCHANGED <<phase, planVars, runVars, pending, machineVars>>

-----------------------------------------------------------------------------
(* Ticks and policies.                                                     *)

(* A timer fires, runs its pipeline and is armed again as it was.  It does *)
(* not ask for how long the machine has been up.                           *)
Tick(k) ==
    /\ phase = "running"
    /\ Quiet
    /\ k \in active
    /\ RunPipelines({k}, policy)
    /\ UNCHANGED <<phase, planVars, startupVars, machineVars>>

(* Mutant: the reconciler also runs what the startup sequence will run.    *)
ReconciledEagerly(p) ==
    (RunNow(plan, p) \ {"inventory"})
        \cup {k \in {"inventory"} : k \in RunNow(plan, p) \/ p.mode # plan.mode}

(* What a policy makes the reconciler run: pipelines that become           *)
(* effective, except those the startup sequence has still to run, and the  *)
(* inventory also when plugins or modules changed.                         *)
Reconciled(p) ==
    (RunNow(plan, p) \ ({"inventory"} \cup pending))
        \cup {k \in {"inventory"} : k \in RunNow(plan, p) \/ p.mode # plan.mode}

(* applyUpdate.  All its events call reconcilePipelines; the first one     *)
(* finds the whole difference, the others find none.                       *)
ApplyUpdate(p) ==
    /\ phase = "running"
    /\ Quiet
    /\ policy' = p /\ plan' = p
    /\ LET again == Rearm(plan, p) IN
          /\ active' = (active \ again) \cup (again \cap Armed(p))
          /\ timers' = [k \in Keys |-> IF k \notin again THEN timers[k]
                                       ELSE IF k \in Armed(p) THEN p.interval[k] ELSE 0]
    /\ RunPipelines(Reconciled(p), p)
    /\ UNCHANGED <<phase, startupVars, machineVars>>

(* Before start has come to bind its listeners nobody reconciles.          *)
ApplyUpdateUnheard(p) ==
    /\ phase = "booting"
    /\ policy' = p
    /\ scanned' = [k \in Keys |-> scanned[k] /\ k \in Effective(p)]
    /\ UNCHANGED <<phase, plan, active, timers, running, overdue, young, zombies,
                   startupVars, machineVars>>

-----------------------------------------------------------------------------
Next ==
    \/ Start
    \/ StartPipelines
    \/ StartupTurn
    \/ StartupWaits
    \/ StartupResumes
    \/ StartupCapped
    \/ UptimeReached
    \/ \E k \in Keys : Tick(k)
    \/ \E k \in Keys : RunEnds(k)
    \/ \E k \in Keys : RunOverruns(k)
    \/ \E k \in Keys : ZombieEnds(k)
    \/ \E p \in Policies : ApplyUpdate(p)
    \/ \E p \in Policies : ApplyUpdateUnheard(p)

Spec == Init /\ [][Next]_vars

(* The event loop goes on, timers fire, the machine stays up, and a run    *)
(* that does not end grows old.  Policies owe nothing, zombies neither.    *)
Fairness ==
    /\ WF_vars(Start) /\ WF_vars(StartPipelines)
    /\ WF_vars(StartupTurn) /\ WF_vars(StartupWaits) /\ WF_vars(StartupResumes)
    /\ WF_vars(StartupCapped) /\ WF_vars(UptimeReached)
    /\ \A k \in Keys : WF_vars(Tick(k)) /\ WF_vars(RunEnds(k) \/ RunOverruns(k))

FairSpec == Spec /\ Fairness

-----------------------------------------------------------------------------
(* Properties.                                                             *)

(* However many policies came one after the other, the differences applied *)
(* add up: timers and plan are what a fresh start under the policy in      *)
(* force would have armed.                                                 *)
PlanInForce ==
    phase = "running" =>
        /\ plan = policy
        /\ active = Armed(policy)
        /\ timers = [k \in Keys |-> IF k \in Armed(policy) THEN policy.interval[k] ELSE 0]

(* "pasa a hacer trabajo => re-armar y correr ya": a pipeline that does    *)
(* work was asked to run since it began to, or the startup sequence has it *)
(* in front of it.  (The inventory has its early first tick besides.)      *)
NoScanForgotten ==
    phase = "running" =>
        \A k \in Effective(policy) \ {"inventory"} : scanned[k] \/ k \in pending

(* "una policy que llega al conectar NO adelanta el escaneo que espera su  *)
(* turno": the first patch scan waits for ten minutes of machine uptime,   *)
(* whatever policies switch it on meanwhile; until then only the           *)
(* pipeline's own timer can start one (a policy may set it to five         *)
(* minutes, and a tick looks at no uptime).                                *)
PatchWaitsForUptime ==
    [][ \A k \in Keys \cap {"patch"} : young'[k] > young[k] => uptimeOk \/ Tick(k) ]_vars

(* A run of a pipeline that is not overdue is alone but for zombies that   *)
(* never return: checkStuckWorker lets the next run in only when the flag  *)
(* is old.                                                                 *)
Alone == \A k \in Keys : young[k] <= 1
AtMostOneYoung == hang # "return" => Alone

(* Nor does a zombie that returns let another run in: "the zombie's        *)
(* finally-block will set it to false again whenever it eventually         *)
(* unblocks (no-op vs our new run ...)".                                   *)
ZombieEndIsNoOp == Alone

(* A run that hangs does not shut its pipeline off: "force the flag down   *)
(* so the NEXT tick can start a clean run".  (Where overdue runs return,   *)
(* the bound on young runs would stop the sequence, here and below.)       *)
NeverShutOff ==
    hang # "return" => \A k \in Keys : <>[](k \in Effective(policy)) => []<>(young[k] > 0)

(* A step of the startup sequence that hangs does not keep the others from *)
(* their turn.                                                             *)
StartupEnds == hang # "return" => []<>(phase = "running" => pending = {})
=============================================================================
