-------------------------- MODULE SchedulerProofs --------------------------
(***************************************************************************)
(* Proofs about Scheduler, for every set of pipelines, every interval and  *)
(* every behaviour of hanging runs.                                        *)
(***************************************************************************)
EXTENDS Scheduler, TLAPS

(* The patch scan leaves the startup sequence's list only once the machine *)
(* has been up long enough; until then the reconciler finds it there.      *)
PatchPending ==
    phase = "running" /\ "patch" \in Keys \ pending => uptimeOk

IInv == TypeOK /\ PlanInForce /\ NoScanForgotten /\ PatchPending

(* Starting runs keeps the types of the run variables: a flag that goes up *)
(* is not overdue.                                                         *)
LEMMA RunsTyped ==
    ASSUME TypeOK, NEW S, NEW p \in Policies, RunPipelines(S, p)
    PROVE  /\ young' \in [Keys -> 0..MaxYoung]
           /\ running' \in [Keys -> BOOLEAN]
           /\ overdue' \in [Keys -> BOOLEAN]
           /\ scanned' \in [Keys -> BOOLEAN]
           /\ zombies' \in [Keys -> BOOLEAN]
           /\ \A k \in Keys : overdue'[k] => running'[k]
<1>1. young' \in [Keys -> 0..MaxYoung]
  <2>1. \A k \in Keys : young[k] \in 0..MaxYoung
    BY DEF TypeOK, machineVars
  <2>2. \A k \in Starting(S, p) : young[k] < MaxYoung
    BY DEF RunPipelines
  <2>3. \A k \in Keys :
           (IF k \in Starting(S, p) THEN young[k] + 1 ELSE young[k]) \in 0..MaxYoung
    BY <2>1, <2>2, MaxYoungAssumption
  <2> QED
    BY <2>3 DEF RunPipelines
<1>2. running' \in [Keys -> BOOLEAN] /\ scanned' \in [Keys -> BOOLEAN]
  BY DEF RunPipelines
<1>3. overdue' \in [Keys -> BOOLEAN] /\ zombies' \in [Keys -> BOOLEAN]
  BY DEF RunPipelines, TypeOK, machineVars
<1>4. \A k \in Keys : overdue'[k] => running'[k]
  BY DEF RunPipelines, TypeOK, machineVars
<1> QED
  BY <1>1, <1>2, <1>3, <1>4

(* The end of a run, its own or a zombie's, keeps the types.               *)
LEMMA FinallyTyped ==
    ASSUME TypeOK, NEW k \in Keys, Finally(k)
    PROVE  /\ running' \in [Keys -> BOOLEAN]
           /\ overdue' \in [Keys -> BOOLEAN]
           /\ \A j \in Keys : overdue'[j] => running'[j]
BY DEF Finally, TypeOK, machineVars


(* The policy in force is one of Policies, and so its timers are typed.    *)
LEMMA IntervalTyped ==
    ASSUME NEW p \in Policies, NEW k \in Keys
    PROVE  p.interval[k] \in Nat
BY PoliciesAssumption

LEMMA EffectiveArmed ==
    ASSUME NEW p \in Policies
    PROVE  Effective(p) \subseteq Armed(p) /\ Armed(p) \subseteq Keys
BY DEF Effective, Armed

-----------------------------------------------------------------------------
(* Types.                                                                  *)

LEMMA TypeInit == Init => TypeOK
BY MaxYoungAssumption DEF Init, TypeOK, machineVars

LEMMA TypeTakeTurn ==
    ASSUME TypeOK, NEW k \in Keys, TakeTurn(k)
    PROVE  TypeOK'
<1>1. RunPipelines({k} \cap Armed(plan), policy) /\ policy \in Policies
  BY DEF TakeTurn, TypeOK, machineVars
<1>2. step' \in Keys \cup {"none", "turn", "uptime"}
  BY DEF TakeTurn
<1> QED
  BY <1>1, <1>2, RunsTyped DEF TakeTurn, TypeOK, planVars, machineVars

LEMMA TypeApplyUpdate ==
    ASSUME TypeOK, NEW p \in Policies, ApplyUpdate(p)
    PROVE  TypeOK'
<1>1. RunPipelines(Reconciled(p), p)
  BY DEF ApplyUpdate
<1>2. active' \subseteq Keys
  BY EffectiveArmed DEF ApplyUpdate, TypeOK, machineVars
<1>3. timers' \in [Keys -> Nat]
  BY IntervalTyped DEF ApplyUpdate, TypeOK, machineVars
<1> QED
  BY <1>1, <1>2, <1>3, RunsTyped DEF ApplyUpdate, TypeOK, startupVars, machineVars

LEMMA TypeStartPipelines ==
    ASSUME TypeOK, StartPipelines
    PROVE  TypeOK'
<1>1. RunPipelines({"update"} \cap Armed(policy), policy) /\ policy \in Policies
  BY DEF StartPipelines, TypeOK, machineVars
<1>2. timers' \in [Keys -> Nat]
  BY <1>1, IntervalTyped DEF StartPipelines
<1> QED
  BY <1>1, <1>2, RunsTyped, EffectiveArmed DEF StartPipelines, TypeOK, machineVars

LEMMA TypeNext == TypeOK /\ [Next]_vars => TypeOK'
<1> SUFFICES ASSUME TypeOK, [Next]_vars PROVE TypeOK'
  OBVIOUS
<1>1. CASE Start
  <2>1. RunPipelines({"inventory"}, policy) /\ policy \in Policies
    BY <1>1 DEF Start, TypeOK, machineVars
  <2> QED
    BY <1>1, <2>1, RunsTyped DEF Start, TypeOK, planVars, startupVars, machineVars
<1>2. CASE StartPipelines
  BY <1>2, TypeStartPipelines
<1>3. CASE StartupTurn
  <2>1. PICK k \in pending : TakeTurn(k)
    BY <1>3 DEF StartupTurn
  <2>2. k \in Keys
    BY DEF TypeOK, Startup, machineVars
  <2> QED
    BY <2>1, <2>2, TypeTakeTurn
<1>4. CASE StartupWaits
  BY <1>4 DEF StartupWaits, TypeOK, planVars, runVars, machineVars
<1>5. CASE StartupResumes
  <2>1. TakeTurn("patch")
    BY <1>5 DEF StartupResumes
  <2>2. RunPipelines({"patch"} \cap Armed(plan), policy) /\ policy \in Policies
    BY <2>1 DEF TakeTurn, TypeOK, machineVars
  <2>3. step' \in Keys \cup {"none", "turn", "uptime"}
    BY <2>1 DEF TakeTurn, Starting, Effective
  <2> QED
    BY <2>1, <2>2, <2>3, RunsTyped DEF TakeTurn, TypeOK, planVars, machineVars
<1>6. CASE StartupCapped
  BY <1>6 DEF StartupCapped, TypeOK, planVars, runVars, machineVars
<1>7. CASE UptimeReached
  BY <1>7 DEF UptimeReached, TypeOK, planVars, runVars, startupVars, machineVars
<1>8. ASSUME NEW k \in Keys, Tick(k) PROVE TypeOK'
  <2>1. RunPipelines({k}, policy) /\ policy \in Policies
    BY <1>8 DEF Tick, TypeOK, machineVars
  <2> QED
    BY <1>8, <2>1, RunsTyped DEF Tick, TypeOK, planVars, startupVars, machineVars
<1>9. ASSUME NEW k \in Keys, RunEnds(k) PROVE TypeOK'
  <2>1. young' \in [Keys -> 0..MaxYoung]
    BY <1>9, MaxYoungAssumption DEF RunEnds, TypeOK, machineVars
  <2>2. Finally(k) /\ Awaited(k, young[k] > 1 \/ zombies[k])
    BY <1>9 DEF RunEnds
  <2>3. step' \in Keys \cup {"none", "turn", "uptime"}
    BY <2>2 DEF Awaited, TypeOK, machineVars
  <2> QED
    BY <1>9, <2>1, <2>2, <2>3, FinallyTyped DEF RunEnds, TypeOK, planVars, machineVars
<1>10. ASSUME NEW k \in Keys, RunOverruns(k) PROVE TypeOK'
  <2>1. young' \in [Keys -> 0..MaxYoung]
    BY <1>10, MaxYoungAssumption DEF RunOverruns, TypeOK, machineVars
  <2>2. /\ zombies' \in [Keys -> BOOLEAN] /\ overdue' \in [Keys -> BOOLEAN]
        /\ \A j \in Keys : overdue'[j] => running[j]
    BY <1>10 DEF RunOverruns, TypeOK, machineVars
  <2> QED
    BY <1>10, <2>1, <2>2 DEF RunOverruns, TypeOK, planVars, startupVars, machineVars
<1>11. ASSUME NEW k \in Keys, ZombieEnds(k) PROVE TypeOK'
  <2>1. zombies' \in [Keys -> BOOLEAN]
    BY <1>11 DEF ZombieEnds, TypeOK, machineVars
  <2>2. Finally(k) /\ Awaited(k, young[k] > 0 \/ zombies'[k])
    BY <1>11 DEF ZombieEnds
  <2>3. step' \in Keys \cup {"none", "turn", "uptime"}
    BY <2>2 DEF Awaited, TypeOK, machineVars
  <2> QED
    BY <1>11, <2>1, <2>2, <2>3, FinallyTyped DEF ZombieEnds, TypeOK, planVars, machineVars
<1>12. ASSUME NEW p \in Policies, ApplyUpdate(p) PROVE TypeOK'
  BY <1>12, TypeApplyUpdate
<1>13. ASSUME NEW p \in Policies, ApplyUpdateUnheard(p) PROVE TypeOK'
  BY <1>13 DEF ApplyUpdateUnheard, TypeOK, startupVars, machineVars
<1>14. CASE UNCHANGED vars
  BY <1>14 DEF vars, planVars, runVars, startupVars, machineVars, TypeOK
<1> QED
  BY <1>1, <1>2, <1>3, <1>4, <1>5, <1>6, <1>7, <1>8, <1>9, <1>10, <1>11, <1>12,
     <1>13, <1>14 DEF Next

-----------------------------------------------------------------------------
(* Plan, first scans and the uptime wait.                                  *)

LEMMA IInit == Init => IInv
<1> SUFFICES ASSUME Init PROVE IInv
  OBVIOUS
<1>1. TypeOK
  BY TypeInit
<1>2. PlanInForce /\ NoScanForgotten /\ PatchPending
  BY DEF Init, PlanInForce, NoScanForgotten, PatchPending
<1> QED
  BY <1>1, <1>2 DEF IInv

(* Three steps touch the plan or the policy.                               *)
LEMMA PlanStep == ASSUME IInv, [Next]_vars PROVE PlanInForce'
<1> USE DEF IInv
<1>1. CASE Start
  BY <1>1 DEF Start, PlanInForce
<1>2. CASE StartPipelines
  BY <1>2 DEF StartPipelines, PlanInForce
<1>3. ASSUME NEW p \in Policies, ApplyUpdate(p) PROVE PlanInForce'
  <2>1. PlanInForce /\ phase = "running" /\ p.interval \in [Keys -> Nat]
    BY <1>3, PoliciesAssumption DEF ApplyUpdate
  <2>2. active' = Armed(p)
    BY <1>3, <2>1 DEF ApplyUpdate, PlanInForce, Rearm, Armed
  <2>3. \A k \in Keys :
           (IF k \notin Rearm(plan, p) THEN timers[k]
            ELSE IF k \in Armed(p) THEN p.interval[k] ELSE 0)
             = (IF k \in Armed(p) THEN p.interval[k] ELSE 0)
    BY <2>1 DEF PlanInForce, Rearm
  <2>4. timers' = [k \in Keys |-> IF k \in Armed(p) THEN p.interval[k] ELSE 0]
    BY <1>3, <2>3 DEF ApplyUpdate
  <2> QED
    BY <1>3, <2>2, <2>4 DEF ApplyUpdate, PlanInForce
<1>4. ASSUME NEW p \in Policies, ApplyUpdateUnheard(p) PROVE PlanInForce'
  BY <1>4 DEF ApplyUpdateUnheard, PlanInForce
<1>5. CASE UNCHANGED <<phase, planVars>>
  BY <1>5 DEF PlanInForce, planVars
<1> QED
  BY <1>1, <1>2, <1>3, <1>4, <1>5
     DEF Next, StartupTurn, StartupWaits, StartupResumes, StartupCapped, TakeTurn,
         UptimeReached, Tick, RunEnds, RunOverruns, ZombieEnds, vars

(* A turn of the startup sequence removes k from its list and asks it to   *)
(* run, under the same plan.                                               *)
LEMMA TurnScans ==
    ASSUME IInv, NEW k, TakeTurn(k)
    PROVE  NoScanForgotten'
<1> SUFFICES ASSUME phase' = "running", NEW j \in Effective(policy') \ {"inventory"}
             PROVE  scanned'[j] \/ j \in pending'
  BY DEF NoScanForgotten
<1>1. phase = "running" /\ policy' = policy /\ plan = policy /\ policy \in Policies
  BY DEF TakeTurn, planVars, IInv, PlanInForce, TypeOK, machineVars
<1>2. j \in Keys /\ j \in Effective(policy) /\ j \in Armed(plan)
  BY <1>1, EffectiveArmed DEF Effective
<1>3. scanned[j] \/ j \in pending
  BY <1>1, <1>2 DEF IInv, NoScanForgotten
<1>4. scanned'[j] = (scanned[j] \/ j \in {k} \cap Armed(plan))
  BY <1>2 DEF TakeTurn, RunPipelines
<1> QED
  BY <1>2, <1>3, <1>4 DEF TakeTurn

LEMMA ScanStep == ASSUME IInv, [Next]_vars PROVE NoScanForgotten'
<1>1. CASE Start
  BY <1>1 DEF Start, NoScanForgotten
<1>2. CASE StartPipelines
  <2> SUFFICES ASSUME NEW k \in Effective(policy') \ {"inventory"}
               PROVE  scanned'[k] \/ k \in pending'
    BY DEF NoScanForgotten
  <2>1. policy' = policy /\ policy \in Policies /\ pending' = Startup
    BY <1>2 DEF StartPipelines, IInv, TypeOK, machineVars
  <2>2. k \in Keys /\ k \in Armed(policy)
    BY <2>1, EffectiveArmed DEF Effective
  <2>3. CASE k = "update"
    BY <1>2, <2>1, <2>2, <2>3 DEF StartPipelines, RunPipelines
  <2>4. CASE k # "update"
    BY <2>1, <2>2, <2>4, KeysAssumption DEF Startup, Rank, AllKeys
  <2> QED
    BY <2>3, <2>4
<1>3. CASE StartupTurn
  BY <1>3, TurnScans DEF StartupTurn
<1>4. CASE StartupResumes
  BY <1>4, TurnScans DEF StartupResumes
<1>5. ASSUME NEW k \in Keys, Tick(k) PROVE NoScanForgotten'
  <2>1. \A j \in Keys : j \in Effective(policy) => (scanned[j] => scanned'[j])
    BY <1>5 DEF Tick, RunPipelines
  <2> QED
    BY <1>5, <2>1 DEF Tick, NoScanForgotten, IInv, planVars, startupVars, Effective
<1>6. ASSUME NEW p \in Policies, ApplyUpdate(p) PROVE NoScanForgotten'
  <2> SUFFICES ASSUME NEW k \in Effective(p) \ {"inventory"}
               PROVE  scanned'[k] \/ k \in pending
    BY <1>6 DEF NoScanForgotten, ApplyUpdate, startupVars
  <2>1. k \in Keys /\ scanned'[k] = (scanned[k] \/ k \in Reconciled(p))
    BY <1>6 DEF ApplyUpdate, RunPipelines, Effective
  <2>2. CASE k \in Effective(plan)
    BY <1>6, <2>1, <2>2 DEF ApplyUpdate, IInv, NoScanForgotten, PlanInForce
  <2>3. CASE k \notin Effective(plan)
    BY <2>1, <2>3 DEF Reconciled, RunNow
  <2> QED
    BY <2>2, <2>3
<1>7. ASSUME NEW p \in Policies, ApplyUpdateUnheard(p) PROVE NoScanForgotten'
  BY <1>7 DEF ApplyUpdateUnheard, NoScanForgotten
<1>8. CASE UNCHANGED <<phase, policy, scanned, pending>>
  BY <1>8 DEF NoScanForgotten, IInv
<1> QED
  BY <1>1, <1>2, <1>3, <1>4, <1>5, <1>6, <1>7, <1>8
     DEF Next, StartupWaits, StartupCapped, UptimeReached, RunEnds, RunOverruns, ZombieEnds,
         vars, planVars, runVars, startupVars

LEMMA PatchStep == ASSUME IInv, [Next]_vars PROVE PatchPending'
<1>1. CASE StartPipelines
  BY <1>1 DEF StartPipelines, PatchPending, Startup, Rank
<1>2. CASE StartupTurn
  BY <1>2 DEF StartupTurn, TakeTurn, PatchPending, IInv, machineVars
<1>3. CASE StartupResumes
  BY <1>3 DEF StartupResumes, TakeTurn, PatchPending, machineVars
<1>4. CASE UptimeReached
  BY <1>4 DEF UptimeReached, PatchPending
<1>5. CASE Start
  BY <1>5 DEF Start, PatchPending
<1>6. CASE UNCHANGED <<phase, pending, uptimeOk>>
  BY <1>6 DEF PatchPending, IInv
<1> QED
  BY <1>1, <1>2, <1>3, <1>4, <1>5, <1>6
     DEF Next, StartupWaits, StartupCapped, Tick, RunEnds, RunOverruns, ZombieEnds,
         ApplyUpdate, ApplyUpdateUnheard, vars, startupVars, machineVars

LEMMA INext == IInv /\ [Next]_vars => IInv'
<1> SUFFICES ASSUME IInv, [Next]_vars PROVE IInv'
  OBVIOUS
<1>1. TypeOK'
  BY TypeNext DEF IInv
<1> QED
  BY <1>1, PlanStep, ScanStep, PatchStep DEF IInv

(* Runs start only for the pipelines a step asks for.                      *)
LEMMA OnlyAskedStart ==
    ASSUME TypeOK, NEW S, NEW p, RunPipelines(S, p), "patch" \in Keys, "patch" \notin S
    PROVE  young'["patch"] = young["patch"]
BY DEF RunPipelines, Starting

LEMMA PatchWaits == IInv /\ [Next]_vars =>
    [\A k \in Keys \cap {"patch"} : young'[k] > young[k] => uptimeOk \/ Tick(k)]_vars
<1> SUFFICES ASSUME IInv, Next, "patch" \in Keys, young'["patch"] > young["patch"], ~uptimeOk,
                    ~Tick("patch")
             PROVE  FALSE
  OBVIOUS
<1>1. young["patch"] \in Nat /\ TypeOK /\ young \in [Keys -> 0..MaxYoung]
  BY MaxYoungAssumption DEF IInv, TypeOK, machineVars
<1>2. ~Start
  BY <1>1, OnlyAskedStart DEF Start
<1>3. ~StartPipelines
  BY <1>1, OnlyAskedStart DEF StartPipelines
<1>4. ~StartupTurn
  <2> SUFFICES ASSUME NEW k \in pending, k # "patch", TakeTurn(k) PROVE FALSE
    BY DEF StartupTurn
  <2>1. RunPipelines({k} \cap Armed(plan), policy)
    BY DEF TakeTurn
  <2> QED
    BY <1>1, <2>1, OnlyAskedStart
<1>5. ~StartupResumes /\ ~StartupWaits /\ ~StartupCapped /\ ~UptimeReached
  BY <1>1 DEF StartupResumes, StartupWaits, StartupCapped, UptimeReached, runVars
<1>6. ASSUME NEW k \in Keys, Tick(k) PROVE FALSE
  <2>1. k # "patch" /\ RunPipelines({k}, policy)
    BY <1>6 DEF Tick
  <2> QED
    BY <1>1, <2>1, OnlyAskedStart
<1>7. ASSUME NEW k \in Keys, RunEnds(k) \/ RunOverruns(k) PROVE FALSE
  <2>1. young' = [young EXCEPT ![k] = @ - 1]
    BY <1>7 DEF RunEnds, RunOverruns
  <2>2. CASE k = "patch"
    BY <1>1, <2>1, <2>2
  <2>3. CASE k # "patch"
    BY <1>1, <2>1, <2>3
  <2> QED
    BY <2>2, <2>3
<1>8. ASSUME NEW k \in Keys, ZombieEnds(k) PROVE FALSE
  BY <1>1, <1>8 DEF ZombieEnds
<1>9. ASSUME NEW p \in Policies, ApplyUpdate(p) PROVE FALSE
  <2>1. "patch" \in pending /\ RunPipelines(Reconciled(p), p)
    BY <1>9 DEF ApplyUpdate, IInv, PatchPending
  <2>2. "patch" \notin Reconciled(p)
    BY <2>1 DEF Reconciled
  <2> QED
    BY <1>1, <2>1, <2>2, OnlyAskedStart
<1>10. ASSUME NEW p \in Policies, ApplyUpdateUnheard(p) PROVE FALSE
  BY <1>1, <1>10 DEF ApplyUpdateUnheard
<1> QED
  BY <1>2, <1>3, <1>4, <1>5, <1>6, <1>7, <1>8, <1>9, <1>10 DEF Next

-----------------------------------------------------------------------------

(* The variables have their types, and a flag that is overdue is up.       *)
THEOREM TypeCorrect == Spec => []TypeOK
<1>1. Init => TypeOK
  BY TypeInit
<1>2. TypeOK /\ [Next]_vars => TypeOK'
  BY TypeNext
<1> QED
  BY <1>1, <1>2, PTL DEF Spec

LEMMA Invariance == Spec => []IInv
BY IInit, INext, PTL DEF Spec

(* Incremental reconciliation adds up to the policy in force.              *)
THEOREM PlanAlwaysInForce == Spec => []PlanInForce
<1>1. IInv => PlanInForce
  BY DEF IInv
<1> QED
  BY <1>1, Invariance, PTL

(* A pipeline that became effective was asked to run or is still in front  *)
(* of the startup sequence.                                                *)
THEOREM FirstScansAsked == Spec => []NoScanForgotten
<1>1. IInv => NoScanForgotten
  BY DEF IInv
<1> QED
  BY <1>1, Invariance, PTL

(* Until the machine has been up long enough no policy and no turn of the  *)
(* startup sequence starts a patch scan: only the pipeline's own timer     *)
(* can.                                                                    *)
THEOREM PatchScanWaits == Spec => PatchWaitsForUptime
BY Invariance, PatchWaits, PTL DEF Spec, PatchWaitsForUptime

-----------------------------------------------------------------------------
(* One young run at a time.                                                *)

(* A young run has its pipeline's flag up, and the flag is as young as it  *)
(* is, so that the next run does not proceed.                              *)
YoungHoldsFlag ==
    \A k \in Keys : young[k] <= 1 /\ (young[k] = 1 => running[k] /\ ~overdue[k])

(* A run starts only where the flag is down or old, that is where no run   *)
(* is young.                                                               *)
LEMMA RunPipelinesAlone ==
    ASSUME TypeOK, YoungHoldsFlag, NEW S, NEW p, RunPipelines(S, p)
    PROVE  YoungHoldsFlag'
<1> SUFFICES ASSUME NEW k \in Keys
             PROVE  young'[k] <= 1 /\ (young'[k] = 1 => running'[k] /\ ~overdue'[k])
  BY DEF YoungHoldsFlag
<1>1. young[k] \in Nat /\ young[k] <= 1 /\ (young[k] = 1 => running[k] /\ ~overdue[k])
  BY DEF TypeOK, YoungHoldsFlag
<1>2. CASE k \in Starting(S, p)
  <2>1. young[k] = 0
    BY <1>1, <1>2 DEF Starting, Proceeds
  <2>2. young'[k] = young[k] + 1 /\ running'[k] /\ ~overdue'[k]
    BY <1>2 DEF RunPipelines
  <2> QED
    BY <2>1, <2>2
<1>3. CASE k \notin Starting(S, p)
  <2>1. young'[k] = young[k]
    BY <1>3 DEF RunPipelines
  <2>2. (running[k] => running'[k]) /\ (overdue'[k] => overdue[k])
    BY DEF RunPipelines
  <2> QED
    BY <1>1, <2>1, <2>2
<1> QED
  BY <1>2, <1>3

LEMMA AloneStep ==
    ASSUME TypeOK, hang # "return" => YoungHoldsFlag, [Next]_vars
    PROVE  hang' # "return" => YoungHoldsFlag'
<1>1. hang' = hang
  BY DEF Next, Start, StartPipelines, StartupTurn, StartupWaits, StartupResumes, StartupCapped,
         TakeTurn, UptimeReached, Tick, RunEnds, RunOverruns, ZombieEnds, ApplyUpdate,
         ApplyUpdateUnheard, machineVars, vars
<1> SUFFICES ASSUME hang # "return", YoungHoldsFlag PROVE YoungHoldsFlag'
  BY <1>1
<1>2. ASSUME NEW S, NEW p, RunPipelines(S, p) PROVE YoungHoldsFlag'
  BY <1>2, RunPipelinesAlone
<1>3. CASE Start
  BY <1>2, <1>3 DEF Start
<1>4. CASE StartPipelines
  BY <1>2, <1>4 DEF StartPipelines
<1>5. CASE StartupTurn \/ StartupResumes
  BY <1>2, <1>5 DEF StartupTurn, StartupResumes, TakeTurn
<1>6. CASE \E k \in Keys : Tick(k)
  BY <1>2, <1>6 DEF Tick
<1>7. CASE \E p \in Policies : ApplyUpdate(p)
  BY <1>2, <1>7 DEF ApplyUpdate
<1>8. ASSUME NEW k \in Keys, RunEnds(k) \/ RunOverruns(k) PROVE YoungHoldsFlag'
  <2>1. young[k] \in Nat /\ young[k] > 0 /\ young[k] <= 1
    BY <1>8 DEF RunEnds, RunOverruns, TypeOK, YoungHoldsFlag
  <2>2. young' = [young EXCEPT ![k] = 0]
    BY <1>8, <2>1 DEF RunEnds, RunOverruns
  <2>3. \A j \in Keys \ {k} : running'[j] = running[j] /\ overdue'[j] = overdue[j]
    BY <1>8 DEF RunEnds, RunOverruns, Finally, TypeOK
  <2> QED
    BY <2>2, <2>3 DEF YoungHoldsFlag, TypeOK
<1>9. CASE UNCHANGED <<young, running, overdue>>
  BY <1>9 DEF YoungHoldsFlag
<1>10. ASSUME NEW k \in Keys, ZombieEnds(k) PROVE FALSE
  BY <1>10 DEF ZombieEnds
<1> QED
  BY <1>3, <1>4, <1>5, <1>6, <1>7, <1>8, <1>9, <1>10
     DEF Next, StartupWaits, StartupCapped, UptimeReached, ApplyUpdateUnheard, runVars, vars

(* checkStuckWorker: whatever ticks, policies and startup turns ask for, a *)
(* run that is not overdue is alone, but for zombies that never return.    *)
THEOREM YoungRunsAlone == Spec => []AtMostOneYoung
<1>1. Init => (hang # "return" => YoungHoldsFlag)
  BY DEF Init, YoungHoldsFlag
<1>2. TypeOK /\ (hang # "return" => YoungHoldsFlag) /\ [Next]_vars
        => (hang # "return" => YoungHoldsFlag)'
  BY AloneStep
<1>3. (hang # "return" => YoungHoldsFlag) => AtMostOneYoung
  BY DEF YoungHoldsFlag, AtMostOneYoung, Alone
<1> QED
  BY <1>1, <1>2, <1>3, TypeCorrect, PTL DEF Spec
=============================================================================
