----------------------------- MODULE JobsProofs -----------------------------
(***************************************************************************)
(* Proofs about Jobs, for every set of jobs and every assignment of kinds. *)
(***************************************************************************)
EXTENDS Jobs, TLAPS

(* An end keeps the types of what it touches.                              *)
LEMMA EndTyped ==
    ASSUME TypeOK, NEW e \in Execs, NEW status \in {"done", "failed", "retry"},
           End(e, status)
    PROVE  /\ pc' \in [Execs -> {"none", "baseline", "call", "fetch", "post"}]
           /\ result' \in [Execs -> {"none", "success", "nomatch", "failed", "pending_reboot"}]
           /\ told' \in [Jobs -> {"nothing", "done", "failed"}]
<1>1. Job(e) \in Jobs
  BY DEF Execs, Job
<1>2. told' \in [Jobs -> {"nothing", "done", "failed"}]
  BY <1>1 DEF End, Answer, TypeOK
<1> QED
  BY <1>2 DEF End, TypeOK

LEMMA ReleaseTyped ==
    ASSUME TypeOK, NEW e \in Execs
    PROVE  Release(e) \subseteq Locking \cup {"update"}
BY DEF Release, TypeOK

LEMMA SetPmpTyped ==
    ASSUME TypeOK, NEW status \in {"idle", "in_progress", "success", "failed"}, SetPmp(status)
    PROVE  /\ pmp' \in [status : {"idle", "in_progress", "success", "failed"},
                     job : Jobs \cup {None}, restarted : BOOLEAN, ack : Jobs \cup {None}]
           /\ unwritten' \subseteq {"opening", "closing"}
BY DEF SetPmp, TypeOK

LEMMA CatchTyped ==
    ASSUME TypeOK, CatchWrites
    PROVE  /\ pmp' \in [status : {"idle", "in_progress", "success", "failed"},
                        job : Jobs \cup {None}, restarted : BOOLEAN, ack : Jobs \cup {None}]
           /\ unwritten' \subseteq {"opening", "closing"}
BY SetPmpTyped DEF CatchWrites, TypeOK

LEMMA RestartTyped ==
    ASSUME TypeOK, AgentRestarts
    PROVE  /\ pc' \in [Execs -> {"none", "baseline", "call", "fetch", "post"}]
           /\ result' \in [Execs -> {"none", "success", "nomatch", "failed", "pending_reboot"}]
           /\ flags' \subseteq Locking \cup {"update"}
           /\ up' \in BOOLEAN
           /\ pmp' \in [status : {"idle", "in_progress", "success", "failed"},
                        job : Jobs \cup {None}, restarted : BOOLEAN, ack : Jobs \cup {None}]
           /\ unwritten' \subseteq {"opening", "closing"}
<1>1. pmp' \in [status : {"idle", "in_progress", "success", "failed"},
                job : Jobs \cup {None}, restarted : BOOLEAN, ack : Jobs \cup {None}]
  <2>1. CASE pmp' = ReconcileStalePmpState
    BY <2>1 DEF ReconcileStalePmpState, TypeOK
  <2>2. CASE UNCHANGED pmp
    BY <2>2 DEF TypeOK
  <2> QED
    BY <2>1, <2>2 DEF AgentRestarts
<1>2. /\ unwritten' \subseteq {"opening", "closing"} /\ up' \in BOOLEAN
      /\ flags' \subseteq Locking \cup {"update"}
  BY DEF AgentRestarts
<1>3. /\ pc' \in [Execs -> {"none", "baseline", "call", "fetch", "post"}]
      /\ result' \in [Execs -> {"none", "success", "nomatch", "failed", "pending_reboot"}]
  BY DEF AgentRestarts
<1> QED
  BY <1>1, <1>2, <1>3

LEMMA OperationsTyped ==
    ASSUME TypeOK
    PROVE  Operations \subseteq Jobs
BY DEF Operations, TypeOK, Execs, Job

(* Every state has the types TypeOK gives (Init, and each action of Next). *)
THEOREM TypeCorrect == Spec => []TypeOK
<1>1. Init => TypeOK
  <2> SUFFICES ASSUME Init PROVE TypeOK
    OBVIOUS
  <2>1. /\ pc \in [Execs -> {"none", "baseline", "call", "fetch", "post"}]
        /\ result \in [Execs -> {"none", "success", "nomatch", "failed", "pending_reboot"}]
        /\ told \in [Jobs -> {"nothing", "done", "failed"}]
    BY DEF Init
  <2>2. pmp \in [status : {"idle", "in_progress", "success", "failed"},
                 job : Jobs \cup {None}, restarted : BOOLEAN, ack : Jobs \cup {None}]
    BY DEF Init
  <2> QED
    BY <2>1, <2>2 DEF Init, TypeOK
<1>2. TypeOK /\ [Next]_vars => TypeOK'
  <2> SUFFICES ASSUME TypeOK, [Next]_vars PROVE TypeOK'
    OBVIOUS
  <2> USE DEF agentVars, fileVars, deviceVars
  <2>1. ASSUME NEW e \in Execs, Dispatched(e) PROVE TypeOK'
    <3>1. Job(e) \in Jobs
      BY DEF Execs, Job
    <3>2. CASE PatchReplayed(e)
      BY <3>1, <3>2 DEF PatchReplayed, Answer, TypeOK
    <3>3. CASE PatchStarts(e)
      BY <3>1, <3>3 DEF PatchStarts, TypeOK, Locking
    <3>4. CASE BaselineFirst(e)
      BY <3>4 DEF BaselineFirst, TypeOK
    <3>5. CASE RebootAccepted(e)
      BY <3>5 DEF RebootAccepted, TypeOK
    <3>6. CASE UpdateStarts(e)
      BY <3>6 DEF UpdateStarts, TypeOK
    <3>7. CASE PatchCannotStart(e)
      BY <3>1, <3>7 DEF PatchCannotStart, Answer, TypeOK, Locking
    <3> QED
      BY <2>1, <3>2, <3>3, <3>4, <3>5, <3>6, <3>7 DEF Dispatched
  <2>2. ASSUME NEW e \in Execs, GoesOn(e) PROVE TypeOK'
    <3>1. Job(e) \in Jobs
      BY DEF Execs, Job
    <3>2. CASE Calls(e)
      BY <3>2 DEF Calls, TypeOK
    <3>3. CASE Busy(e)
      BY <3>3, EndTyped, ReleaseTyped DEF Busy, TypeOK
    <3>4. CASE OperationEnds(e)
      BY <3>1, <3>4, EndTyped, ReleaseTyped DEF OperationEnds, TypeOK
    <3>5. CASE PatchAnswered(e)
      BY <3>1, <3>5, SetPmpTyped DEF PatchAnswered, Outcomes, TypeOK
    <3>6. ASSUME NEW restart \in BOOLEAN, PatchEnds(e, restart) PROVE TypeOK'
      <4>1. /\ armed' \in BOOLEAN /\ flags' \subseteq Locking \cup {"update"}
        BY <3>6, ReleaseTyped DEF PatchEnds, TypeOK
      <4>2. \E status \in {"done", "failed", "retry"} : End(e, status)
        BY <3>6 DEF PatchEnds
      <4>3. needsReboot' \in BOOLEAN
        BY <3>6 DEF PatchEnds, TypeOK
      <4>4. /\ pmp' \in [status : {"idle", "in_progress", "success", "failed"},
                         job : Jobs \cup {None}, restarted : BOOLEAN, ack : Jobs \cup {None}]
            /\ unwritten' \subseteq {"opening", "closing"}
        <5>1. CASE SetPmp("idle") \/ CatchWrites
          BY <5>1, SetPmpTyped, CatchTyped
        <5>2. CASE (pmp' = pmp \/ pmp' = RememberSuccessAck(Job(e))) /\ UNCHANGED unwritten
          BY <5>2, <3>1 DEF RememberSuccessAck, TypeOK
        <5> QED
          BY <3>6, <5>1, <5>2 DEF PatchEnds
      <4> QED
        BY <3>6, <4>1, <4>2, <4>3, <4>4, EndTyped DEF PatchEnds, TypeOK
    <3>7. CASE RebootArms(e)
      <4>1. \E status \in {"done", "failed"} : End(e, status)
        BY <3>7 DEF RebootArms
      <4>2. armed' \in BOOLEAN
        BY <3>7 DEF RebootArms, TypeOK
      <4> QED
        BY <3>7, <4>1, <4>2, EndTyped DEF RebootArms, TypeOK
    <3>8. CASE UpdateEnds(e)
      <4>1. \E status \in {"done", "failed"} : End(e, status)
        BY <3>8 DEF UpdateEnds
      <4>2. installer' \in BOOLEAN /\ flags' \subseteq Locking \cup {"update"}
        BY <3>8, ReleaseTyped DEF UpdateEnds, TypeOK
      <4> QED
        BY <3>8, <4>1, <4>2, EndTyped DEF UpdateEnds, TypeOK
    <3> QED
      BY <2>2, <3>2, <3>3, <3>4, <3>5, <3>6, <3>7, <3>8 DEF GoesOn
  <2>3. ASSUME NEW e \in Execs, Reject(e) PROVE TypeOK'
    BY <2>3 DEF Reject, Answer, TypeOK, Execs, Job
  <2>4. ASSUME NEW e \in Execs, PatchBusy(e) PROVE TypeOK'
    BY <2>4, EndTyped, ReleaseTyped, SetPmpTyped DEF PatchBusy, TypeOK
  <2>5. ASSUME NEW e \in Execs, CallFails(e) PROVE TypeOK'
    <3>1. Job(e) \in Jobs
      BY DEF Execs, Job
    <3>2. \E status \in {"failed", "retry"} : End(e, status)
      BY <2>5 DEF CallFails
    <3>3. /\ pmp' \in [status : {"idle", "in_progress", "success", "failed"},
                       job : Jobs \cup {None}, restarted : BOOLEAN, ack : Jobs \cup {None}]
          /\ unwritten' \subseteq {"opening", "closing"}
      BY <2>5, CatchTyped DEF CallFails, TypeOK
    <3>4. orphans' \subseteq Jobs
      BY <2>5, <3>1 DEF CallFails, TypeOK
    <3> QED
      BY <2>5, <3>2, <3>3, <3>4, EndTyped, ReleaseTyped DEF CallFails, TypeOK
  <2>13. ASSUME NEW e \in Execs, PatchUnrecorded(e) PROVE TypeOK'
    <3>1. effect' \subseteq Jobs
      BY <2>13 DEF PatchUnrecorded, TypeOK, Execs, Job
    <3> QED
      BY <2>13, <3>1, EndTyped, ReleaseTyped, CatchTyped DEF PatchUnrecorded, TypeOK
  <2>6. ASSUME NEW j \in Jobs, OrphanEnds(j) \/ OperatorRetry(j) PROVE TypeOK'
    BY <2>6 DEF OrphanEnds, OperatorRetry, TypeOK
  <2>7. CASE AgentCrashes
    BY <2>7, RestartTyped, OperationsTyped DEF AgentCrashes, TypeOK
  <2>8. CASE DeviceRestarts
    BY <2>8, RestartTyped, OperationsTyped DEF DeviceRestarts, BothRestart, TypeOK
  <2>9. CASE InstallerRuns
    BY <2>9, RestartTyped, OperationsTyped DEF InstallerRuns, BothRestart, TypeOK
  <2>10. CASE Disconnect \/ BecomesCalm
    BY <2>10 DEF Disconnect, BecomesCalm, TypeOK
  <2>11. CASE Connect
    <3>1. \A e \in Execs : <<e[1], "now">> \in Execs
      BY DEF Execs, Streams
    <3> QED
      BY <2>11, <3>1 DEF Connect, TypeOK
  <2>12. CASE UNCHANGED vars
    BY <2>12 DEF vars, TypeOK
  <2> QED
    BY <2>1, <2>2, <2>3, <2>4, <2>5, <2>6, <2>7, <2>8, <2>9, <2>10, <2>11, <2>12, <2>13 DEF Next
<1> QED
  BY <1>1, <1>2, PTL DEF Spec

-----------------------------------------------------------------------------
(* The locks.                                                              *)

(* What runs where: only an install scans after its call, only an update   *)
(* of the agent downloads, and an update is never at a baseline.           *)
KindsAt ==
    \A e \in Execs :
        /\ pc[e] = "post" => Kind(e) = "patch"
        /\ pc[e] = "fetch" => Kind(e) = "update"
        /\ pc[e] = "call" => Kind(e) \in Locking

(* A lock that was left behind keeps every install out.                    *)
LeakIsAlone == "opening" \in unwritten => \A e \in Execs : ~(Holds(e) /\ Kind(e) = "patch")

Locks == KindsAt /\ LocksHaveOwners /\ CrossLocks /\ LeakIsAlone

(* The opening write is the same failed write after the step as before.    *)
SameOpening == "opening" \in unwritten' <=> "opening" \in unwritten

LEMMA WritesSameOpening ==
    ASSUME \/ CatchWrites \/ \E s : SetPmp(s) \/ UNCHANGED unwritten
    PROVE  SameOpening
BY DEF CatchWrites, SetPmp, SameOpening

(* A step of one execution leaves the locks of the others alone.           *)
LEMMA OthersHold ==
    ASSUME TypeOK, NEW e \in Execs, NEW s, pc' = [pc EXCEPT ![e] = s], UNCHANGED kind
    PROVE  /\ \A f \in Execs : Kind(f)' = Kind(f)
           /\ \A f \in Execs \ {e} : pc'[f] = pc[f] /\ (Holds(f)' <=> Holds(f))
           /\ pc'[e] = s
BY DEF TypeOK, Kind, Holds, Job

(* An execution that ends gives up its lock and no other.                  *)
LEMMA EndKeepsLocks ==
    ASSUME TypeOK, Locks, NEW e \in Execs, pc' = [pc EXCEPT ![e] = "none"], UNCHANGED kind,
           flags' = Release(e), ~(pc[e] = "baseline" /\ Kind(e) = "patch"), SameOpening
    PROVE  Locks'
<1>1. /\ \A f \in Execs : Kind(f)' = Kind(f)
      /\ \A f \in Execs \ {e} : pc'[f] = pc[f] /\ (Holds(f)' <=> Holds(f))
      /\ pc'[e] = "none"
  BY OthersHold
<1>2. KindsAt' /\ CrossLocks'
  <2>1. KindsAt'
    BY <1>1 DEF Locks, KindsAt
  <2>2. ~Holds(e)'
    BY <1>1 DEF Holds
  <2> QED
    BY <1>1, <2>1, <2>2 DEF Locks, CrossLocks
<1>3. LocksHaveOwners'
  <2>1. CASE Holds(e)
    <3>1. flags' = flags \ {Kind(e)}
      BY <2>1 DEF Release, Holds
    <3>2. \A f \in Execs \ {e} : Holds(f) => Kind(f) # Kind(e)
      BY <2>1 DEF Locks, CrossLocks, Exclude
    <3>3. Kind(e) = "patch" => "opening" \notin unwritten'
      BY <2>1 DEF Locks, LeakIsAlone, SameOpening
    <3> QED
      BY <1>1, <3>1, <3>2, <3>3 DEF Locks, LocksHaveOwners, Holds, SameOpening
  <2>2. CASE ~Holds(e)
    <3>1. flags' = flags
      BY <2>2 DEF Release, Holds
    <3> QED
      BY <1>1, <2>2, <3>1 DEF Locks, LocksHaveOwners, Holds, SameOpening
  <2> QED
    BY <2>1, <2>2
<1>4. LeakIsAlone'
  BY <1>1 DEF Locks, LeakIsAlone, SameOpening, Holds
<1> QED
  BY <1>2, <1>3, <1>4 DEF Locks

(* A lock is taken when none of those it excludes is raised.               *)
LEMMA TakeKeepsLocks ==
    ASSUME TypeOK, Locks, NEW e \in Execs, NEW s \in {"baseline", "call", "fetch"},
           pc' = [pc EXCEPT ![e] = s], UNCHANGED kind, ~Holds(e), Holds(e)',
           Kind(e) \in Kinds, s = "call" => Kind(e) \in Locking, s = "fetch" => Kind(e) = "update",
           flags' = flags \cup {Kind(e)}, \A k \in flags : ~Exclude(k, Kind(e)), SameOpening
    PROVE  Locks'
<1>1. /\ \A f \in Execs : Kind(f)' = Kind(f)
      /\ \A f \in Execs \ {e} : pc'[f] = pc[f] /\ (Holds(f)' <=> Holds(f))
      /\ pc'[e] = s
  BY OthersHold
<1>2. KindsAt'
  BY <1>1 DEF Locks, KindsAt
<1>3. LocksHaveOwners'
  BY <1>1 DEF Locks, LocksHaveOwners, SameOpening
<1>4. CrossLocks'
  <2>1. \A f \in Execs : Kind(f) \in Kinds
    BY WorldsAssumption DEF TypeOK, Kind, Execs, Job
  <2>2. \A f \in Execs : Holds(f) => ~Exclude(Kind(f), Kind(e))
    BY <2>1 DEF Locks, LocksHaveOwners
  <2>3. \A f \in Execs : Holds(f) => ~Exclude(Kind(e), Kind(f))
    BY <2>2 DEF Exclude
  <2> QED
    BY <1>1, <2>2, <2>3 DEF Locks, CrossLocks
<1>5. LeakIsAlone'
  <2>1. "opening" \in unwritten => Kind(e) # "patch"
    BY DEF Locks, LocksHaveOwners, Kinds, Exclude
  <2> QED
    BY <1>1, <2>1 DEF Locks, LeakIsAlone, SameOpening
<1> QED
  BY <1>2, <1>3, <1>4, <1>5 DEF Locks

(* A step that neither takes nor gives up a lock.                          *)
LEMMA MoveKeepsLocks ==
    ASSUME TypeOK, Locks, NEW e \in Execs, NEW s \in {"baseline", "call", "post"},
           pc' = [pc EXCEPT ![e] = s], UNCHANGED kind, Holds(e) <=> Holds(e)',
           s = "call" => Kind(e) \in Locking, s = "post" => Kind(e) = "patch",
           flags' = flags, SameOpening
    PROVE  Locks'
<1>1. /\ \A f \in Execs : Kind(f)' = Kind(f)
      /\ \A f \in Execs \ {e} : pc'[f] = pc[f] /\ (Holds(f)' <=> Holds(f))
      /\ pc'[e] = s
  BY OthersHold
<1> QED
  BY <1>1 DEF Locks, KindsAt, LocksHaveOwners, CrossLocks, LeakIsAlone, SameOpening

LEMMA StillKeepsLocks ==
    ASSUME Locks, UNCHANGED <<kind, pc, flags>>, SameOpening
    PROVE  Locks'
BY DEF Locks, KindsAt, LocksHaveOwners, CrossLocks, LeakIsAlone, SameOpening, Holds, Kind, Job

(* An install that cannot be opened leaves its lock to nobody.             *)
LEMMA LeakKeepsLocks ==
    ASSUME TypeOK, Locks, UNCHANGED <<kind, pc>>, ~PatchRefused,
           flags' = flags \cup {"patch"}, "opening" \in unwritten'
    PROVE  Locks'
<1>1. \A e \in Execs : (Holds(e)' <=> Holds(e)) /\ Kind(e)' = Kind(e)
  BY DEF Holds, Kind, Job
<1>2. \A e \in Execs : ~(Holds(e) /\ Kind(e) = "patch")
  BY DEF Locks, LocksHaveOwners, PatchRefused, Kinds
<1>3. "opening" \notin unwritten
  BY DEF Locks, LocksHaveOwners, PatchRefused, Kinds
<1>4. KindsAt' /\ CrossLocks' /\ LeakIsAlone'
  BY <1>1, <1>2 DEF Locks, KindsAt, CrossLocks, LeakIsAlone
<1>5. LocksHaveOwners'
  BY <1>1, <1>2, <1>3 DEF Locks, LocksHaveOwners
<1> QED
  BY <1>4, <1>5 DEF Locks

(* A process that starts holds no lock.                                    *)
LEMMA RestartKeepsLocks ==
    ASSUME AgentRestarts, UNCHANGED kind
    PROVE  Locks'
<1>1. \A e \in Execs : pc'[e] = "none"
  BY DEF AgentRestarts
<1>2. \A e \in Execs : ~Holds(e)'
  BY <1>1 DEF Holds
<1> QED
  BY <1>1, <1>2 DEF Locks, KindsAt, LocksHaveOwners, CrossLocks, LeakIsAlone, AgentRestarts

(* A new stream renames the executions and leaves each lock its owner.     *)
LEMMA ConnectKeepsLocks ==
    ASSUME TypeOK, Locks, Connect
    PROVE  Locks'
<1> DEFINE from(e) == IF Running(<<e[1], "now">>) THEN <<e[1], "now">> ELSE e
<1>1. \A e \in Execs : from(e) \in Execs /\ Kind(e)' = Kind(e) /\ Kind(from(e)) = Kind(e)
  BY DEF Connect, Execs, Streams, Kind, Job
<1>2. \A e \in Execs : pc'[e] = IF e[2] = "now" THEN "none" ELSE pc[from(e)]
  BY DEF Connect
<1>3. \A e \in Execs : Holds(e)' => e[2] = "old" /\ Holds(from(e))
  BY <1>1, <1>2 DEF Holds, Execs, Streams
<1>4. \A e \in Execs : Holds(e) => \E f \in Execs : Holds(f)' /\ Kind(f) = Kind(e)
  <2> SUFFICES ASSUME NEW e \in Execs, Holds(e)
               PROVE  Holds(<<e[1], "old">>)' /\ <<e[1], "old">> \in Execs
                      /\ Kind(<<e[1], "old">>) = Kind(e)
    OBVIOUS
  <2> DEFINE f == <<e[1], "old">>
  <2>1. f \in Execs /\ f[1] = e[1] /\ f[2] = "old" /\ Kind(f) = Kind(e)
    BY DEF Execs, Streams, Kind, Job
  <2>2. e = <<e[1], e[2]>> /\ e[1] \in Jobs /\ e[2] \in {"now", "old"}
    BY DEF Execs, Streams
  <2>3. Running(e)
    BY DEF Running, Holds
  <2>4. from(f) = e
    BY <2>1, <2>2, <2>3 DEF Connect, AtMostTwice
  <2>5. pc'[f] = pc[e]
    BY <1>2, <2>1, <2>4
  <2> QED
    BY <1>1, <2>1, <2>5 DEF Holds
<1>5. KindsAt'
  <2> SUFFICES ASSUME NEW e \in Execs
               PROVE  /\ pc'[e] = "post" => Kind(e)' = "patch"
                      /\ pc'[e] = "fetch" => Kind(e)' = "update"
                      /\ pc'[e] = "call" => Kind(e)' \in Locking
    BY DEF KindsAt
  <2>1. /\ pc[from(e)] = "post" => Kind(from(e)) = "patch"
        /\ pc[from(e)] = "fetch" => Kind(from(e)) = "update"
        /\ pc[from(e)] = "call" => Kind(from(e)) \in Locking
    BY <1>1 DEF Locks, KindsAt
  <2> HIDE DEF from
  <2> QED
    BY <1>1, <1>2, <2>1
<1>6. LocksHaveOwners'
  <2>1. flags' = flags /\ unwritten' = unwritten
    BY DEF Connect, fileVars
  <2>2. ASSUME NEW k \in Kinds, k \in flags, ~(k = "patch" /\ "opening" \in unwritten)
        PROVE  \E f \in Execs : Holds(f)' /\ Kind(f)' = k
    <3>1. PICK e \in Execs : Holds(e) /\ Kind(e) = k
      BY <2>2 DEF Locks, LocksHaveOwners
    <3>2. PICK f \in Execs : Holds(f)' /\ Kind(f) = Kind(e)
      BY <1>4, <3>1
    <3> QED
      BY <1>1, <3>1, <3>2
  <2>3. ASSUME NEW k \in Kinds, NEW e \in Execs, Holds(e)', Kind(e)' = k PROVE k \in flags
    <3> HIDE DEF from
    <3> QED
      BY <1>1, <1>3, <2>3 DEF Locks, LocksHaveOwners
  <2>4. "opening" \in unwritten => "patch" \in flags
    BY DEF Locks, LocksHaveOwners, Kinds
  <2> QED
    BY <2>1, <2>2, <2>3, <2>4 DEF LocksHaveOwners
<1>7. CrossLocks'
  <2> SUFFICES ASSUME NEW e \in Execs, NEW f \in Execs, e # f, Holds(e)', Holds(f)'
               PROVE  ~Exclude(Kind(e), Kind(f))
    BY <1>1 DEF CrossLocks
  <2>1. e[2] = "old" /\ f[2] = "old" /\ Holds(from(e)) /\ Holds(from(f))
    BY <1>3
  <2>2. from(e)[1] = e[1] /\ from(f)[1] = f[1]
    OBVIOUS
  <2>3. e[1] # f[1]
    BY <2>1 DEF Execs
  <2> QED
    BY <1>1, <2>1, <2>2, <2>3 DEF Locks, CrossLocks
<1>8. LeakIsAlone'
  <2>1. unwritten' = unwritten
    BY DEF Connect, fileVars
  <2> HIDE DEF from
  <2> QED
    BY <1>1, <1>3, <2>1 DEF Locks, LeakIsAlone
<1> QED
  BY <1>5, <1>6, <1>7, <1>8 DEF Locks

(* Whatever happens, the locks stay as they should be.                     *)
LEMMA StepKeepsLocks ==
    ASSUME TypeOK, Locks, [Next]_vars
    PROVE  Locks'
<1> USE DEF agentVars, fileVars, deviceVars
<1>1. ASSUME NEW e \in Execs, Dispatched(e) PROVE Locks'
  <2>1. CASE PatchReplayed(e)
    BY <2>1, StillKeepsLocks DEF PatchReplayed, SameOpening
  <2>2. CASE PatchStarts(e)
    <3>1. ~Holds(e)
      BY <2>2 DEF PatchStarts, Idle, Holds
    <3>2. Holds(e)'
      BY <2>2 DEF PatchStarts, TypeOK, Holds, Kind, Job
    <3>3. \A k \in flags : ~Exclude(k, "patch")
      BY <2>2 DEF PatchStarts, PatchRefused, Exclude
    <3>4. SameOpening
      BY <2>2 DEF PatchStarts, SameOpening
    <3> QED
      BY <2>2, <3>1, <3>2, <3>3, <3>4, TakeKeepsLocks DEF PatchStarts, Kinds
  <2>3. CASE BaselineFirst(e) \/ RebootAccepted(e)
    <3>1. ~Holds(e)
      BY <2>3 DEF BaselineFirst, RebootAccepted, Idle, Holds
    <3>2. ~Holds(e)'
      BY <2>3 DEF BaselineFirst, RebootAccepted, TypeOK, Holds, Kind, Job
    <3> QED
      BY <2>3, <3>1, <3>2, MoveKeepsLocks DEF BaselineFirst, RebootAccepted, SameOpening
  <2>4. CASE UpdateStarts(e)
    <3>1. ~Holds(e)
      BY <2>4 DEF UpdateStarts, Idle, Holds
    <3>2. Holds(e)'
      BY <2>4 DEF UpdateStarts, TypeOK, Holds
    <3>3. \A k \in flags : ~Exclude(k, "update")
      BY <2>4 DEF UpdateStarts, PrivilegedOperationInFlight, Locking, Exclude
    <3> QED
      BY <2>4, <3>1, <3>2, <3>3, TakeKeepsLocks DEF UpdateStarts, Kinds, SameOpening
  <2>5. CASE PatchCannotStart(e)
    BY <2>5, LeakKeepsLocks DEF PatchCannotStart
  <2> QED
    BY <1>1, <2>1, <2>2, <2>3, <2>4, <2>5 DEF Dispatched
<1>2. ASSUME NEW e \in Execs, GoesOn(e) PROVE Locks'
  <2>1. CASE Calls(e)
    <3>1. Kind(e) \in Kinds /\ pc[e] = "baseline" /\ Holds(e)'
      BY <2>1 DEF Calls, Locking, Kinds, TypeOK, Holds
    <3>2. CASE Kind(e) = "patch"
      <4>1. Holds(e)
        BY <3>1, <3>2 DEF Holds
      <4>2. "patch" \in flags
        BY <3>1, <3>2, <4>1 DEF Locks, LocksHaveOwners
      <4>3. flags' = flags
        BY <2>1, <3>2, <4>2 DEF Calls
      <4> QED
        BY <2>1, <3>1, <4>1, <4>3, MoveKeepsLocks DEF Calls, SameOpening
    <3>3. CASE Kind(e) # "patch"
      <4>1. ~Holds(e)
        BY <3>1, <3>3 DEF Holds
      <4>2. \A k \in flags : ~Exclude(k, Kind(e))
        BY <2>1, <3>3 DEF Calls, MayCall, TryStartRemediate, TryStartInstall, Locking, Exclude
      <4> QED
        BY <2>1, <3>1, <4>1, <4>2, TakeKeepsLocks DEF Calls, SameOpening
    <3> QED
      BY <3>2, <3>3
  <2>2. CASE Busy(e)
    BY <2>2, EndKeepsLocks DEF Busy, MayCall, End, SameOpening
  <2>3. CASE OperationEnds(e)
    BY <2>3, EndKeepsLocks DEF OperationEnds, End, SameOpening
  <2>4. CASE PatchAnswered(e)
    <3>1. Holds(e) /\ Holds(e)'
      BY <2>4 DEF PatchAnswered, TypeOK, Holds
    <3>2. SameOpening
      BY <2>4, WritesSameOpening DEF PatchAnswered
    <3> QED
      BY <2>4, <3>1, <3>2, MoveKeepsLocks DEF PatchAnswered
  <2>5. ASSUME NEW restart \in BOOLEAN, PatchEnds(e, restart) PROVE Locks'
    <3>1. SameOpening
      BY <2>5, WritesSameOpening DEF PatchEnds
    <3> QED
      BY <2>5, <3>1, EndKeepsLocks DEF PatchEnds, End
  <2>6. CASE RebootArms(e)
    <3>1. flags' = Release(e)
      BY <2>6 DEF RebootArms, Release
    <3> QED
      BY <2>6, <3>1, EndKeepsLocks DEF RebootArms, End, SameOpening
  <2>7. CASE UpdateEnds(e)
    BY <2>7, EndKeepsLocks DEF UpdateEnds, End, SameOpening
  <2> QED
    BY <1>2, <2>1, <2>2, <2>3, <2>4, <2>5, <2>6, <2>7 DEF GoesOn
<1>3. ASSUME NEW e \in Execs, Reject(e) PROVE Locks'
  BY <1>3, StillKeepsLocks DEF Reject, SameOpening
<1>4. ASSUME NEW e \in Execs, PatchUnrecorded(e) \/ PatchBusy(e) \/ CallFails(e) PROVE Locks'
  <2>1. SameOpening
    BY <1>4, WritesSameOpening DEF PatchUnrecorded, PatchBusy, CallFails
  <2> QED
    BY <1>4, <2>1, EndKeepsLocks DEF PatchUnrecorded, PatchBusy, CallFails, End
<1>5. ASSUME NEW j \in Jobs, OrphanEnds(j) \/ OperatorRetry(j) PROVE Locks'
  BY <1>5, StillKeepsLocks DEF OrphanEnds, OperatorRetry, SameOpening
<1>6. CASE AgentCrashes \/ DeviceRestarts \/ InstallerRuns
  BY <1>6, RestartKeepsLocks DEF AgentCrashes, DeviceRestarts, InstallerRuns, BothRestart
<1>7. CASE Disconnect \/ BecomesCalm \/ UNCHANGED vars
  BY <1>7, StillKeepsLocks DEF Disconnect, BecomesCalm, vars, SameOpening
<1>8. CASE Connect
  BY <1>8, ConnectKeepsLocks
<1> QED
  BY <1>1, <1>2, <1>3, <1>4, <1>5, <1>6, <1>7, <1>8 DEF Next

(* For every set of jobs: an install, a remediation and an update of the   *)
(* agent never run beside an install, and no two operations of one kind    *)
(* beside each other, across awaits, streams and restarts.                 *)
THEOREM JobsExclude == Spec => []CrossLocks
<1>1. Init => Locks
  BY DEF Init, Locks, KindsAt, LocksHaveOwners, CrossLocks, LeakIsAlone, Holds
<1>2. TypeOK /\ Locks /\ [Next]_vars => Locks'
  BY StepKeepsLocks
<1>3. Locks => CrossLocks
  BY DEF Locks
<1> QED
  BY <1>1, <1>2, <1>3, TypeCorrect, PTL DEF Spec

(* For every set of jobs: a lock is raised exactly while an execution that *)
(* will give it up holds it, or, for the lock of the installs, once an     *)
(* opening write failed and until the agent restarts.                      *)
THEOREM LocksGivenUp == Spec => []LocksHaveOwners
<1>1. Init => Locks
  BY DEF Init, Locks, KindsAt, LocksHaveOwners, CrossLocks, LeakIsAlone, Holds
<1>2. TypeOK /\ Locks /\ [Next]_vars => Locks'
  BY StepKeepsLocks
<1>3. Locks => LocksHaveOwners
  BY DEF Locks
<1> QED
  BY <1>1, <1>2, <1>3, TypeCorrect, PTL DEF Spec

-----------------------------------------------------------------------------
(* What pmp-state.json remembers, and what the control plane is told.      *)

(* The patches behind a success that is reported, remembered or about to   *)
(* be reported are on the device.                                          *)
Took ==
    /\ DoneTookEffect
    /\ pmp.ack # None => kind[pmp.ack] = "patch" /\ pmp.ack \in effect
    /\ \A e \in Execs : result[e] = "success" => Job(e) \in effect

LEMMA AnswerTook ==
    ASSUME TypeOK, DoneTookEffect, NEW j \in Jobs, NEW status \in {"done", "failed", "retry"},
           Answer(j, status), UNCHANGED kind, effect \subseteq effect',
           status = "done" /\ kind[j] = "patch" => j \in effect'
    PROVE  DoneTookEffect'
BY DEF Answer, DoneTookEffect, TypeOK

(* An execution that ends, with an answer that is true.                    *)
LEMMA EndTook ==
    ASSUME TypeOK, Took, NEW e \in Execs, NEW status \in {"done", "failed", "retry"},
           End(e, status), UNCHANGED kind, effect \subseteq effect',
           status = "done" /\ Kind(e) = "patch" => Job(e) \in effect',
           pmp'.ack = pmp.ack
    PROVE  Took'
<1>1. Job(e) \in Jobs
  BY DEF Execs, Job
<1>2. DoneTookEffect'
  BY <1>1, AnswerTook DEF Took, End, Kind, Job
<1>3. \A f \in Execs : result'[f] = "success" => result[f] = "success"
  BY DEF End, TypeOK
<1> QED
  BY <1>2, <1>3 DEF Took, Job

LEMMA StillTook ==
    ASSUME Took, UNCHANGED <<kind, told>>, effect \subseteq effect', pmp'.ack = pmp.ack,
           \A e \in Execs : result'[e] = "success" => result[e] = "success"
    PROVE  Took'
BY DEF Took, DoneTookEffect, Job

LEMMA RestartTook ==
    ASSUME TypeOK, Took, AgentRestarts, UNCHANGED <<kind, told>>, effect \subseteq effect'
    PROVE  Took'
<1>1. pmp'.ack = pmp.ack
  BY DEF AgentRestarts, ReconcileStalePmpState, TypeOK
<1>2. \A e \in Execs : result'[e] = "none"
  BY DEF AgentRestarts
<1> QED
  BY <1>1, <1>2, StillTook

LEMMA StepTook ==
    ASSUME TypeOK, Locks, Took, [Next]_vars
    PROVE  Took'
<1> USE DEF agentVars, fileVars, deviceVars
<1>0. \A e \in Execs : Job(e) \in Jobs
  BY DEF Execs, Job
<1>1. ASSUME NEW e \in Execs, Dispatched(e) PROVE Took'
  <2>1. CASE PatchReplayed(e)
    <3>1. Replay(Job(e)) = "done" => Job(e) \in effect
      BY <1>0, NoneAssumption DEF Replay, Took
    <3>2. pmp'.ack = pmp.ack
      BY <2>1 DEF PatchReplayed, TypeOK
    <3>3. DoneTookEffect'
      <4> DEFINE status == IF Replay(Job(e)) = "done" THEN "done" ELSE "failed"
      <4>1. status \in {"done", "failed", "retry"} /\ (status = "done" => Job(e) \in effect)
        BY <3>1
      <4>2. Answer(Job(e), status) /\ UNCHANGED <<kind, effect>>
        BY <2>1 DEF PatchReplayed
      <4> QED
        BY <1>0, <4>1, <4>2, AnswerTook DEF Took
    <3> QED
      BY <2>1, <3>2, <3>3 DEF PatchReplayed, Took
  <2>3. CASE PatchCannotStart(e)
    <3>1. DoneTookEffect'
      BY <1>0, <2>3, AnswerTook DEF PatchCannotStart, Took
    <3> QED
      BY <2>3, <3>1 DEF PatchCannotStart, Took
  <2>2. CASE PatchStarts(e) \/ BaselineFirst(e) \/ RebootAccepted(e) \/ UpdateStarts(e)
    <3>1. pmp'.ack = pmp.ack
      BY <2>2 DEF PatchStarts, BaselineFirst, RebootAccepted, UpdateStarts, TypeOK
    <3> QED
      BY <2>2, <3>1, StillTook DEF PatchStarts, BaselineFirst, RebootAccepted, UpdateStarts
  <2> QED
    BY <1>1, <2>1, <2>2, <2>3 DEF Dispatched
<1>2. ASSUME NEW e \in Execs, GoesOn(e) PROVE Took'
  <2>1. CASE Calls(e)
    BY <2>1, StillTook DEF Calls
  <2>2. CASE Busy(e)
    BY <2>2, EndTook DEF Busy
  <2>3. CASE OperationEnds(e)
    BY <2>3, EndTook DEF OperationEnds
  <2>4. CASE PatchAnswered(e)
    <3>1. pmp'.ack = pmp.ack /\ effect \subseteq effect'
      BY <2>4 DEF PatchAnswered, SetPmp, TypeOK
    <3>2. \A f \in Execs : result'[f] = "success" => Job(f) \in effect'
      <4>1. PICK r \in Outcomes(Job(e)) :
               /\ result' = [result EXCEPT ![e] = r]
               /\ effect' = IF r = "success" THEN effect \cup {Job(e)} ELSE effect
        BY <2>4 DEF PatchAnswered
      <4> QED
        BY <3>1, <4>1 DEF Took, TypeOK
    <3> QED
      BY <2>4, <3>1, <3>2 DEF PatchAnswered, Took, DoneTookEffect
  <2>5. ASSUME NEW restart \in BOOLEAN, PatchEnds(e, restart) PROVE Took'
    <3>1. UNCHANGED <<kind, effect>>
      BY <2>5 DEF PatchEnds
    <3>2. CASE pmp'.ack = pmp.ack /\ (End(e, "failed") \/ End(e, "retry"))
      BY <3>1, <3>2, EndTook
    <3>3. CASE /\ result[e] = "success" /\ End(e, "done")
               /\ pmp' = RememberSuccessAck(Job(e))
      <4>0. pc[e] = "post"
        BY <2>5 DEF PatchEnds
      <4>01. Kind(e) = "patch"
        BY <4>0 DEF Locks, KindsAt
      <4>02. Job(e) \in effect
        BY <3>3 DEF Took
      <4>1. Job(e) \in effect /\ kind[Job(e)] = "patch"
        BY <4>01, <4>02 DEF Kind, Job
      <4>2. pmp'.ack = Job(e)
        BY <3>3 DEF RememberSuccessAck, TypeOK
      <4>3. DoneTookEffect'
        BY <1>0, <3>1, <3>3, <4>1, AnswerTook DEF Took, End
      <4>4. \A f \in Execs : result'[f] = "success" => result[f] = "success"
        BY <3>3 DEF End, TypeOK
      <4> QED
        BY <3>1, <4>1, <4>2, <4>3, <4>4 DEF Took
    <3>4. SetPmp("idle") \/ CatchWrites => pmp'.ack = pmp.ack
      BY DEF SetPmp, CatchWrites, TypeOK
    <3> QED
      BY <2>5, <3>2, <3>3, <3>4 DEF PatchEnds
  <2>6. CASE RebootArms(e)
    BY <2>6, EndTook DEF RebootArms, Locking
  <2>7. CASE UpdateEnds(e)
    <3>1. Kind(e) = "update"
      BY <2>7 DEF UpdateEnds, Locks, KindsAt
    <3> QED
      BY <2>7, <3>1, EndTook DEF UpdateEnds, Locking
  <2> QED
    BY <1>2, <2>1, <2>2, <2>3, <2>4, <2>5, <2>6, <2>7 DEF GoesOn
<1>3. ASSUME NEW e \in Execs, Reject(e) PROVE Took'
  <2>1. DoneTookEffect'
    BY <1>0, <1>3, AnswerTook DEF Reject, Took
  <2> QED
    BY <1>3, <2>1 DEF Reject, Took
<1>4. ASSUME NEW e \in Execs, PatchUnrecorded(e) \/ PatchBusy(e) \/ CallFails(e) PROVE Took'
  <2>1. pmp'.ack = pmp.ack
    BY <1>4 DEF PatchUnrecorded, PatchBusy, CallFails, CatchWrites, SetPmp, TypeOK
  <2>2. (End(e, "retry") \/ End(e, "failed")) /\ UNCHANGED kind /\ effect \subseteq effect'
    BY <1>4 DEF PatchUnrecorded, PatchBusy, CallFails
  <2> QED
    BY <2>1, <2>2, EndTook
<1>5. ASSUME NEW j \in Jobs, OrphanEnds(j) PROVE Took'
  BY <1>5, StillTook DEF OrphanEnds
<1>6. ASSUME NEW j \in Jobs, OperatorRetry(j) PROVE Took'
  BY <1>6 DEF OperatorRetry, Took, DoneTookEffect, TypeOK, Job
<1>7. CASE AgentCrashes \/ DeviceRestarts \/ InstallerRuns
  BY <1>7, RestartTook DEF AgentCrashes, DeviceRestarts, InstallerRuns, BothRestart
<1>8. CASE Disconnect \/ BecomesCalm \/ UNCHANGED vars
  BY <1>8, StillTook DEF Disconnect, BecomesCalm, vars
<1>9. CASE Connect
  <2>1. \A e \in Execs : <<e[1], "now">> \in Execs /\ Job(<<e[1], "now">>) = Job(e)
    BY DEF Execs, Streams, Job
  <2>2. \A e \in Execs : result'[e] = "success" => Job(e) \in effect
    BY <1>9, <2>1 DEF Connect, Took
  <2> QED
    BY <1>9, <2>2 DEF Connect, Took, DoneTookEffect
<1> QED
  BY <1>1, <1>2, <1>3, <1>4, <1>5, <1>6, <1>7, <1>8, <1>9 DEF Next

(* For every set of jobs: the patches of an install the control plane is   *)
(* told succeeded, by the install or by the memory of it, are on the       *)
(* device.                                                                 *)
THEOREM SuccessIsTrue == Spec => []DoneTookEffect
<1>1. Init => Locks /\ Took
  <2> SUFFICES ASSUME Init PROVE Locks /\ Took
    OBVIOUS
  <2>1. \A e \in Execs : pc[e] = "none" /\ result[e] = "none"
    BY DEF Init
  <2>2. \A j \in Jobs : told[j] = "nothing"
    BY DEF Init
  <2> QED
    BY <2>1, <2>2 DEF Init, Locks, KindsAt, LocksHaveOwners, CrossLocks, LeakIsAlone, Holds,
                     Took, DoneTookEffect
<1>2. TypeOK /\ Locks /\ Took /\ [Next]_vars => (Locks /\ Took)'
  BY StepKeepsLocks, StepTook
<1>3. Took => DoneTookEffect
  BY DEF Took
<1> QED
  BY <1>1, <1>2, <1>3, TypeCorrect, PTL DEF Spec

-----------------------------------------------------------------------------
(* The success that is remembered, and the install that is under way.      *)

Memory == NotInstalledAgain /\ ProgressIsReal

LEMMA StillRemembers ==
    ASSUME Memory, UNCHANGED <<kind, pc, pmp>>, "closing" \in unwritten => "closing" \in unwritten'
    PROVE  Memory'
BY DEF Memory, NotInstalledAgain, ProgressIsReal, Kind, Job

(* An execution that ends and was not an install under way.                *)
LEMMA EndRemembers ==
    ASSUME TypeOK, Memory, NEW e \in Execs, pc' = [pc EXCEPT ![e] = "none"], UNCHANGED kind,
           pmp'.ack = pmp.ack, pmp'.job = pmp.job,
           \/ pmp'.status # "in_progress"
           \/ "closing" \in unwritten'
           \/ /\ pmp'.status = pmp.status /\ UNCHANGED unwritten
              /\ pc[e] \notin {"baseline", "call"} \/ Kind(e) # "patch"
    PROVE  Memory'
<1>1. /\ \A f \in Execs : Kind(f)' = Kind(f)
      /\ \A f \in Execs \ {e} : pc'[f] = pc[f]
      /\ pc'[e] = "none"
  BY OthersHold
<1>2. NotInstalledAgain'
  BY <1>1 DEF Memory, NotInstalledAgain, Job
<1>3. ProgressIsReal'
  BY <1>1 DEF Memory, ProgressIsReal, Job
<1> QED
  BY <1>2, <1>3 DEF Memory

LEMMA RestartRemembers ==
    ASSUME TypeOK, AgentRestarts
    PROVE  Memory'
<1>1. \A e \in Execs : pc'[e] = "none"
  BY DEF AgentRestarts
<1>2. pmp'.status # "in_progress" \/ "closing" \in unwritten'
  BY DEF AgentRestarts, ReconcileStalePmpState, TypeOK
<1> QED
  BY <1>1, <1>2 DEF Memory, NotInstalledAgain, ProgressIsReal

LEMMA ConnectRemembers ==
    ASSUME TypeOK, Memory, Connect
    PROVE  Memory'
<1> DEFINE from(e) == IF Running(<<e[1], "now">>) THEN <<e[1], "now">> ELSE e
<1>1. \A e \in Execs : from(e) \in Execs /\ Job(from(e)) = Job(e)
  BY DEF Execs, Streams, Job
<1>2. \A e \in Execs : pc'[e] = IF e[2] = "now" THEN "none" ELSE pc[from(e)]
  BY DEF Connect
<1>3. UNCHANGED <<kind, pmp, unwritten>>
  BY DEF Connect, fileVars
<1>4. NotInstalledAgain'
  <2> HIDE DEF from
  <2> QED
    BY <1>1, <1>2, <1>3 DEF Memory, NotInstalledAgain, Job
<1>5. ProgressIsReal'
  <2> SUFFICES ASSUME pmp.status = "in_progress", "closing" \notin unwritten
               PROVE  \E e \in Execs : Job(e) = pmp.job /\ Kind(e)' = "patch"
                                        /\ pc'[e] \in {"baseline", "call"}
    BY <1>3 DEF ProgressIsReal, Job
  <2>1. PICK e \in Execs : Job(e) = pmp.job /\ Kind(e) = "patch" /\ pc[e] \in {"baseline", "call"}
    BY DEF Memory, ProgressIsReal
  <2> DEFINE f == <<e[1], "old">>
  <2>2. f \in Execs /\ f[1] = e[1] /\ f[2] = "old" /\ Job(f) = Job(e) /\ Kind(f)' = Kind(e)
    BY <1>3 DEF Execs, Streams, Kind, Job
  <2>3. e = <<e[1], e[2]>> /\ e[1] \in Jobs /\ e[2] \in {"now", "old"}
    BY DEF Execs, Streams
  <2>4. Running(e)
    BY <2>1 DEF Running
  <2>5. from(f) = e
    BY <2>2, <2>3, <2>4 DEF Connect, AtMostTwice
  <2>6. pc'[f] = pc[e]
    BY <1>2, <2>2, <2>5
  <2> QED
    BY <2>1, <2>2, <2>6
<1> QED
  BY <1>4, <1>5 DEF Memory

LEMMA StepRemembers ==
    ASSUME TypeOK, Locks, Took, Memory, [Next]_vars
    PROVE  Memory'
<1> USE DEF agentVars, fileVars, deviceVars
<1>0. \A e \in Execs : Job(e) \in Jobs
  BY DEF Execs, Job
<1>1. ASSUME NEW e \in Execs, PatchReplayed(e) PROVE Memory'
  <2>1. UNCHANGED <<kind, pc, unwritten>> /\ pmp'.ack = pmp.ack /\ pmp'.status = pmp.status
    BY <1>1 DEF PatchReplayed, TypeOK
  <2>2. pmp'.job = pmp.job \/ pmp.status # "in_progress" \/ "closing" \in unwritten
    <3>1. CASE Replay(Job(e)) # "interrupted"
      BY <1>1, <3>1 DEF PatchReplayed
    <3>2. CASE Replay(Job(e)) = "interrupted"
      <4>1. "patch" \notin flags
        BY <1>1 DEF PatchReplayed, PatchRefused
      <4>2. \A f \in Execs : ~(Kind(f) = "patch" /\ pc[f] \in {"baseline", "call"})
        BY <4>1 DEF Locks, LocksHaveOwners, Holds, Kinds
      <4> QED
        BY <4>2 DEF Memory, ProgressIsReal
    <3> QED
      BY <3>1, <3>2
  <2> QED
    BY <2>1, <2>2 DEF Memory, NotInstalledAgain, ProgressIsReal, Kind, Job
<1>2. ASSUME NEW e \in Execs, PatchStarts(e) PROVE Memory'
  <2>1. pmp'.ack = pmp.ack /\ pmp'.job = Job(e) /\ pc'[e] = "baseline" /\ Kind(e)' = "patch"
    BY <1>2 DEF PatchStarts, TypeOK, Kind, Job
  <2>2. pmp.ack # Job(e)
    BY <1>2 DEF PatchStarts, Replay
  <2>3. \A f \in Execs \ {e} : pc'[f] = pc[f]
    BY <1>2 DEF PatchStarts, TypeOK
  <2>4. NotInstalledAgain'
    BY <2>1, <2>2, <2>3 DEF Memory, NotInstalledAgain, Job
  <2>5. ProgressIsReal'
    BY <2>1 DEF ProgressIsReal, Job
  <2> QED
    BY <2>4, <2>5 DEF Memory
<1>3. ASSUME NEW e \in Execs, BaselineFirst(e) \/ RebootAccepted(e) \/ UpdateStarts(e) PROVE Memory'
  <2>1. UNCHANGED <<kind, pmp, unwritten>> /\ pc[e] = "none" /\ Kind(e) # "patch"
        /\ \E s \in {"baseline", "fetch"} : pc' = [pc EXCEPT ![e] = s]
    BY <1>3 DEF BaselineFirst, RebootAccepted, UpdateStarts, Idle
  <2>2. pmp.ack # Job(e)
    <3>1. kind[Job(e)] # "patch" /\ Job(e) # None
      BY <1>0, <2>1, NoneAssumption DEF Kind, Job
    <3>2. pmp.ack # None => kind[pmp.ack] = "patch"
      BY DEF Took
    <3> QED
      BY <3>1, <3>2
  <2>3. \A f \in Execs \ {e} : pc'[f] = pc[f]
    BY <2>1 DEF TypeOK
  <2> QED
    BY <2>1, <2>2, <2>3 DEF Memory, NotInstalledAgain, ProgressIsReal, Kind, Job
<1>4. ASSUME NEW e \in Execs, Calls(e) PROVE Memory'
  <2>1. UNCHANGED <<kind, pmp, unwritten>> /\ pc[e] = "baseline" /\ pc'[e] = "call"
        /\ \A f \in Execs \ {e} : pc'[f] = pc[f]
    BY <1>4 DEF Calls, TypeOK
  <2> QED
    BY <2>1 DEF Memory, NotInstalledAgain, ProgressIsReal, Kind, Job
<1>5. ASSUME NEW e \in Execs, Busy(e) \/ OperationEnds(e) \/ RebootArms(e) \/ UpdateEnds(e)
      PROVE Memory'
  <2>1. /\ pc' = [pc EXCEPT ![e] = "none"] /\ UNCHANGED <<kind, pmp, unwritten>>
        /\ pc[e] \notin {"baseline", "call"} \/ Kind(e) # "patch"
    BY <1>5 DEF Busy, OperationEnds, RebootArms, UpdateEnds, End, MayCall
  <2> QED
    BY <2>1, EndRemembers
<1>6. ASSUME NEW e \in Execs, PatchAnswered(e) PROVE Memory'
  <2>1. pmp'.ack = pmp.ack /\ pmp'.status # "in_progress" /\ UNCHANGED kind
    BY <1>6 DEF PatchAnswered, SetPmp, TypeOK
  <2>2. \A f \in Execs : pc'[f] = pc[f] \/ pc'[f] = "post"
    BY <1>6 DEF PatchAnswered, TypeOK
  <2> QED
    BY <2>1, <2>2 DEF Memory, NotInstalledAgain, ProgressIsReal, Job
<1>7. ASSUME NEW e \in Execs, NEW restart \in BOOLEAN, PatchEnds(e, restart) PROVE Memory'
  <2>1. pc[e] = "post" /\ pc' = [pc EXCEPT ![e] = "none"] /\ UNCHANGED kind
    BY <1>7 DEF PatchEnds, End
  <2>2. CASE UNCHANGED <<pmp, unwritten>> \/ SetPmp("idle") \/ CatchWrites
    <3>1. pmp'.ack = pmp.ack /\ pmp'.job = pmp.job
          /\ \/ pmp'.status # "in_progress" \/ "closing" \in unwritten'
             \/ pmp'.status = pmp.status /\ UNCHANGED unwritten
      BY <2>2 DEF SetPmp, CatchWrites, TypeOK
    <3> QED
      BY <2>1, <3>1, EndRemembers
  <2>3. CASE pmp' = RememberSuccessAck(Job(e)) /\ UNCHANGED unwritten
    <3>1. pmp'.ack = Job(e) /\ pmp'.job = pmp.job /\ pmp'.status = pmp.status
      BY <2>3 DEF RememberSuccessAck, TypeOK
    <3>2. \A f \in Execs \ {e} : pc'[f] = pc[f]
      BY <2>1 DEF TypeOK
    <3>3. pc'[e] = "none"
      BY <2>1 DEF TypeOK
    <3>4. ASSUME NEW f \in Execs, Job(f) = Job(e) PROVE pc'[f] \notin {"baseline", "call"}
      <4>0. Kind(e) = "patch" /\ Holds(e)
        BY <2>1 DEF Locks, KindsAt, Holds
      <4>1. Kind(e) = "patch" /\ Kind(f) = "patch" /\ Holds(e)
        BY <3>4, <4>0 DEF Kind, Job
      <4>2. f # e => ~Holds(f)
        BY <4>1 DEF Locks, CrossLocks, Exclude
      <4> QED
        BY <3>2, <3>3, <4>1, <4>2 DEF Holds
    <3>5. NotInstalledAgain'
      BY <3>1, <3>4 DEF NotInstalledAgain, Job
    <3>6. ProgressIsReal'
      BY <2>1, <2>3, <3>1, <3>2 DEF Memory, ProgressIsReal, Kind, Job
    <3> QED
      BY <3>5, <3>6 DEF Memory
  <2> QED
    BY <1>7, <2>2, <2>3 DEF PatchEnds
<1>8. ASSUME NEW e \in Execs, PatchUnrecorded(e) \/ PatchBusy(e) \/ CallFails(e) PROVE Memory'
  <2>1. pc' = [pc EXCEPT ![e] = "none"] /\ UNCHANGED kind
    BY <1>8 DEF PatchUnrecorded, PatchBusy, CallFails, End
  <2>2. \/ UNCHANGED <<pmp, unwritten>> /\ Kind(e) # "patch"
        \/ CatchWrites \/ SetPmp("idle")
    BY <1>8 DEF PatchUnrecorded, PatchBusy, CallFails
  <2>3. /\ pmp'.ack = pmp.ack /\ pmp'.job = pmp.job
        /\ \/ pmp'.status # "in_progress" \/ "closing" \in unwritten'
           \/ pmp'.status = pmp.status /\ Kind(e) # "patch" /\ UNCHANGED unwritten
    BY <2>2 DEF SetPmp, CatchWrites, TypeOK
  <2> QED
    BY <2>1, <2>3, EndRemembers
<1>9. ASSUME NEW e \in Execs, Reject(e) \/ PatchCannotStart(e) PROVE Memory'
  BY <1>9, StillRemembers DEF Reject, PatchCannotStart
<1>10. ASSUME NEW j \in Jobs, OrphanEnds(j) \/ OperatorRetry(j) PROVE Memory'
  BY <1>10, StillRemembers DEF OrphanEnds, OperatorRetry
<1>11. CASE AgentCrashes \/ DeviceRestarts \/ InstallerRuns
  BY <1>11, RestartRemembers DEF AgentCrashes, DeviceRestarts, InstallerRuns, BothRestart
<1>12. CASE Disconnect \/ BecomesCalm \/ UNCHANGED vars
  BY <1>12, StillRemembers DEF Disconnect, BecomesCalm, vars
<1>13. CASE Connect
  BY <1>13, ConnectRemembers
<1> QED
  BY <1>1, <1>2, <1>3, <1>4, <1>5, <1>6, <1>7, <1>8, <1>9, <1>10, <1>11, <1>12, <1>13
     DEF Next, Dispatched, GoesOn

LEMMA MemoryAlways == Spec => []Memory
<1>1. Init => Locks /\ Took /\ Memory
  <2> SUFFICES ASSUME Init PROVE Locks /\ Took /\ Memory
    OBVIOUS
  <2>1. \A e \in Execs : pc[e] = "none" /\ result[e] = "none"
    BY DEF Init
  <2>2. \A j \in Jobs : told[j] = "nothing"
    BY DEF Init
  <2>3. Locks /\ Took
    BY <2>1, <2>2 DEF Init, Locks, KindsAt, LocksHaveOwners, CrossLocks, LeakIsAlone, Holds,
                     Took, DoneTookEffect
  <2>4. Memory
    BY <2>1 DEF Init, Memory, NotInstalledAgain, ProgressIsReal
  <2> QED
    BY <2>3, <2>4
<1>2. TypeOK /\ Locks /\ Took /\ Memory /\ [Next]_vars => (Locks /\ Took /\ Memory)'
  BY StepKeepsLocks, StepTook, StepRemembers
<1> QED
  BY <1>1, <1>2, TypeCorrect, PTL DEF Spec

(* For every set of jobs: while an install's success is the one remembered *)
(* it is not installed again.                                              *)
THEOREM MemoryIsTrue == Spec => []NotInstalledAgain
<1>1. Memory => NotInstalledAgain
  BY DEF Memory
<1> QED
  BY <1>1, MemoryAlways, PTL

(* An install that is shown to be under way is: the status a killed one    *)
(* leaves behind is put right before anybody can read it                   *)
(* (reconcileStalePmpState), unless the file could not be written.         *)
THEOREM ProgressShown == Spec => []ProgressIsReal
<1>1. Memory => ProgressIsReal
  BY DEF Memory
<1> QED
  BY <1>1, MemoryAlways, PTL

=============================================================================
