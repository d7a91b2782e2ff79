---------------------------- MODULE OutboxProofs ----------------------------
(***************************************************************************)
(* Proofs about Outbox, for every set of payloads, every MAX_ATTEMPTS,     *)
(* every lease limit and every number of ids.                              *)
(***************************************************************************)
EXTENDS Outbox, FiniteSetTheorems, TLAPS

(* What the steps keep true together.  An id not yet handed out has no row *)
(* and no leases (AUTOINCREMENT); only a row in flight is locked; and a    *)
(* live row has been leased at most once more than it has failed, which is *)
(* what bounds the leases.                                                 *)
FreshIds == \A i \in Ids : i >= nextId => status[i] = "ABSENT" /\ leases[i] = 0

OnlyInFlightLocked == \A i \in Ids : locked[i] => status[i] = "IN_FLIGHT"

LeasesPaidFor ==
    \A i \in Ids :
        /\ leases[i] <= MaxAttempts
        /\ status[i] = "PENDING" => leases[i] <= attempts[i]
        /\ status[i] = "IN_FLIGHT" => leases[i] <= attempts[i] + 1

IInv ==
    /\ TypeOK
    /\ NoStrandedRow
    /\ NoDuplicateLive
    /\ FreshIds
    /\ OnlyInFlightLocked
    /\ LeasesPaidFor

(* The rows a lease takes are PENDING, due, unlocked and within budget.    *)
LEMMA LeasableRows ==
    ASSUME TypeOK, NEW i \in Leasable
    PROVE  i \in Ids /\ status[i] = "PENDING" /\ attempts[i] < MaxAttempts /\ ~locked[i]
  BY DEF Leasable, Candidates, Ready, WithStatus

LEMMA InitIInv == Init => IInv
  BY MaxAttemptsAssumption, MaxIdAssumption, SMT
     DEF Init, All, IInv, TypeOK, NoStrandedRow, NoDuplicateLive, FreshIds,
         OnlyInFlightLocked, LeasesPaidFor, WithStatus, Live, Status, Ids

LEMMA QuarantineIInv == Quarantine => IInv'
  BY MaxAttemptsAssumption, MaxIdAssumption, SMT
     DEF Quarantine, All, IInv, TypeOK, NoStrandedRow, NoDuplicateLive, FreshIds,
         OnlyInFlightLocked, LeasesPaidFor, WithStatus, Live, Status, Ids

LEMMA EnqueueIInv == ASSUME IInv, NEW p \in Payloads, Enqueue(p) PROVE IInv'
  <1> USE MaxAttemptsAssumption, MaxIdAssumption DEF IInv, Enqueue
  <1>1. TypeOK'
    BY DEF TypeOK, Status, Ids
  <1>2. nextId \in Ids /\ status[nextId] = "ABSENT" /\ leases[nextId] = 0 /\ ~locked[nextId]
    BY DEF FreshIds, TypeOK, OnlyInFlightLocked, Ids
  <1>3. NoStrandedRow'
    BY <1>2 DEF NoStrandedRow, TypeOK
  <1>4. NoDuplicateLive'
    BY <1>2 DEF NoDuplicateLive, TypeOK, Duplicates, WithStatus, Live
  <1>5. FreshIds' /\ OnlyInFlightLocked' /\ LeasesPaidFor'
    BY <1>2 DEF FreshIds, OnlyInFlightLocked, LeasesPaidFor, TypeOK, Ids
  <1> QED BY <1>1, <1>3, <1>4, <1>5

LEMMA LeaseReadyIInv == ASSUME IInv, LeaseReady PROVE IInv'
  <1> USE MaxAttemptsAssumption DEF IInv, LeaseReady
  <1>1. \A i \in Leasable : i \in Ids /\ status[i] = "PENDING" /\ attempts[i] < MaxAttempts
    BY LeasableRows
  <1>2. TypeOK'
    <2>1. status' \in [Ids -> Status]
      BY DEF TypeOK, Status
    <2>2. locked' \in [Ids -> BOOLEAN]
      BY DEF TypeOK
    <2>3. leases' \in [Ids -> Nat]
      BY DEF TypeOK
    <2> QED BY <2>1, <2>2, <2>3 DEF TypeOK
  <1>3. NoStrandedRow' /\ FreshIds' /\ OnlyInFlightLocked' /\ LeasesPaidFor'
    BY <1>1 DEF NoStrandedRow, FreshIds, OnlyInFlightLocked, LeasesPaidFor, TypeOK, Ids
  <1>4. NoDuplicateLive'
    BY <1>1 DEF NoDuplicateLive, TypeOK, WithStatus, Live
  <1> QED BY <1>2, <1>3, <1>4

LEMMA FinishIInv ==
    ASSUME IInv, NEW i \in Ids, NEW outcome \in Terminal, Finish(i, outcome)
    PROVE  IInv'
  <1> USE MaxAttemptsAssumption DEF IInv, Finish, Live, Terminal
  <1>1. TypeOK'
    BY DEF TypeOK, Status
  <1>2. NoStrandedRow' /\ FreshIds' /\ OnlyInFlightLocked' /\ LeasesPaidFor'
    BY DEF NoStrandedRow, FreshIds, OnlyInFlightLocked, LeasesPaidFor, TypeOK, Ids
  <1>3. NoDuplicateLive'
    BY DEF NoDuplicateLive, TypeOK, WithStatus
  <1> QED BY <1>1, <1>2, <1>3

(* markFailed and recoverStaleInflight both charge an attempt to live rows.*)
LEMMA FailAttemptIInv ==
    ASSUME IInv, NEW S \in SUBSET WithStatus(Live), FailAttempt(S)
    PROVE  IInv'
  <1> USE MaxAttemptsAssumption DEF IInv, FailAttempt
  <1>1. \A i \in S : i \in Ids /\ status[i] \in Live /\ attempts[i] < MaxAttempts
    BY DEF WithStatus, NoStrandedRow, Live
  <1>2. TypeOK'
    BY <1>1 DEF TypeOK, Status
  <1>3. NoStrandedRow'
    <2>1. SUFFICES ASSUME NEW i \in Ids
                   PROVE  /\ status'[i] = "PENDING" => attempts'[i] < MaxAttempts /\ ~locked'[i]
                          /\ status'[i] = "IN_FLIGHT" => attempts'[i] < MaxAttempts /\ locked'[i]
      BY DEF NoStrandedRow
    <2>2. locked'[i] <=> locked[i] /\ i \notin S
      OBVIOUS
    <2>3. CASE i \in S
      <3>1. attempts'[i] = attempts[i] + 1 /\ attempts[i] \in Nat
        BY <2>3 DEF TypeOK
      <3>2. status'[i] = IF attempts[i] + 1 >= MaxAttempts THEN "FAILED" ELSE "PENDING"
        BY <2>3
      <3> QED BY <2>2, <2>3, <3>1, <3>2
    <2>4. CASE i \notin S
      <3>1. status'[i] = status[i] /\ attempts'[i] = attempts[i]
        BY <2>4 DEF TypeOK
      <3> QED BY <2>2, <2>4, <3>1 DEF NoStrandedRow
    <2> QED BY <2>3, <2>4
  <1>6. FreshIds' /\ OnlyInFlightLocked'
    BY <1>1 DEF FreshIds, OnlyInFlightLocked, TypeOK, Ids, Live
  <1>4. LeasesPaidFor'
    BY <1>1 DEF LeasesPaidFor, TypeOK, Live
  <1>5. NoDuplicateLive'
    BY <1>1 DEF NoDuplicateLive, TypeOK, WithStatus, Live
  <1> QED BY <1>2, <1>3, <1>4, <1>5, <1>6

LEMMA CleanupIInv == ASSUME IInv, NEW S \in SUBSET Ids, Cleanup(S) PROVE IInv'
  <1> USE MaxAttemptsAssumption DEF IInv, Cleanup, WithStatus, Terminal
  <1>1. TypeOK'
    <2>1. status' \in [Ids -> Status]
      BY DEF TypeOK, Status
    <2>2. attempts' \in [Ids -> 0..MaxAttempts] /\ leases' \in [Ids -> Nat]
      BY DEF TypeOK
    <2>3. due' \in [Ids -> BOOLEAN] /\ payload' \in [Ids -> Payloads \cup {NoPayload}]
      BY DEF TypeOK
    <2> QED BY <2>1, <2>2, <2>3 DEF TypeOK
  <1>2. NoStrandedRow' /\ FreshIds' /\ OnlyInFlightLocked' /\ LeasesPaidFor'
    BY DEF NoStrandedRow, FreshIds, OnlyInFlightLocked, LeasesPaidFor, TypeOK, Ids
  <1>3. NoDuplicateLive'
    BY DEF NoDuplicateLive, TypeOK, Live
  <1> QED BY <1>1, <1>2, <1>3

LEMMA BackoffExpiresIInv == ASSUME IInv, NEW i \in Ids, BackoffExpires(i) PROVE IInv'
  BY DEF IInv, BackoffExpires, TypeOK, NoStrandedRow, NoDuplicateLive, FreshIds,
         OnlyInFlightLocked, LeasesPaidFor, WithStatus

LEMMA StutterIInv == ASSUME IInv, UNCHANGED outboxVars PROVE IInv'
  BY DEF IInv, outboxVars, TypeOK, NoStrandedRow, NoDuplicateLive, FreshIds,
         OnlyInFlightLocked, LeasesPaidFor, WithStatus

LEMMA NextIInv == IInv /\ [Next]_outboxVars => IInv'
  <1> SUFFICES ASSUME IInv, [Next]_outboxVars PROVE IInv'
    OBVIOUS
  <1>1. CASE \E p \in Payloads : Enqueue(p)
    BY <1>1, EnqueueIInv
  <1>2. CASE LeaseReady
    BY <1>2, LeaseReadyIInv
  <1>3. CASE \E i \in Ids : MarkSent(i)
    BY <1>3, FinishIInv DEF MarkSent, Terminal
  <1>4. CASE \E i \in Ids : MarkRejected(i)
    BY <1>4, FinishIInv DEF MarkRejected, Terminal
  <1>5. CASE \E i \in Ids : MarkFailed(i)
    BY <1>5, FailAttemptIInv DEF MarkFailed
  <1>6. CASE \E S \in SUBSET Ids : RecoverStaleInflight(S)
    <2>1. Locked \subseteq WithStatus(Live)
      BY DEF Locked, WithStatus, Live
    <2> QED BY <1>6, <2>1, FailAttemptIInv DEF RecoverStaleInflight
  <1>7. CASE \E S \in SUBSET Ids : Cleanup(S)
    BY <1>7, CleanupIInv
  <1>8. CASE Quarantine
    BY <1>8, QuarantineIInv
  <1>9. CASE \E i \in Ids : BackoffExpires(i)
    BY <1>9, BackoffExpiresIInv
  <1>10. CASE UNCHANGED outboxVars
    BY <1>10, StutterIInv
  <1> QED
    BY <1>1, <1>2, <1>3, <1>4, <1>5, <1>6, <1>7, <1>8, <1>9, <1>10 DEF Next

LEMMA IInvAlways == Spec => []IInv
  BY InitIInv, NextIInv, PTL DEF Spec

-----------------------------------------------------------------------------
(* The invariants and the action property that the model-checking run also *)
(* checks, for every value of the constants.                               *)

(* Rows keep their columns' types; in particular attempts never passes     *)
(* MAX_ATTEMPTS (computeBackoffSeconds is only called below it).           *)
THEOREM TypeCorrect == Spec => []TypeOK
  BY IInvAlways, PTL DEF IInv

(* No row is ever out of reach of both leaseReady and                      *)
(* recoverStaleInflight.                                                   *)
THEOREM NothingStranded == Spec => []NoStrandedRow
  BY IInvAlways, PTL DEF IInv

(* enqueue's duplicate check keeps live payloads distinct.                 *)
THEOREM LivePayloadsDistinct == Spec => []NoDuplicateLive
  BY IInvAlways, PTL DEF IInv

(* An event is handed to the sender at most MAX_ATTEMPTS times.            *)
THEOREM LeasesBounded == Spec => []BoundedLeases
  <1>1. IInv => BoundedLeases
    BY DEF IInv, LeasesPaidFor, BoundedLeases
  <1> QED BY <1>1, IInvAlways, PTL

(* An older ready row is a candidate whenever a younger one is.            *)
LEMMA OlderIsLeasable ==
    ASSUME IInv, NEW i \in Leasable, NEW j \in Ready, j < i
    PROVE  j \in Leasable
  <1> DEFINE Before(k) == {r \in Ready : r < k}
  <1>1. i \in Ready /\ Ready \subseteq Ids /\ i \in Int /\ j \in Int
    BY DEF Leasable, Candidates, Ready, WithStatus, Ids
  <1>2. IsFiniteSet(Before(i))
    <2>1. IsFiniteSet(Ids)
      BY FS_Interval, MaxIdAssumption DEF Ids
    <2> QED BY <1>1, <2>1, FS_Subset
  <1>3. Before(j) \subseteq Before(i)
    <2> SUFFICES ASSUME NEW r \in Ready, r < j PROVE r < i
      OBVIOUS
    <2> QED BY <1>1 DEF Ids
  <1>4. /\ Cardinality(Before(j)) <= Cardinality(Before(i))
        /\ Cardinality(Before(j)) \in Nat
        /\ Cardinality(Before(i)) \in Nat
    BY <1>2, <1>3, FS_Subset, FS_CardinalityType
  <1>5. Cardinality(Before(i)) < LeaseLimit
    BY DEF Leasable, Candidates
  <1>6. Cardinality(Before(j)) < LeaseLimit
    BY <1>4, <1>5, LeaseLimitAssumption
  <1>7. j \in Candidates /\ ~locked[j]
    BY <1>6 DEF Candidates, IInv, OnlyInFlightLocked, Ready, WithStatus
  <1> QED BY <1>7 DEF Leasable

LEMMA OnlyLeaseReadyLeases ==
    ASSUME IInv, Next, NEW i \in Ids, leases'[i] > leases[i]
    PROVE  LeaseReady
  <1>1. leases[i] \in Nat /\ ~(leases[i] > leases[i])
    BY DEF IInv, TypeOK
  <1>2. leases' # leases
    BY <1>1
  <1>3. ASSUME NEW S \in SUBSET Ids, Cleanup(S) PROVE FALSE
    BY <1>1, <1>3 DEF Cleanup
  <1>4. ASSUME Quarantine PROVE FALSE
    BY <1>1, <1>4 DEF Quarantine, All
  <1> QED
    BY <1>2, <1>3, <1>4 DEF Next, Enqueue, MarkSent, MarkRejected, Finish, MarkFailed,
            RecoverStaleInflight, FailAttempt, BackoffExpires

LEMMA LeaseInOrderStep ==
    IInv /\ [Next]_outboxVars =>
        [\A i \in Ids : \A j \in Ready :
            (j < i /\ leases'[i] > leases[i]) => leases'[j] > leases[j]]_outboxVars
  <1> SUFFICES ASSUME IInv, Next, NEW i \in Ids, NEW j \in Ready, j < i, leases'[i] > leases[i]
               PROVE  leases'[j] > leases[j]
    OBVIOUS
  <1>1. LeaseReady
    BY OnlyLeaseReadyLeases
  <1>2. j \in Ids /\ leases[i] \in Nat /\ leases[j] \in Nat
    BY DEF Ready, WithStatus, IInv, TypeOK
  <1>3. i \in Leasable
    BY <1>1, <1>2 DEF LeaseReady
  <1>4. j \in Leasable
    BY <1>3, OlderIsLeasable
  <1> QED BY <1>1, <1>2, <1>4 DEF LeaseReady

(* leaseReady never takes a row and leaves an older ready one behind.      *)
THEOREM LeasesInOrder == Spec => LeaseInOrder
  BY LeaseInOrderStep, IInvAlways, PTL DEF Spec, LeaseInOrder

-----------------------------------------------------------------------------
(* Refinement: Outbox implements DurableQueue.                             *)

LEMMA StageOfRow ==
    ASSUME TypeOK, NEW i \in Ids
    PROVE  stageOf[i] = IF status[i] \in Live THEN "waiting"
                        ELSE IF status[i] = "SENT" THEN "done"
                        ELSE IF status[i] = "FAILED" THEN "dead"
                        ELSE IF i < nextId THEN "forgotten" ELSE "unknown"
  BY DEF stageOf, Live

LEMMA InitRefines == Init => Abstract!Init
  <1> SUFFICES ASSUME Init PROVE Abstract!Init
    OBVIOUS
  <1>1. stageOf = [i \in Ids |-> "unknown"]
    BY DEF Init, All, stageOf, Live, Ids
  <1> QED BY <1>1 DEF Init, All, Abstract!Init

LEMMA EnqueueRefines == ASSUME IInv, NEW p \in Payloads, Enqueue(p) PROVE Abstract!Next
  <1>1. nextId \in Ids /\ nextId \in Nat /\ status[nextId] = "ABSENT" /\ TypeOK
    BY DEF Enqueue, IInv, FreshIds, Ids, TypeOK
  <1> USE DEF Enqueue
  <1>2. stageOf[nextId] = "unknown"
    BY <1>1, StageOfRow DEF Live, TypeOK
  <1>3. stageOf' = [stageOf EXCEPT ![nextId] = "waiting"]
    <2>1. \A i \in Ids : i # nextId => status'[i] = status[i] /\ (i < nextId' <=> i < nextId)
      BY <1>1 DEF TypeOK, Ids
    <2>2. status'[nextId] = "PENDING"
      BY <1>1 DEF TypeOK
    <2> QED BY <1>1, <2>1, <2>2 DEF stageOf, Live
  <1>4. Abstract!Accept(nextId)
    BY <1>2, <1>3 DEF Abstract!Accept
  <1> QED BY <1>1, <1>4 DEF Abstract!Next

LEMMA LeaseReadyRefines == ASSUME IInv, LeaseReady PROVE Abstract!Next
  <1> USE DEF LeaseReady
  <1>0. \A i \in Leasable : i \in Ids /\ status[i] = "PENDING" /\ attempts[i] < MaxAttempts
    BY LeasableRows DEF IInv
  <1>1. \A i \in Leasable : i \in Ids /\ status[i] = "PENDING" /\ leases[i] < MaxAttempts
    BY <1>0, MaxAttemptsAssumption DEF IInv, LeasesPaidFor, TypeOK
  <1>2. \A i \in Leasable : stageOf[i] = "waiting"
    BY <1>1, StageOfRow DEF IInv, Live
  <1>3. stageOf' = stageOf
    BY <1>1 DEF stageOf, Live, IInv, TypeOK
  <1>4. Abstract!HandOut(Leasable)
    BY <1>1, <1>2, <1>3 DEF Abstract!HandOut
  <1> QED BY <1>1, <1>4 DEF Abstract!Next

LEMMA FinishRefines ==
    ASSUME IInv, NEW i \in Ids, NEW outcome \in Terminal, Finish(i, outcome)
    PROVE  Abstract!Next \/ UNCHANGED <<stageOf, leases>>
  <1> USE DEF Finish, IInv
  <1>1. CASE status[i] \in Live
    <2>1. stageOf[i] = "waiting"
      BY <1>1, StageOfRow
    <2>2. stageOf' = [j \in Ids |-> IF j \in {i} THEN IF outcome = "SENT" THEN "done" ELSE "dead"
                                    ELSE stageOf[j]]
      BY <1>1 DEF stageOf, Live, TypeOK, Terminal
    <2>3. Abstract!Settle({i}, IF outcome = "SENT" THEN "done" ELSE "dead")
      BY <2>1, <2>2 DEF Abstract!Settle
    <2>4. Abstract!Complete(i) \/ Abstract!GiveUp({i})
      BY <2>3 DEF Abstract!Complete, Abstract!GiveUp
    <2> QED BY <2>4 DEF Abstract!Next
  <1>2. CASE status[i] \notin Live
    <2>1. status' = status
      BY <1>2 DEF TypeOK
    <2> QED BY <2>1 DEF stageOf
  <1> QED BY <1>1, <1>2

LEMMA FailAttemptRefines ==
    ASSUME IInv, NEW S \in SUBSET WithStatus(Live), FailAttempt(S)
    PROVE  Abstract!Next
  <1> DEFINE D == {i \in S : attempts[i] + 1 >= MaxAttempts}
  <1>1. \A i \in S : i \in Ids /\ status[i] \in Live
    BY DEF WithStatus
  <1>2. \A i \in D : stageOf[i] = "waiting"
    BY <1>1, StageOfRow DEF IInv
  <1>3. stageOf' = [i \in Ids |-> IF i \in D THEN "dead" ELSE stageOf[i]]
    BY <1>1 DEF stageOf, FailAttempt, Live, IInv, TypeOK
  <1>4. Abstract!GiveUp(D)
    BY <1>2, <1>3 DEF Abstract!GiveUp, Abstract!Settle, FailAttempt
  <1> QED BY <1>1, <1>4 DEF Abstract!Next

LEMMA CleanupRefines == ASSUME IInv, NEW S \in SUBSET Ids, Cleanup(S) PROVE Abstract!Next
  <1> DEFINE D == S \cap WithStatus(Terminal)
  <1>1. \A i \in D : i \in Ids /\ status[i] \in Terminal /\ i < nextId
    BY DEF WithStatus, IInv, FreshIds, Terminal, TypeOK, Ids
  <1>2. \A i \in D : stageOf[i] \in {"done", "dead"}
    BY <1>1, StageOfRow DEF IInv, Terminal, Live
  <1>3. stageOf' = [i \in Ids |-> IF i \in D THEN "forgotten" ELSE stageOf[i]]
    BY <1>1 DEF stageOf, Cleanup, Live, Terminal, IInv, TypeOK
  <1>4. Abstract!Forget(D)
    BY <1>2, <1>3 DEF Abstract!Forget, Cleanup
  <1> QED BY <1>1, <1>4 DEF Abstract!Next

LEMMA QuarantineRefines == ASSUME Quarantine PROVE Abstract!Next
  <1>1. stageOf' = [i \in Ids |-> "unknown"]
    BY DEF Quarantine, All, stageOf, Live, Ids
  <1> QED BY <1>1 DEF Quarantine, All, Abstract!Next, Abstract!StartOver, Abstract!Init

LEMMA NextRefines == IInv /\ [Next]_outboxVars => [Abstract!Next]_<<stageOf, leases>>
  <1> SUFFICES ASSUME IInv, [Next]_outboxVars PROVE [Abstract!Next]_<<stageOf, leases>>
    OBVIOUS
  <1>1. CASE \E p \in Payloads : Enqueue(p)
    BY <1>1, EnqueueRefines
  <1>2. CASE LeaseReady
    BY <1>2, LeaseReadyRefines
  <1>3. CASE \E i \in Ids : MarkSent(i) \/ MarkRejected(i)
    BY <1>3, FinishRefines DEF MarkSent, MarkRejected, Terminal
  <1>4. CASE \E i \in Ids : MarkFailed(i)
    BY <1>4, FailAttemptRefines DEF MarkFailed
  <1>5. CASE \E S \in SUBSET Ids : RecoverStaleInflight(S)
    <2>1. Locked \subseteq WithStatus(Live)
      BY DEF Locked, WithStatus, Live
    <2> QED BY <1>5, <2>1, FailAttemptRefines DEF RecoverStaleInflight
  <1>6. CASE \E S \in SUBSET Ids : Cleanup(S)
    BY <1>6, CleanupRefines
  <1>7. CASE Quarantine
    BY <1>7, QuarantineRefines
  <1>8. CASE \E i \in Ids : BackoffExpires(i)
    BY <1>8 DEF BackoffExpires, stageOf
  <1>9. CASE UNCHANGED outboxVars
    BY <1>9 DEF outboxVars, stageOf
  <1> QED
    BY <1>1, <1>2, <1>3, <1>4, <1>5, <1>6, <1>7, <1>8, <1>9 DEF Next

(* The SQLite queue keeps the promise of the abstract one: every event is  *)
(* settled at most once, none revives, no id is given to two events, and   *)
(* none is handed out beyond MAX_ATTEMPTS.                                 *)
THEOREM OutboxImplementsDurableQueue == Spec => ImplementsDurableQueue
  BY InitRefines, NextRefines, IInvAlways, PTL
     DEF Spec, ImplementsDurableQueue, Abstract!Spec, Abstract!vars
=============================================================================
