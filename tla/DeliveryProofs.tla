--------------------------- MODULE DeliveryProofs ---------------------------
(***************************************************************************)
(* Proofs about Delivery, for every set of payloads, every MAX_ATTEMPTS,   *)
(* every lease limit and every number of ids.  Three layers, each          *)
(* inductive relative to the ones before it: the rows, what they say of    *)
(* the control plane, and who wakes the sender.                            *)
(***************************************************************************)
EXTENDS Delivery, TLAPS

(* A live row has an attempt left.                                         *)
Budget == \A i \in Ids : status[i] \in Q!Live => attempts[i] < MaxAttempts

(* An id not yet handed out has no row.                                    *)
FreshIds == \A i \in Ids : i >= nextId => status[i] = "ABSENT"

Columns == Q!TypeOK /\ Budget /\ FreshIds
Rows == TypeOK /\ Columns

(* An ACK on its way tells what the control plane did.                     *)
AcksTrue ==
    \A i \in Ids :
        /\ <<i, 0>> \in acks => i \in delivered
        /\ <<i, 2>> \in acks => i \in refused

Honest == AcksTrue /\ NothingLostSilently

(* Only the sender of a stream that is not down has started.               *)
StartedUp == started => conn # "down"

Awake == StartedUp /\ NoLostWakeup

(* A step of the outbox that ends no row but for want of attempts.         *)
EndsOnlyExhausted ==
    \A i \in Ids :
        \/ status'[i] = status[i] /\ attempts'[i] = attempts[i]
        \/ status'[i] \in Q!Live
        \/ status'[i] = "FAILED" /\ attempts'[i] = MaxAttempts

-----------------------------------------------------------------------------
(* The operations of the outbox that the delivery uses.                    *)

LEMMA EnqueueRows ==
    ASSUME Columns, NEW p \in Payloads, Q!Enqueue(p)
    PROVE  Columns' /\ EndsOnlyExhausted
  <1> USE OutboxAssumption DEF Columns, Q!Enqueue, Q!TypeOK, Q!Live, Ids, Q!Ids
  <1>1. Q!TypeOK'
    BY DEF Q!Status
  <1>2. Budget'
    BY DEF Budget
  <1>9. FreshIds'
    BY DEF FreshIds
  <1>3. EndsOnlyExhausted
    BY DEF EndsOnlyExhausted
  <1> QED BY <1>1, <1>2, <1>3, <1>9

LEMMA LeaseRows ==
    ASSUME Columns, Q!LeaseReady
    PROVE  Columns' /\ EndsOnlyExhausted
  <1> USE DEF Columns, Q!LeaseReady, Q!TypeOK, Q!Live, Ids
  <1>1. \A i \in Q!Leasable : i \in Q!Ids /\ attempts[i] < MaxAttempts
    BY DEF Q!Leasable, Q!Candidates, Q!Ready, Q!WithStatus
  <1>2. Q!TypeOK'
    <2>1. status' \in [Q!Ids -> Q!Status]
      BY DEF Q!Status
    <2>2. locked' \in [Q!Ids -> BOOLEAN]
      OBVIOUS
    <2>3. leases' \in [Q!Ids -> Nat]
      OBVIOUS
    <2> QED BY <2>1, <2>2, <2>3
  <1>3. Budget'
    BY <1>1 DEF Budget
  <1>9. FreshIds'
    BY <1>1 DEF FreshIds, Q!Leasable, Q!Candidates, Q!Ready, Q!WithStatus
  <1>4. EndsOnlyExhausted
    BY DEF EndsOnlyExhausted
  <1> QED BY <1>2, <1>3, <1>4, <1>9

LEMMA FinishRows ==
    ASSUME Columns, NEW i \in Ids, NEW outcome \in {"SENT", "FAILED"}, Q!Finish(i, outcome)
    PROVE  /\ Columns'
           /\ attempts' = attempts
           /\ \A j \in Ids : status'[j] = IF j = i /\ status[i] \in Q!Live THEN outcome ELSE status[j]
  <1> USE DEF Columns, Q!Finish, Q!TypeOK, Q!Live, Ids
  <1>1. Q!TypeOK'
    BY DEF Q!Status
  <1>2. Budget'
    BY DEF Budget
  <1>9. FreshIds'
    BY DEF FreshIds
  <1> QED BY <1>1, <1>2, <1>9

LEMMA FailAttemptRows ==
    ASSUME Columns, NEW S \in SUBSET Q!WithStatus(Q!Live), Q!FailAttempt(S)
    PROVE  Columns' /\ EndsOnlyExhausted
  <1> USE OutboxAssumption DEF Columns, Q!FailAttempt, Q!TypeOK, Q!Live, Ids
  <1>1. \A i \in S : i \in Q!Ids /\ attempts[i] < MaxAttempts
    BY DEF Q!WithStatus, Budget
  <1>2. \A i \in Q!Ids : attempts[i] \in Nat
    OBVIOUS
  <1>3. Q!TypeOK'
    <2>1. status' \in [Q!Ids -> Q!Status]
      BY DEF Q!Status
    <2>2. attempts' \in [Q!Ids -> 0..MaxAttempts]
      BY <1>1
    <2>3. due' \in [Q!Ids -> BOOLEAN] /\ locked' \in [Q!Ids -> BOOLEAN]
      OBVIOUS
    <2> QED BY <2>1, <2>2, <2>3
  <1>4. Budget'
    BY <1>1, <1>2 DEF Budget
  <1>9. FreshIds'
    BY DEF FreshIds, Q!WithStatus
  <1>5. EndsOnlyExhausted
    BY <1>1, <1>2 DEF EndsOnlyExhausted
  <1> QED BY <1>3, <1>4, <1>5, <1>9

LEMMA MarkFailedRows ==
    ASSUME Columns, NEW i \in Ids, Q!MarkFailed(i)
    PROVE  Columns' /\ EndsOnlyExhausted
  BY FailAttemptRows DEF Q!MarkFailed

LEMMA RecoverRows ==
    ASSUME Columns, NEW S, Q!RecoverStaleInflight(S)
    PROVE  Columns' /\ EndsOnlyExhausted
  <1>1. S \cap Q!Locked \subseteq Q!WithStatus(Q!Live)
    BY DEF Q!Locked, Q!WithStatus, Q!Live
  <1> QED BY <1>1, FailAttemptRows DEF Q!RecoverStaleInflight

LEMMA BackoffRows ==
    ASSUME Columns, NEW i \in Ids, Q!BackoffExpires(i)
    PROVE  Columns' /\ EndsOnlyExhausted
  BY DEF Columns, FreshIds, Q!BackoffExpires, Q!TypeOK, Budget, EndsOnlyExhausted, Q!Live, Ids

LEMMA SameRows ==
    ASSUME Columns, UNCHANGED outboxVars
    PROVE  Columns' /\ EndsOnlyExhausted
  BY DEF Columns, FreshIds, outboxVars, Q!TypeOK, Budget, EndsOnlyExhausted

-----------------------------------------------------------------------------
(* The steps of Delivery that touch the rows, each an operation above, and *)
(* what they do to them: nothing ends but exhausted rows, except by an ACK *)
(* or a rejection.                                                         *)

LEMMA DrainOnceRows ==
    ASSUME Rows, DrainOnce PROVE Columns' /\ EndsOnlyExhausted
  <1>1. CASE Q!Leasable = {}
    BY <1>1, SameRows DEF DrainOnce, Rows, TypeOK
  <1>2. CASE Q!Leasable # {}
    BY <1>2, LeaseRows DEF DrainOnce, Rows, TypeOK
  <1> QED BY <1>1, <1>2

LEMMA AckRows ==
    ASSUME Rows, NEW i \in Ids, NEW s \in AckStatus, AckPush(i, s)
    PROVE  Columns'
  <1>1. CASE s = 0 /\ Q!MarkSent(i)
    BY <1>1, FinishRows DEF Rows, TypeOK, Q!MarkSent
  <1>2. CASE s = 1 /\ Q!MarkFailed(i)
    BY <1>2, MarkFailedRows DEF Rows, TypeOK
  <1>3. CASE s = 2 /\ Q!MarkRejected(i)
    BY <1>3, FinishRows DEF Rows, TypeOK, Q!MarkRejected
  <1> QED BY <1>1, <1>2, <1>3 DEF AckPush, ApplyAck

LEMMA RejectRows ==
    ASSUME Rows, NEW i \in Ids, RejectTooLarge(i)
    PROVE  Columns'
  BY FinishRows DEF RejectTooLarge, Rows, TypeOK, Q!MarkRejected

(* Every other step.                                                       *)
Quietly ==
    \/ \E p \in Payloads : Enqueue(p)
    \/ \E i \in Ids : BackoffExpires(i)
    \/ \E i \in Ids : LockAges(i)
    \/ StartStream \/ BridgeReady \/ ReadyAgain \/ GoesSilent \/ Heartbeat
    \/ SenderStarts \/ Disconnect \/ Restart \/ RotateCert \/ RotationSettles
    \/ DrainDeferred \/ DrainOnce \/ RetryTimerFires
    \/ \E i \in Ids : WriteFacts(i)
    \/ \E i \in Ids, s \in AckStatus : ServerProcesses(i, s)
    \/ UNCHANGED vars

LEMMA QuietRows == ASSUME Rows, Quietly PROVE Columns' /\ EndsOnlyExhausted
  <1> USE DEF Rows, TypeOK
  <1>1. CASE \E p \in Payloads : Enqueue(p)
    BY <1>1, EnqueueRows DEF Enqueue
  <1>2. CASE \E i \in Ids : BackoffExpires(i)
    BY <1>2, BackoffRows DEF BackoffExpires
  <1>3. CASE StartStream
    BY <1>3, RecoverRows DEF StartStream
  <1>4. CASE Restart
    BY <1>4, RecoverRows DEF Restart
  <1>5. CASE DrainOnce
    BY <1>5, DrainOnceRows
  <1>6. CASE UNCHANGED outboxVars
    BY <1>6, SameRows
  <1> QED
    BY <1>1, <1>2, <1>3, <1>4, <1>5, <1>6
       DEF Quietly, LockAges, BridgeReady, ReadyAgain, GoesSilent, Heartbeat, SenderStarts,
           Disconnect, RotateCert, RotationSettles, DrainDeferred, RetryTimerFires,
           WriteFacts, ServerProcesses, vars

LEMMA NextSplit ==
    ASSUME [Next]_vars
    PROVE  \/ Quietly
           \/ \E i \in Ids : RejectTooLarge(i)
           \/ \E i \in Ids, s \in AckStatus : AckPush(i, s)
  BY DEF Next, Quietly

-----------------------------------------------------------------------------
(* Types.                                                                  *)

LEMMA InitRows == Init => Rows
  <1> SUFFICES ASSUME Init PROVE Rows
    OBVIOUS
  <1> USE DEF Init, Q!Init, Q!All, Ids
  <1>1. Q!TypeOK
    BY OutboxAssumption DEF Q!TypeOK, Q!Status, Q!Ids
  <1>2. Budget /\ FreshIds
    BY OutboxAssumption DEF Budget, FreshIds, Q!Live, Q!Ids
  <1>3. <<started, drainScheduled, retryArmed, rotating>> \in BOOLEAN \X BOOLEAN \X BOOLEAN \X BOOLEAN
    OBVIOUS
  <1> QED BY <1>1, <1>2, <1>3 DEF Rows, Columns, TypeOK

(* The ages are kept for rows in flight only.                              *)
LEMMA AgesInFlight ==
    ASSUME Rows, [Next]_vars PROVE aged' \subseteq InFlight'
  <1> USE DEF Rows, TypeOK, InFlight, Q!WithStatus, Ids
  <1>1. CASE KeepAges
    BY <1>1 DEF KeepAges
  <1>2. CASE aged' = aged /\ status' = status
    BY <1>2
  <1>3. CASE \E i \in Ids : LockAges(i)
    BY <1>3 DEF LockAges, outboxVars
  <1>4. CASE \E p \in Payloads : Enqueue(p)
    <2>1. status[nextId] = "ABSENT" /\ nextId \in Q!Ids
      BY <1>4 DEF Enqueue, Q!Enqueue, Columns, FreshIds, Q!TypeOK, Q!Ids
    <2>2. \A i \in Q!Ids : status[i] = "IN_FLIGHT" => status'[i] = "IN_FLIGHT"
      BY <1>4, <2>1 DEF Enqueue, Q!Enqueue, Q!TypeOK
    <2> QED BY <1>4, <2>2 DEF Enqueue
  <1>5. CASE DrainOnce
    <2>1. \A i \in Q!Ids : status[i] = "IN_FLIGHT" => status'[i] = "IN_FLIGHT"
      BY <1>5 DEF DrainOnce, Q!LeaseReady, outboxVars
    <2> QED BY <1>5, <2>1 DEF DrainOnce
  <1>6. CASE \E i \in Ids : BackoffExpires(i)
    BY <1>2, <1>6 DEF BackoffExpires, Q!BackoffExpires, senderVars
  <1>7. CASE \E i \in Ids : RejectTooLarge(i)
    BY <1>1, <1>7 DEF RejectTooLarge
  <1>8. CASE \E i \in Ids, s \in AckStatus : AckPush(i, s)
    BY <1>1, <1>8 DEF AckPush
  <1>9. CASE StartStream \/ Restart
    BY <1>1, <1>9 DEF StartStream, Restart
  <1> QED
    BY <1>2, <1>3, <1>4, <1>5, <1>6, <1>7, <1>8, <1>9
       DEF Next, BridgeReady, ReadyAgain, GoesSilent, Heartbeat, SenderStarts, Disconnect,
           RotateCert, RotationSettles, DrainDeferred, RetryTimerFires, WriteFacts,
           ServerProcesses, vars, senderVars, outboxVars

LEMMA NextRows == Rows /\ [Next]_vars => Rows'
  <1> SUFFICES ASSUME Rows, [Next]_vars PROVE Rows'
    OBVIOUS
  <1> USE DEF Next, Enqueue, BackoffExpires, LockAges, StartStream, BridgeReady,
           ReadyAgain, GoesSilent, Heartbeat, SenderStarts, Disconnect, Restart, RotateCert,
           RotationSettles, DrainDeferred, DrainOnce, RetryTimerFires, WriteFacts,
           RejectTooLarge, ServerProcesses, AckPush, StreamGone, vars, senderVars, remoteVars
  <1>1. Columns'
    BY NextSplit, QuietRows, RejectRows, AckRows
  <1>2. conn' \in {"down", "connecting", "ready", "silent"}
    BY DEF Rows, TypeOK, Traffic
  <1>3. <<started, drainScheduled, retryArmed, rotating>>' \in BOOLEAN \X BOOLEAN \X BOOLEAN \X BOOLEAN
    BY DEF Rows, TypeOK, NotifyChanged
  <1>4. /\ chain' \subseteq Ids /\ wire' \subseteq Ids
        /\ delivered' \subseteq Ids /\ refused' \subseteq Ids
    BY DEF Rows, TypeOK, Ids, Q!Leasable, Q!Candidates, Q!Ready, Q!WithStatus
  <1>5. acks' \subseteq Ids \X AckStatus
    <2>1. CASE \E i \in Ids, s \in AckStatus : ServerProcesses(i, s)
      BY <2>1 DEF Rows, TypeOK
    <2>2. CASE acks' \subseteq acks
      BY <2>2 DEF Rows, TypeOK
    <2> QED BY <2>1, <2>2
  <1> QED BY <1>1, <1>2, <1>3, <1>4, <1>5, AgesInFlight DEF Rows, Columns, TypeOK

LEMMA RowsAlways == Spec => []Rows
  BY InitRows, NextRows, PTL DEF Spec

(* Columns keep their types, an age belongs to a row in flight, and the    *)
(* write chain, the wire and the ACKs name rows.                           *)
THEOREM TypeCorrect == Spec => []TypeOK
  BY RowsAlways, PTL DEF Rows

-----------------------------------------------------------------------------
(* What the rows say of the control plane.                                 *)

(* The histories only grow, and an ACK is sent for what was just done.     *)
LEMMA AcksTrueStep ==
    ASSUME Rows, AcksTrue, [Next]_vars
    PROVE  AcksTrue' /\ delivered \subseteq delivered' /\ refused \subseteq refused'
  <1> USE DEF AcksTrue
  <1>1. CASE \E i \in Ids, s \in AckStatus : ServerProcesses(i, s)
    BY <1>1 DEF ServerProcesses, AckStatus
  <1>2. CASE acks' \subseteq acks /\ delivered' = delivered /\ refused \subseteq refused'
    BY <1>2
  <1> QED
    BY <1>1, <1>2
       DEF Next, Enqueue, BackoffExpires, LockAges, StartStream, BridgeReady, ReadyAgain,
           GoesSilent, Heartbeat, SenderStarts, Disconnect, Restart, RotateCert,
           RotationSettles, DrainDeferred, DrainOnce, RetryTimerFires, WriteFacts,
           RejectTooLarge, AckPush, StreamGone, vars, senderVars, remoteVars

LEMMA HonestStep ==
    ASSUME Rows, Honest, [Next]_vars PROVE Honest'
  <1> USE DEF Honest
  <1>1. AcksTrue' /\ delivered \subseteq delivered' /\ refused \subseteq refused'
    BY AcksTrueStep
  <1>2. ASSUME EndsOnlyExhausted PROVE NothingLostSilently'
    BY <1>1, <1>2 DEF EndsOnlyExhausted, NothingLostSilently, Q!Live
  <1>3. CASE Quietly
    BY <1>1, <1>2, <1>3, QuietRows
  <1>4. ASSUME NEW i \in Ids, RejectTooLarge(i) PROVE NothingLostSilently'
    <2>1. i \in refused' /\ Q!Finish(i, "FAILED")
      BY <1>4 DEF RejectTooLarge, Q!MarkRejected
    <2> QED BY <1>1, <2>1, FinishRows DEF NothingLostSilently, Rows
  <1>5. ASSUME NEW i \in Ids, NEW s \in AckStatus, AckPush(i, s) PROVE NothingLostSilently'
    <2>1. CASE s = 0 /\ Q!MarkSent(i)
      <3>1. i \in delivered'
        BY <1>1, <1>5, <2>1 DEF AcksTrue, AckPush
      <3> QED BY <1>1, <2>1, <3>1, FinishRows DEF NothingLostSilently, Rows, Q!MarkSent
    <2>2. CASE s = 1 /\ Q!MarkFailed(i)
      BY <1>2, <2>2, MarkFailedRows DEF Rows
    <2>3. CASE s = 2 /\ Q!MarkRejected(i)
      <3>1. i \in refused'
        BY <1>1, <1>5, <2>3 DEF AcksTrue, AckPush
      <3> QED BY <1>1, <2>3, <3>1, FinishRows DEF NothingLostSilently, Rows, Q!MarkRejected
    <2> QED BY <1>5, <2>1, <2>2, <2>3 DEF AckPush, ApplyAck
  <1> QED BY <1>1, <1>3, <1>4, <1>5, NextSplit

LEMMA InitHonest == Init => Honest
  BY DEF Init, Q!Init, Q!All, Honest, AcksTrue, NothingLostSilently, Ids

(* Remote ACK is the delivery boundary (the head of grpc-client.ts): a row *)
(* is SENT only if the control plane accepted its event, and FAILED only   *)
(* if it was refused for good or has no attempt left, whatever ACKs come   *)
(* late, twice or from an earlier stream.                                  *)
THEOREM DeliveryIsHonest == Spec => []NothingLostSilently
  <1>1. Rows /\ Honest /\ [Next]_vars => Honest'
    BY HonestStep
  <1>2. Honest => NothingLostSilently
    BY DEF Honest
  <1> QED BY InitHonest, <1>1, <1>2, RowsAlways, PTL DEF Spec

-----------------------------------------------------------------------------
(* Who wakes the sender.                                                   *)

LEMMA InitAwake == Init => Awake
  BY DEF Init, Awake, StartedUp, NoLostWakeup

LEMMA StartedUpStep == ASSUME StartedUp, [Next]_vars PROVE StartedUp'
  BY DEF StartedUp, Next, Enqueue, BackoffExpires, LockAges, StartStream, BridgeReady,
         ReadyAgain, GoesSilent, Heartbeat, SenderStarts, Disconnect, Restart, RotateCert,
         RotationSettles, DrainDeferred, DrainOnce, RetryTimerFires, WriteFacts,
         RejectTooLarge, ServerProcesses, AckPush, StreamGone, Traffic, vars, senderVars

(* An ACK for a row that is no longer live leaves every row as it is.      *)
LEMMA LateAckSparesRows ==
    ASSUME Rows, NEW i \in Ids, NEW s \in AckStatus, ApplyAck(i, s), i \notin Live
    PROVE  Pending' = Pending
  <1>1. status[i] \notin Q!Live
    BY DEF Live, Q!WithStatus, Ids
  <1>2. status' = status
    <2>1. CASE Q!MarkSent(i) \/ Q!MarkRejected(i)
      BY <1>1, <2>1 DEF Q!MarkSent, Q!MarkRejected, Q!Finish, Rows, Columns, Q!TypeOK
    <2>2. CASE Q!MarkFailed(i)
      <3>1. {i} \cap Q!WithStatus(Q!Live) = {}
        BY <1>1 DEF Q!WithStatus
      <3> QED BY <2>2, <3>1 DEF Q!MarkFailed, Q!FailAttempt, Rows, Columns, Q!TypeOK
    <2> QED BY <2>1, <2>2 DEF ApplyAck
  <1> QED BY <1>2 DEF Pending, Q!WithStatus

(* A row becomes PENDING by a step that notifies a started sender, or when *)
(* there is none; a drain gives up its turn only for the retry timer.      *)
LEMMA AwakeStep ==
    ASSUME Rows, Awake, [Next]_vars PROVE Awake'
  <1> USE DEF Awake, NoLostWakeup
  <1>1. StartedUp'
    BY StartedUpStep
  <1>2. CASE ~started' \/ drainScheduled'
    BY <1>1, <1>2
  <1>3. ASSUME started' => started, Pending' = Pending,
               drainScheduled \/ retryArmed => drainScheduled' \/ retryArmed'
        PROVE  Awake'
    BY <1>1, <1>3, Zenon
  <1>4. ASSUME NotifyChanged, started' = started PROVE Awake'
    <2>1. drainScheduled' = (drainScheduled \/ started)
      BY <1>4 DEF NotifyChanged
    <2> QED BY <1>2, <1>4, <2>1, Zenon
  <1>5. CASE \E p \in Payloads : Enqueue(p)
    BY <1>5, <1>4 DEF Enqueue
  <1>6. CASE \E i \in Ids : BackoffExpires(i)
    <2>1. Pending' = Pending
      BY <1>6 DEF BackoffExpires, Q!BackoffExpires, Pending, Q!WithStatus
    <2> QED BY <1>3, <1>6, <2>1 DEF BackoffExpires, senderVars
  <1>7. CASE \E i \in Ids : RejectTooLarge(i)
    BY <1>7, <1>4 DEF RejectTooLarge
  <1>8. CASE \E i \in Ids, s \in AckStatus : AckPush(i, s)
    <2>1. PICK i \in Ids, s \in AckStatus : AckPush(i, s)
      BY <1>8
    <2>2. CASE i \in Live
      BY <1>4, <2>1, <2>2 DEF AckPush
    <2>3. CASE i \notin Live
      BY <1>3, <2>1, <2>3, LateAckSparesRows DEF AckPush
    <2> QED BY <2>2, <2>3
  <1>9. CASE StartStream
    BY <1>2, <1>9 DEF StartStream, StartedUp
  <1>10. CASE BridgeReady \/ ReadyAgain \/ SenderStarts \/ RetryTimerFires
    BY <1>2, <1>10 DEF BridgeReady, ReadyAgain, SenderStarts, RetryTimerFires
  <1>11. CASE Disconnect \/ Restart
    BY <1>2, <1>11 DEF Disconnect, Restart, StreamGone
  <1>12. CASE DrainDeferred
    <2>1. Pending' = Pending
      BY <1>12 DEF DrainDeferred, outboxVars, Pending, Q!WithStatus
    <2> QED BY <1>1, <1>12, <2>1 DEF DrainDeferred
  <1>13. CASE DrainOnce
    BY <1>1, <1>13 DEF DrainOnce
  <1>14. ASSUME UNCHANGED <<outboxVars, started, drainScheduled, retryArmed>> PROVE Awake'
    BY <1>3, <1>14 DEF outboxVars, Pending, Q!WithStatus
  <1> QED
    BY <1>5, <1>6, <1>7, <1>8, <1>9, <1>10, <1>11, <1>12, <1>13, <1>14
       DEF Next, LockAges, GoesSilent, Heartbeat, RotateCert, RotationSettles, WriteFacts,
           ServerProcesses, vars, senderVars

(* No lost wake-up (the finally of drainOnce, armRetryTimer, requestDrain  *)
(* as the listener of onChanged): while a started sender has a PENDING     *)
(* event, a drain is queued or the timer that queues one is set.           *)
THEOREM SenderIsAwake == Spec => []NoLostWakeup
  <1>1. Rows /\ Awake /\ [Next]_vars => Awake'
    BY AwakeStep
  <1>2. Awake => NoLostWakeup
    BY DEF Awake
  <1> QED BY InitAwake, <1>1, <1>2, RowsAlways, PTL DEF Spec

-----------------------------------------------------------------------------
(* The queue below.                                                        *)

LEMMA StepOfOutbox == ASSUME Rows, [Next]_vars PROVE [Q!Next]_Q!outboxVars
  <1> USE DEF Ids
  <1>1. CASE \E p \in Payloads : Enqueue(p)
    BY <1>1 DEF Enqueue, Q!Next
  <1>2. CASE \E i \in Ids : BackoffExpires(i)
    BY <1>2 DEF BackoffExpires, Q!Next
  <1>3. CASE StartStream
    <2>1. aged \in SUBSET Q!Ids /\ Q!RecoverStaleInflight(aged)
      BY <1>3 DEF StartStream, Rows, TypeOK, InFlight, Q!WithStatus
    <2> QED BY <2>1 DEF Q!Next
  <1>4. CASE Restart
    <2>1. PICK Old \in SUBSET aged : Q!RecoverStaleInflight(Old)
      BY <1>4 DEF Restart
    <2>2. Old \in SUBSET Q!Ids
      BY DEF Rows, TypeOK, InFlight, Q!WithStatus
    <2> QED BY <2>1, <2>2 DEF Q!Next
  <1>5. CASE DrainOnce
    BY <1>5 DEF DrainOnce, Q!Next, Q!outboxVars, outboxVars
  <1>6. CASE \E i \in Ids : RejectTooLarge(i)
    BY <1>6 DEF RejectTooLarge, Q!Next
  <1>7. CASE \E i \in Ids, s \in AckStatus : AckPush(i, s)
    BY <1>7 DEF AckPush, ApplyAck, Q!Next
  <1>8. CASE UNCHANGED outboxVars
    BY <1>8 DEF outboxVars, Q!outboxVars
  <1> QED
    BY <1>1, <1>2, <1>3, <1>4, <1>5, <1>6, <1>7, <1>8
       DEF Next, LockAges, BridgeReady, ReadyAgain, GoesSilent, Heartbeat, SenderStarts,
           Disconnect, RotateCert, RotationSettles, DrainDeferred, RetryTimerFires,
           WriteFacts, ServerProcesses, vars

(* The sender loop, the ACK handler and the recoveries use the outbox only *)
(* by its methods: every behaviour of the delivery is one of Outbox.       *)
THEOREM DeliveryUsesOutbox == Spec => Q!Spec
  <1>1. Init => Q!Init
    BY DEF Init
  <1>2. Rows /\ [Next]_vars => [Q!Next]_Q!outboxVars
    BY StepOfOutbox
  <1> QED BY <1>1, <1>2, RowsAlways, PTL DEF Spec, Q!Spec

(* The queue as it was proved on its own, over the same variables.         *)
Proved == INSTANCE OutboxProofs

LEMMA SameQueries ==
  /\ Q!Ids = Proved!Ids /\ \A S : Q!WithStatus(S) = Proved!WithStatus(S)
  /\ \A p : Q!Duplicates(p) = Proved!Duplicates(p)
  /\ Q!Leasable = Proved!Leasable /\ Q!Locked = Proved!Locked
  <1> USE DEF Q!Ids, Proved!Ids, Q!WithStatus, Proved!WithStatus
  <1>1. \A S : Q!Cardinality(S) = Proved!Cardinality(S)
    BY DEF Q!Cardinality, Proved!Cardinality
  <1>2. \A p : Q!Duplicates(p) = Proved!Duplicates(p)
    BY DEF Q!Duplicates, Proved!Duplicates, Q!Live, Proved!Live
  <1>3. Q!Ready = Proved!Ready
    BY DEF Q!Ready, Proved!Ready
  <1>4. Q!Leasable = Proved!Leasable
    BY <1>1, <1>3 DEF Q!Candidates, Proved!Candidates, Q!Leasable, Proved!Leasable
  <1>5. Q!Locked = Proved!Locked
    BY DEF Q!Locked, Proved!Locked
  <1> QED BY <1>2, <1>4, <1>5

LEMMA SameNext == [Q!Next]_Q!outboxVars => [Proved!Next]_Proved!outboxVars
  <1>1. \A p : Q!Enqueue(p) => Proved!Enqueue(p)
    BY SameQueries DEF Q!Enqueue, Proved!Enqueue
  <1>2. Q!LeaseReady => Proved!LeaseReady
    BY SameQueries DEF Q!LeaseReady, Proved!LeaseReady
  <1>3. \A i : Q!MarkSent(i) => Proved!MarkSent(i)
    BY SameQueries DEF Q!MarkSent, Proved!MarkSent, Q!Finish, Proved!Finish, Q!Live, Proved!Live
  <1>4. \A i : Q!MarkRejected(i) => Proved!MarkRejected(i)
    BY SameQueries DEF Q!MarkRejected, Proved!MarkRejected, Q!Finish, Proved!Finish, Q!Live, Proved!Live
  <1>5. \A i : Q!MarkFailed(i) => Proved!MarkFailed(i)
    BY SameQueries
       DEF Q!MarkFailed, Proved!MarkFailed, Q!FailAttempt, Proved!FailAttempt, Q!Live, Proved!Live
  <1>6. \A S : Q!RecoverStaleInflight(S) => Proved!RecoverStaleInflight(S)
    BY SameQueries
       DEF Q!RecoverStaleInflight, Proved!RecoverStaleInflight, Q!FailAttempt, Proved!FailAttempt
  <1>7. \A S : Q!Cleanup(S) => Proved!Cleanup(S)
    BY SameQueries DEF Q!Cleanup, Proved!Cleanup, Q!Terminal, Proved!Terminal
  <1>8. Q!Quarantine => Proved!Quarantine
    BY SameQueries DEF Q!Quarantine, Proved!Quarantine, Q!Init, Proved!Init, Q!All, Proved!All
  <1>9. \A i : Q!BackoffExpires(i) => Proved!BackoffExpires(i)
    BY SameQueries DEF Q!BackoffExpires, Proved!BackoffExpires
  <1>10. Q!Next => Proved!Next
    BY SameQueries, <1>1, <1>2, <1>3, <1>4, <1>5, <1>6, <1>7, <1>8, <1>9 DEF Q!Next, Proved!Next
  <1> QED BY <1>10 DEF Q!outboxVars, Proved!outboxVars

(* What is proved of the queue holds of it under the sender loop, late     *)
(* ACKs, lost streams and restarts: it keeps the promise of DurableQueue,  *)
(* hands an event out at most MAX_ATTEMPTS times, in order, and no live    *)
(* row is stranded or carries another one's payload.                       *)
THEOREM DeliveryKeepsTheQueue ==
    Spec => /\ Proved!ImplementsDurableQueue
            /\ []Proved!BoundedLeases /\ Proved!LeaseInOrder
            /\ []Proved!NoStrandedRow /\ []Proved!NoDuplicateLive
  <1>1. Proved!Spec => /\ Proved!ImplementsDurableQueue
                       /\ []Proved!BoundedLeases /\ Proved!LeaseInOrder
                       /\ []Proved!NoStrandedRow /\ []Proved!NoDuplicateLive
    BY Proved!OutboxImplementsDurableQueue, Proved!LeasesBounded, Proved!LeasesInOrder,
       Proved!NothingStranded, Proved!LivePayloadsDistinct, OutboxAssumption
  <1>2. Q!Init => Proved!Init
    BY SameQueries DEF Q!Init, Proved!Init, Q!All, Proved!All
  <1> QED BY <1>1, <1>2, SameNext, DeliveryUsesOutbox, PTL DEF Q!Spec, Proved!Spec
==============================================================================
