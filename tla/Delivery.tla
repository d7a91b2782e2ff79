------------------------------ MODULE Delivery ------------------------------
(***************************************************************************)
(* How an event of the outbox reaches the control plane: the sender loop   *)
(* of startGrpcStream (src/src/transport/grpc-stream.ts), the write chain  *)
(* and ACK handling of createGrpcClient (src/src/transport/grpc-client.ts),*)
(* and the Outbox they work on.  The PrivSvc bridge and the control plane  *)
(* are external: they take a FACTS message, answer it with status 0        *)
(* (accepted), 1 (retry) or 2 (rejected), and may lose anything when the   *)
(* stream breaks or the process dies.                                      *)
(*                                                                         *)
(* Order inside the write chain and on the wire is abstracted to sets: the *)
(* properties here are about whether an event arrives, not in which order. *)
(***************************************************************************)
EXTENDS Integers, FiniteSets

CONSTANTS Payloads, NoPayload, MaxAttempts, LeaseLimit, MaxId,
          TooLarge      \* payloads over MAX_FACTS_PAYLOAD_BYTES

ASSUME TooLargeAssumption == TooLarge \subseteq Payloads
(* Those of Outbox, which TLC evaluates here.                              *)
ASSUME OutboxAssumption ==
    /\ MaxAttempts \in Nat \ {0} /\ LeaseLimit \in Nat \ {0} /\ MaxId \in Nat
    /\ NoPayload \notin Payloads

VARIABLES status, attempts, due, locked, payload, nextId, leases

(* The sender loop of the current stream.                                  *)
VARIABLES conn,           \* "down" (stopped), "connecting", "ready", or "silent":
                          \* ready, but SILENCE_THRESHOLD_MS without traffic
          started,        \* startDelayTimer has fired: onChanged subscribed
          drainScheduled, \* a setImmediate(drainOnce) is pending
          retryArmed,     \* retryTimer is set
          rotating,       \* rotationInProgress
          chain,          \* rows written to stream.write and not yet sent
          aged            \* rows IN_FLIGHT for longer than 60 s

(* The bridge and the control plane.                                       *)
VARIABLES wire,           \* rows on the current stream, not yet processed
          acks,           \* <<row, status>> pushes on their way back
          delivered,      \* history: rows the control plane accepted
          refused         \* history: rows rejected for good

outboxVars == <<status, attempts, due, locked, payload, nextId, leases>>
senderVars == <<conn, started, drainScheduled, retryArmed, rotating, chain, aged>>
remoteVars == <<wire, acks, delivered, refused>>
vars == <<outboxVars, senderVars, remoteVars>>

Q == INSTANCE Outbox

Ids == Q!Ids
AckStatus == {0, 1, 2}
InFlight == Q!WithStatus({"IN_FLIGHT"})
Pending == Q!WithStatus({"PENDING"})
Live == Q!WithStatus(Q!Live)

TypeOK ==
    /\ Q!TypeOK
    /\ conn \in {"down", "connecting", "ready", "silent"}
    /\ <<started, drainScheduled, retryArmed, rotating>> \in BOOLEAN \X BOOLEAN \X BOOLEAN \X BOOLEAN
    /\ chain \subseteq Ids /\ aged \subseteq InFlight
    /\ wire \subseteq Ids /\ delivered \subseteq Ids /\ refused \subseteq Ids
    /\ acks \subseteq Ids \X AckStatus

Init ==
    /\ Q!Init
    /\ conn = "down"
    /\ started = FALSE /\ drainScheduled = FALSE /\ retryArmed = FALSE /\ rotating = FALSE
    /\ chain = {} /\ aged = {} /\ wire = {} /\ acks = {} /\ delivered = {} /\ refused = {}

-----------------------------------------------------------------------------
(* Helpers.                                                                *)

(* requestDrain, called by the onChanged listener of a started sender.     *)
NotifyChanged == drainScheduled' = (drainScheduled \/ started)

(* connected, as isConnected sees it once traffic has been seen: a send the *)
(* bridge accepts or a push from the control plane ends a silence.         *)
Up == conn \in {"ready", "silent"}
Traffic == conn' = IF conn = "silent" THEN "ready" ELSE conn

(* Only a row in flight has a lock whose age matters.                      *)
KeepAges == aged' = {i \in aged : status'[i] = "IN_FLIGHT"}

-----------------------------------------------------------------------------
(* Producers and the clock.                                                *)

Enqueue(p) ==
    /\ Q!Enqueue(p)
    /\ NotifyChanged
    /\ UNCHANGED <<conn, started, retryArmed, rotating, chain, aged, remoteVars>>

BackoffExpires(i) ==
    /\ Q!BackoffExpires(i)
    /\ UNCHANGED <<senderVars, remoteVars>>

LockAges(i) ==
    /\ i \in InFlight \ aged
    /\ aged' = aged \cup {i}
    /\ UNCHANGED <<outboxVars, conn, started, drainScheduled, retryArmed, rotating, chain, remoteVars>>

-----------------------------------------------------------------------------
(* The life of a stream.                                                   *)

(* Mutant: a new stream does not recover the rows of the old one.          *)
StartStreamOnly ==
    /\ conn = "down"
    /\ conn' = "connecting"
    /\ UNCHANGED <<outboxVars, started, drainScheduled, retryArmed, rotating, chain, aged, remoteVars>>

(* startGrpcStream: recover the rows locked for more than 60 s, open a new *)
(* client with an empty write chain.                                       *)
StartStream ==
    /\ conn = "down"
    /\ conn' = "connecting"
    /\ Q!RecoverStaleInflight(aged)
    /\ KeepAges
    /\ UNCHANGED <<started, drainScheduled, retryArmed, rotating, chain, remoteVars>>

(* READY: { connected: true } reaches the data listener.                   *)
BridgeReady ==
    /\ conn = "connecting"
    /\ conn' = "ready"
    /\ rotating' = FALSE
    /\ drainScheduled' = TRUE
    /\ UNCHANGED <<outboxVars, started, retryArmed, chain, aged, remoteVars>>

(* READY twice: the answer to grpc.connect said it, and the grpc.connected *)
(* push says it again (once in the code; more often changes nothing).      *)
ReadyAgain ==
    /\ Up
    /\ conn' = "ready"
    /\ rotating' = FALSE
    /\ drainScheduled' = TRUE
    /\ UNCHANGED <<outboxVars, started, retryArmed, chain, aged, remoteVars>>

(* Nothing is received and no send accepted for SILENCE_THRESHOLD_MS.      *)
GoesSilent ==
    /\ conn = "ready"
    /\ conn' = "silent"
    /\ UNCHANGED <<outboxVars, started, drainScheduled, retryArmed, rotating, chain, aged, remoteVars>>

(* A heartbeat the bridge accepts ends a silence; none is sent in a rotation.*)
Heartbeat ==
    /\ conn = "silent"
    /\ ~rotating
    /\ conn' = "ready"
    /\ UNCHANGED <<outboxVars, started, drainScheduled, retryArmed, rotating, chain, aged, remoteVars>>

(* startDelayTimer, one second after startGrpcStream.                      *)
SenderStarts ==
    /\ conn # "down"
    /\ ~started
    /\ started' = TRUE
    /\ drainScheduled' = TRUE
    /\ UNCHANGED <<outboxVars, conn, retryArmed, rotating, chain, aged, remoteVars>>

(* What a dead stream leaves behind: only some of the ACKs already pushed  *)
(* (Left) are still read.  (An event the control plane took without an ACK *)
(* getting back is ServerProcesses before this.)                           *)
StreamGone ==
    /\ conn' = "down"
    /\ started' = FALSE /\ drainScheduled' = FALSE /\ retryArmed' = FALSE /\ rotating' = FALSE
    /\ chain' = {} /\ wire' = {}
    /\ \E Left \in SUBSET acks : acks' = Left
    /\ UNCHANGED <<delivered, refused>>

(* error, end, disconnect, a failed IPC write or a watchdog: stop(), and   *)
(* client.close(), after which every queued write is dropped.              *)
Disconnect ==
    /\ conn # "down"
    /\ StreamGone
    /\ UNCHANGED <<outboxVars, aged>>

(* The process dies and starts again: initialize() recovers the rows that  *)
(* have been locked for ten minutes (Old).                                 *)
Restart ==
    /\ StreamGone
    /\ \E Old \in SUBSET aged : Q!RecoverStaleInflight(Old)
    /\ KeepAges

RotateCert ==
    /\ Up
    /\ rotating' = TRUE
    /\ UNCHANGED <<outboxVars, conn, started, drainScheduled, retryArmed, chain, aged, remoteVars>>

RotationSettles ==
    /\ rotating
    /\ rotating' = FALSE
    /\ UNCHANGED <<outboxVars, conn, started, drainScheduled, retryArmed, chain, aged, remoteVars>>

-----------------------------------------------------------------------------
(* The sender loop.                                                        *)

CanSend == conn = "ready" /\ ~rotating

(* Mutant: a drain that cannot send now does not arm the retry timer.      *)
DrainDeferredForgets ==
    /\ drainScheduled
    /\ conn # "down"
    /\ ~CanSend
    /\ drainScheduled' = FALSE
    /\ UNCHANGED <<outboxVars, conn, started, retryArmed, rotating, chain, aged, remoteVars>>

(* drainOnce on a stream that cannot send now: only armRetryTimer.         *)
DrainDeferred ==
    /\ drainScheduled
    /\ conn # "down"
    /\ ~CanSend
    /\ drainScheduled' = FALSE
    /\ retryArmed' = (retryArmed \/ Pending # {})
    /\ UNCHANGED <<outboxVars, conn, started, rotating, chain, aged, remoteVars>>

(* Mutant: a drain does not look at what it left behind.                   *)
DrainOnceWithoutFinally ==
    /\ drainScheduled
    /\ CanSend
    /\ IF Q!Leasable = {} THEN UNCHANGED outboxVars ELSE Q!LeaseReady
    /\ chain' = chain \cup Q!Leasable
    /\ drainScheduled' = FALSE
    /\ UNCHANGED <<conn, started, retryArmed, rotating, aged, remoteVars>>

(* drainOnce: lease a batch and write it; then drain again at once if more *)
(* is ready, or set retryTimer for the next row that backs off.            *)
DrainOnce ==
    /\ drainScheduled
    /\ CanSend
    /\ IF Q!Leasable = {} THEN UNCHANGED outboxVars ELSE Q!LeaseReady
    /\ chain' = chain \cup Q!Leasable
    /\ drainScheduled' = (Q!Ready' # {})
    /\ retryArmed' = (retryArmed \/ (Q!Ready' = {} /\ Pending' # {}))
    /\ UNCHANGED <<conn, started, rotating, aged, remoteVars>>

RetryTimerFires ==
    /\ retryArmed
    /\ retryArmed' = FALSE
    /\ drainScheduled' = TRUE
    /\ UNCHANGED <<outboxVars, conn, started, rotating, chain, aged, remoteVars>>

(* stream.write of one FACTS message: the bridge takes it ...              *)
WriteFacts(i) ==
    /\ Up
    /\ i \in chain
    /\ payload[i] \notin TooLarge
    /\ chain' = chain \ {i}
    /\ wire' = wire \cup {i}
    /\ Traffic
    /\ UNCHANGED <<outboxVars, started, drainScheduled, retryArmed, rotating, aged,
                   acks, delivered, refused>>

(* ... or it is over the size cap, and the event is rejected for good.     *)
RejectTooLarge(i) ==
    /\ Up
    /\ i \in chain
    /\ payload[i] \in TooLarge
    /\ chain' = chain \ {i}
    /\ Q!MarkRejected(i)
    /\ NotifyChanged
    /\ KeepAges
    /\ refused' = refused \cup {i}
    /\ UNCHANGED <<conn, started, retryArmed, rotating, wire, acks, delivered>>

-----------------------------------------------------------------------------
(* The control plane, and its ACK.                                         *)

ServerProcesses(i, s) ==
    /\ i \in wire
    /\ wire' = wire \ {i}
    /\ acks' = acks \cup {<<i, s>>}
    /\ delivered' = IF s = 0 THEN delivered \cup {i} ELSE delivered
    /\ refused' = IF s = 2 THEN refused \cup {i} ELSE refused
    /\ UNCHANGED <<outboxVars, senderVars>>

(* Mutant: every ACK completes its event, whatever its status.             *)
ApplyAckAnyStatus(i, s) == Q!MarkSent(i)

ApplyAck(i, s) ==
    \/ s = 0 /\ Q!MarkSent(i)
    \/ s = 1 /\ Q!MarkFailed(i)
    \/ s = 2 /\ Q!MarkRejected(i)

(* grpc.ack.  It is read even when the stream it belongs to has stopped,   *)
(* and it may name a row that is no longer in flight.                      *)
AckPush(i, s) ==
    /\ <<i, s>> \in acks
    /\ acks' = acks \ {<<i, s>>}
    /\ ApplyAck(i, s)
    /\ IF i \in Live THEN NotifyChanged ELSE UNCHANGED drainScheduled
    /\ KeepAges
    /\ Traffic
    /\ UNCHANGED <<started, retryArmed, rotating, chain, wire, delivered, refused>>

-----------------------------------------------------------------------------
Next ==
    \/ \E p \in Payloads : Enqueue(p)
    \/ \E i \in Ids : BackoffExpires(i)
    \/ \E i \in Ids : LockAges(i)
    \/ StartStream
    \/ BridgeReady
    \/ ReadyAgain
    \/ GoesSilent
    \/ Heartbeat
    \/ SenderStarts
    \/ Disconnect
    \/ Restart
    \/ RotateCert
    \/ RotationSettles
    \/ DrainDeferred
    \/ DrainOnce
    \/ RetryTimerFires
    \/ \E i \in Ids : WriteFacts(i)
    \/ \E i \in Ids : RejectTooLarge(i)
    \/ \E i \in Ids, s \in AckStatus : ServerProcesses(i, s)
    \/ \E i \in Ids, s \in AckStatus : AckPush(i, s)

Spec == Init /\ [][Next]_vars

(* Timers fire, queued callbacks run, a reconnect is always attempted, the *)
(* bridge comes up, and while a stream lasts the control plane answers and *)
(* its answers are read.  Producers, disconnects, restarts and rotations   *)
(* owe nothing.                                                            *)
Fairness ==
    /\ \A i \in Ids : WF_vars(BackoffExpires(i)) /\ WF_vars(LockAges(i))
    /\ WF_vars(StartStream) /\ WF_vars(BridgeReady) /\ WF_vars(SenderStarts)
    /\ WF_vars(RotationSettles)
    /\ WF_vars(DrainDeferred \/ DrainOnce) /\ WF_vars(RetryTimerFires)
    /\ \A i \in Ids : WF_vars(WriteFacts(i) \/ RejectTooLarge(i))
    /\ \A i \in Ids : WF_vars(\E s \in AckStatus : ServerProcesses(i, s))
    /\ \A i \in Ids : WF_vars(\E s \in AckStatus : AckPush(i, s))

FairSpec == Spec /\ Fairness

-----------------------------------------------------------------------------
(* Properties.                                                             *)

(* "Remote ACK is the delivery boundary": an event is SENT only if the     *)
(* control plane accepted it, and FAILED only if it was refused for good   *)
(* or used up its attempts.                                                *)
NothingLostSilently ==
    \A i \in Ids :
        /\ status[i] = "SENT" => i \in delivered
        /\ status[i] = "FAILED" => i \in refused \/ attempts[i] = MaxAttempts

(* No lost wake-up: while a started sender has a PENDING event, a drain is *)
(* queued or the retry timer that will queue one is set.                   *)
NoLostWakeup ==
    started /\ Pending # {} => drainScheduled \/ retryArmed

(* Once the stream stays up and no rotation holds it, no event waits in    *)
(* PENDING for ever.                                                       *)
StableLinkDrains ==
    <>[]CanSend => \A i \in Ids : []<>(status[i] # "PENDING")

(* An event in flight whose ACK was lost is recovered by the time-to-live, *)
(* as long as the stream keeps being restarted.                            *)
RecoveredByReconnects ==
    []<>(conn = "down") => \A i \in Ids : []<>(status[i] # "IN_FLIGHT")
=============================================================================
