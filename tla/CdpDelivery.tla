----------------------------- MODULE CdpDelivery -----------------------------
(***************************************************************************)
(* The confirmed delivery of the certificate inventory (CDP): a scan is    *)
(* diffed against a local baseline, the difference is queued in the outbox *)
(* and a package that would move the baseline is staged under the outbox   *)
(* id; the ACK_OK of that id applies the package.                          *)
(*   src/src/domain/cdp-baseline-repo.ts, domain/cdp-delivery.ts           *)
(*   src/src/plugins/cdp/index.ts (collectOnce)                            *)
(*   src/src/core/scheduler.ts (runCdp), transport/grpc-stream.ts          *)
(*   (collectFactsSnapshot), transport/grpc-client.ts (grpc.ack)           *)
(*                                                                         *)
(* An inventory is a function from certificates to contents, Absent for a  *)
(* certificate that is not there, so the added, updated and removed lists  *)
(* of a delta, and the items[] of a full scan, are partial functions: what *)
(* the message claims about each certificate it mentions.  The outbox is   *)
(* reduced to the set of its live events, which may be sent again until    *)
(* their ACK arrives (see Outbox and Delivery); the side blocks' digests   *)
(* and cursors travel in the same package and are left out.                *)
(***************************************************************************)
EXTENDS Integers, FiniteSets

CONSTANTS Certs, Contents, Absent,
          Worlds,       \* what may happen, see World
          MaxSends      \* bound: events enqueued in a behaviour

AllFaults == {"reorder", "giveup", "torn", "expire", "quarantine", "legacy"}
ScanKinds == {"complete", "named", "capped"}

(* A behaviour happens in one world: the certificates that come and go,    *)
(* the kinds of scans and the faults that occur, and two bounds, on the    *)
(* scans between their start and their ACK and on the events enqueued.     *)
World == [certs : SUBSET Certs, kinds : SUBSET ScanKinds, faults : SUBSET AllFaults,
          overlap : Nat \ {0}, sends : 0..MaxSends]

ASSUME ContentsAssumption == Absent \in Contents
ASSUME WorldsAssumption == MaxSends \in Nat /\ Worlds \subseteq World

VARIABLES world,        \* the world of this behaviour
          host,         \* the certificates on the device
          base,         \* cdp_certificate_baseline
          acked,        \* cdp_meta.delivery_acked
          staged,       \* cdp_delivery_pending
          nextSeq,      \* its AUTOINCREMENT
          lastSeq,      \* cdp_meta.delivery_last_seq
          scanning,     \* the scan that holds cdpLane, as a set of at most one
          diffed,       \* packages whose caller is in buildDeviceFacts
          outbox,       \* live events of the outbox
          nextId,       \* its AUTOINCREMENT
          sent,         \* how many events have ever been enqueued
          server,       \* the inventory the control plane has
          applied,      \* history: events the control plane has applied
          had,          \* history: contents it ever received per certificate
          acks          \* ACK_OK pushes on their way: the event and its id

baseVars == <<base, acked, staged, nextSeq, lastSeq>>
scanVars == <<scanning, diffed>>
queueVars == <<outbox, nextId, sent>>
serverVars == <<server, applied, had>>
vars == <<world, host, baseVars, scanVars, queueVars, serverVars, acks>>

Inventory == [Certs -> Contents]
Nothing == [c \in Certs |-> Absent]
Present == {inv \in Inventory : \A c \in Certs \ world.certs : inv[c] = Absent}
Claims == UNION {[D -> Contents] : D \in SUBSET Certs}

Scan == [full : BOOLEAN, kind : ScanKinds, hidden : SUBSET Certs, seen : Inventory]
Package == [claims : Claims, baseline : Inventory]
Event == [uid : 1..MaxSends, id : 1..MaxSends, cdp : BOOLEAN, claims : Claims]
Staged == [seq : 1..MaxSends, id : 1..MaxSends, uid : 1..MaxSends, baseline : Inventory]

(* At most one package per outbox id and per seq: stageCdpDelivery deletes *)
(* the older one of its id, and seq is an AUTOINCREMENT.                   *)
TypeOK ==
    /\ world \in Worlds
    /\ host \in Inventory /\ base \in Inventory /\ server \in Inventory
    /\ acked \in BOOLEAN
    /\ staged \subseteq Staged
    /\ \A r, q \in staged : r.id = q.id \/ r.seq = q.seq => r = q
    /\ nextSeq \in 1..(MaxSends + 1) /\ lastSeq \in 0..MaxSends
    /\ scanning \subseteq Scan /\ Cardinality(scanning) <= 1
    /\ diffed \subseteq Package
    /\ outbox \subseteq Event /\ nextId \in 1..(MaxSends + 1) /\ sent \in 0..MaxSends
    /\ applied \subseteq 1..MaxSends /\ had \in [Certs -> SUBSET Contents]
    /\ acks \subseteq [uid : 1..MaxSends, id : 1..MaxSends]

(* An agent upgraded from a version that saved the baseline when it        *)
(* collected ("legacy") starts with a baseline nobody confirmed.           *)
Init ==
    /\ world \in Worlds
    /\ host \in Present
    /\ base \in IF "legacy" \in world.faults THEN Present ELSE {Nothing}
    /\ server = Nothing
    /\ acked = FALSE
    /\ staged = {} /\ nextSeq = 1 /\ lastSeq = 0
    /\ scanning = {} /\ diffed = {}
    /\ outbox = {} /\ nextId = 1 /\ sent = 0
    /\ applied = {} /\ had = [c \in Certs |-> {}]
    /\ acks = {}

-----------------------------------------------------------------------------
(* Inventories and claims.                                                 *)

Update(inv, claims) == [c \in Certs |-> IF c \in DOMAIN claims THEN claims[c] ELSE inv[c]]
Restricted(inv, D) == [c \in D |-> inv[c]]
Differing(seen, inv) == {c \in Certs : seen[c] # inv[c]}

(* What a scan may speak about: not the certificates of a store it names   *)
(* as unreadable, and no removal at all when it was cut by the item cap or *)
(* could not name what it missed ("capped").                               *)
Claimable(s) ==
    CASE s.kind = "complete" -> Certs
      [] s.kind = "named"    -> Certs \ s.hidden
      [] s.kind = "capped"   -> {c \in Certs : s.seen[c] # Absent}

(* computeCdpDelta, after the removals that a partial scan may not assert  *)
(* are taken out; the whole scan when full, or when the baseline is empty. *)
ClaimsOf(s) ==
    Restricted(s.seen,
               IF s.full \/ base = Nothing THEN Claimable(s)
               ELSE Claimable(s) \cap Differing(s.seen, base))

(* Mutant: certificates of an unreadable store are taken as scanned, with  *)
(* the content they have on the device.                                    *)
BaselineOfHost(s) == IF s.kind = "named" THEN host ELSE s.seen

(* Mutant: what an unreadable store held is not carried over.              *)
BaselineDropsUnread(s) == s.seen

(* The baseline the package will install: the scan, and the certificates   *)
(* of unreadable stores carried over from the current baseline.            *)
BaselineOf(s) ==
    IF s.kind = "named" THEN Update(s.seen, Restricted(base, s.hidden)) ELSE s.seen

-----------------------------------------------------------------------------
(* The device and its scans.                                               *)

HostChanges(c, v) ==
    /\ host[c] # v
    /\ host' = [host EXCEPT ![c] = v]
    /\ UNCHANGED <<world, baseVars, scanVars, queueVars, serverVars, acks>>

Outstanding == Cardinality(scanning) + Cardinality(diffed) + Cardinality({e \in outbox : e.cdp})

(* collectOnce, from the start to the diff: cdpLane admits one scan, full  *)
(* was asked for or is due because no delivery was ever confirmed.         *)
Collect(asked, kind, hidden) ==
    /\ scanning = {}
    /\ Outstanding < world.overlap
    /\ kind = "complete" <=> hidden = {}
    /\ scanning' = {[full   |-> asked \/ ~acked, kind |-> kind, hidden |-> hidden,
                     seen   |-> [c \in Certs |-> IF c \in hidden THEN Absent ELSE host[c]]]}
    /\ UNCHANGED <<world, host, baseVars, diffed, queueVars, serverVars, acks>>

(* The diff and the package.  Without changes the namespace is dropped and *)
(* nothing is left behind.  The scheduler's scan and one asked for by the  *)
(* control plane may overtake each other on their way to the outbox        *)
(* ("reorder"): cdpLane ends before the caller awaits buildDeviceFacts.    *)
Diff(s) ==
    LET full == s.full \/ base = Nothing IN
    /\ s \in scanning
    /\ diffed = {} \/ "reorder" \in world.faults
    /\ scanning' = {}
    /\ diffed' = IF full \/ DOMAIN ClaimsOf(s) # {}
                 THEN diffed \cup {[claims |-> ClaimsOf(s), baseline |-> BaselineOf(s)]}
                 ELSE diffed
    /\ UNCHANGED <<world, host, baseVars, queueVars, serverVars, acks>>

-----------------------------------------------------------------------------
(* Enqueue and stage.                                                      *)

EnqueueEvent(cdp, claims) ==
    /\ sent < world.sends
    /\ sent' = sent + 1
    /\ nextId' = nextId + 1
    /\ outbox' = outbox \cup {[uid |-> sent', id |-> nextId, cdp |-> cdp, claims |-> claims]}

(* Mutant: the baseline moves when the event is enqueued, as it once did.  *)
StageCommits(id, uid, baseline, Old) ==
    /\ base' = baseline /\ acked' = TRUE
    /\ lastSeq' = nextSeq /\ nextSeq' = nextSeq + 1
    /\ UNCHANGED staged

(* stageCdpDelivery: Old is the set of packages staged over a week ago.    *)
StageCdpDelivery(id, uid, baseline, Old) ==
    /\ staged' = {r \in staged : r.id # id /\ r \notin Old}
                    \cup {[seq |-> nextSeq, id |-> id, uid |-> uid, baseline |-> baseline]}
    /\ nextSeq' = nextSeq + 1
    /\ UNCHANGED <<base, acked, lastSeq>>

(* The caller's enqueue and stage: one synchronous stretch of the process. *)
Enqueue(p) ==
    /\ p \in diffed
    /\ diffed' = diffed \ {p}
    /\ EnqueueEvent(TRUE, p.claims)
    /\ \E Old \in SUBSET staged :
          /\ Old # {} => "expire" \in world.faults
          /\ StageCdpDelivery(nextId, sent', p.baseline, Old)
    /\ UNCHANGED <<world, host, scanning, serverVars, acks>>

(* The process dies between the two, which write different databases.      *)
EnqueueTorn(p) ==
    /\ "torn" \in world.faults
    /\ p \in diffed
    /\ diffed' = {} /\ scanning' = {}
    /\ EnqueueEvent(TRUE, p.claims)
    /\ UNCHANGED <<world, host, baseVars, serverVars, acks>>

(* Everything else the agent sends: AMP, SCP, job results.                 *)
EnqueueOther ==
    /\ EnqueueEvent(FALSE, Restricted(Nothing, {}))
    /\ UNCHANGED <<world, host, baseVars, scanVars, serverVars, acks>>

(* Scans that were not enqueued die with the process.                      *)
Restart ==
    /\ scanning \cup diffed # {}
    /\ scanning' = {} /\ diffed' = {}
    /\ UNCHANGED <<world, host, baseVars, queueVars, serverVars, acks>>

-----------------------------------------------------------------------------
(* Delivery.                                                               *)

(* Events leave in the order of their ids, but one whose ACK is late is    *)
(* sent again after younger ones ("reorder").                              *)
InOrder(e) ==
    /\ \A f \in outbox : f.uid < e.uid => f.uid \in applied
    /\ \A u \in applied : u <= e.uid

(* The control plane takes the event and answers ACK_OK.  A repeated event *)
(* is applied again or recognised.                                         *)
Deliver(e) ==
    /\ e \in outbox
    /\ "reorder" \in world.faults \/ InOrder(e)
    /\ applied' = applied \cup {e.uid}
    /\ \/ /\ server' = Update(server, e.claims)
          /\ had' = [c \in Certs |-> IF c \in DOMAIN e.claims THEN had[c] \cup {e.claims[c]} ELSE had[c]]
       \/ /\ e.uid \in applied
          /\ UNCHANGED <<server, had>>
    /\ acks' = acks \cup {[uid |-> e.uid, id |-> e.id]}
    /\ UNCHANGED <<world, host, baseVars, scanVars, queueVars>>

LoseAck(a) ==
    /\ a \in acks
    /\ acks' = acks \ {a}
    /\ UNCHANGED <<world, host, baseVars, scanVars, queueVars, serverVars>>

(* Mutant: promotion forgets the order of the packages.                    *)
PromoteOutOfOrder(id) ==
    LET rows == {r \in staged : r.id = id} IN
    /\ staged' = staged \ rows
    /\ IF rows = {} THEN UNCHANGED <<base, acked, lastSeq>>
       ELSE \E r \in rows : base' = r.baseline /\ acked' = TRUE /\ lastSeq' = r.seq
    /\ UNCHANGED nextSeq

(* promoteCdpDelivery: the newest package of this id, unless a later one   *)
(* is in force; the older ones are dropped.                                *)
PromoteCdpDelivery(id) ==
    LET rows == {r \in staged : r.id = id}
        newest == {r \in rows : \A q \in rows : q.seq <= r.seq}
    IN
    /\ staged' = {q \in staged : \A r \in newest : q.seq > r.seq}
    /\ \/ \E r \in newest :
             /\ r.seq > lastSeq
             /\ base' = r.baseline
             /\ acked' = TRUE
             /\ lastSeq' = r.seq
       \/ /\ \A r \in newest : r.seq <= lastSeq
          /\ UNCHANGED <<base, acked, lastSeq>>
    /\ UNCHANGED nextSeq

(* grpc.ack with status 0: markSent, which ends the live event of that id, *)
(* if any, and promote.                                                    *)
AckPush(a) ==
    /\ a \in acks
    /\ acks' = acks \ {a}
    /\ outbox' = {e \in outbox : e.id # a.id}
    /\ PromoteCdpDelivery(a.id)
    /\ UNCHANGED <<world, host, scanVars, nextId, sent, serverVars>>

(* The outbox gives an event up: rejected, or out of attempts.             *)
GiveUp(e) ==
    /\ "giveup" \in world.faults
    /\ e \in outbox
    /\ outbox' = outbox \ {e}
    /\ UNCHANGED <<world, host, baseVars, scanVars, nextId, sent, serverVars, acks>>

(* The outbox database is quarantined at a start of the process and its    *)
(* ids begin again; the baseline's database is another file and stays.     *)
Quarantine ==
    /\ "quarantine" \in world.faults
    /\ outbox' = {} /\ nextId' = 1
    /\ scanning' = {} /\ diffed' = {}
    /\ UNCHANGED <<world, host, baseVars, sent, serverVars, acks>>

-----------------------------------------------------------------------------
Next ==
    \/ \E c \in world.certs, v \in Contents : HostChanges(c, v)
    \/ \E asked \in BOOLEAN, kind \in world.kinds, hidden \in SUBSET world.certs : Collect(asked, kind, hidden)
    \/ \E s \in scanning : Diff(s)
    \/ \E p \in diffed : Enqueue(p)
    \/ \E p \in diffed : EnqueueTorn(p)
    \/ EnqueueOther
    \/ Restart
    \/ \E e \in outbox : Deliver(e)
    \/ \E a \in acks : LoseAck(a)
    \/ \E a \in acks : AckPush(a)
    \/ \E e \in outbox : GiveUp(e)
    \/ Quarantine

Spec == Init /\ [][Next]_vars

-----------------------------------------------------------------------------
(* Properties.                                                             *)

(* The fix of 2026-10-01: nothing counts as delivered that never arrived.  *)
(* Once a delivery was confirmed, whatever the baseline says the control   *)
(* plane has, it did receive.  (Not for a "legacy" baseline, and not after *)
(* a quarantine of the outbox, whose ids begin again.)                     *)
NothingAssumedDelivered ==
    acked /\ world.faults \cap {"legacy", "quarantine"} = {} =>
        \A c \in Certs : base[c] # Absent => base[c] \in had[c]

(* A late ACK never takes the baseline back: it moves only from a package  *)
(* to one staged later.                                                    *)
BaselineOnlyAdvances == [][base' # base => lastSeq' > lastSeq]_vars

(* "se aplica sólo con el ACK_OK de ese envío": the package that is        *)
(* installed belongs to an event the control plane has applied.  (Unless   *)
(* the outbox was quarantined, whose ids begin again.)                     *)
PromotedByOwnAck ==
    [][lastSeq' # lastSeq /\ "quarantine" \notin world.faults =>
            \E r \in staged : r.seq = lastSeq' /\ r.uid \in applied]_vars

(* "La línea base es lo que el control plane YA TIENE", when no scan is on *)
(* its way: nothing but the next scan's difference from it is ever sent.   *)
(* A capped scan never reports a removal, and the faults are left out.     *)
Settled == world.faults = {} /\ "capped" \notin world.kinds /\ Outstanding = 0
BaselineIsServers == Settled => base = server
=============================================================================
