------------------------------ MODULE CdpProofs ------------------------------
(***************************************************************************)
(* Proofs about CdpDelivery, for every set of certificates and contents    *)
(* and in every world.  Four layers, each inductive relative to the ones   *)
(* before it: the types and what the counters have handed out; whose event *)
(* an id is; what stands behind a baseline; and, when nothing goes wrong   *)
(* and scans do not overlap, that the baseline is what the control plane   *)
(* has.                                                                    *)
(***************************************************************************)
EXTENDS CdpDelivery, FiniteSetTheorems, TLAPS

(* What has been handed out: events, packages and ids are older than the   *)
(* counters say; a package in force is older than the next one.            *)
Counters ==
    /\ sent <= world.sends /\ nextId <= sent + 1 /\ nextSeq <= sent + 1 /\ lastSeq < nextSeq
    /\ \A r \in staged : r.seq < nextSeq /\ r.uid <= sent
    /\ \A e \in outbox : e.uid <= sent
    /\ \A u \in applied : u <= sent
    /\ \A e, f \in outbox : e.uid = f.uid => e = f
    /\ \A a \in acks : a.uid \in applied

Typed == TypeOK /\ Counters

(* While the outbox is the same file an id is the event's.                 *)
OwnIds ==
    "quarantine" \notin world.faults =>
        /\ nextId = sent + 1
        /\ \A e \in outbox : e.id = e.uid
        /\ \A r \in staged : r.id = r.uid
        /\ \A a \in acks : a.id = a.uid

-----------------------------------------------------------------------------
(* Inventories and claims.                                                 *)

LEMMA RestrictedFacts ==
    ASSUME NEW inv \in Inventory, NEW D \in SUBSET Certs
    PROVE  /\ Restricted(inv, D) \in Claims /\ DOMAIN Restricted(inv, D) = D
           /\ \A c \in D : Restricted(inv, D)[c] = inv[c]
<1> DEFINE r == Restricted(inv, D)
<1>1. r \in [D -> Contents] /\ \A c \in D : r[c] = inv[c]
  BY DEF Restricted, Inventory
<1> HIDE DEF r
<1>2. r \in Claims
  BY <1>1 DEF Claims
<1> QED
  BY <1>1, <1>2 DEF r

LEMMA UpdateFacts ==
    ASSUME NEW inv \in Inventory, NEW claims \in Claims
    PROVE  /\ Update(inv, claims) \in Inventory /\ DOMAIN claims \subseteq Certs
           /\ \A c \in Certs :
                Update(inv, claims)[c] = IF c \in DOMAIN claims THEN claims[c] ELSE inv[c]
<1>1. PICK D \in SUBSET Certs : claims \in [D -> Contents]
  BY DEF Claims
<1>2. \A c \in Certs : inv[c] \in Contents
  BY DEF Inventory
<1>3. \A c \in DOMAIN claims : claims[c] \in Contents
  BY <1>1
<1> QED
  BY <1>1, <1>2, <1>3 DEF Update, Inventory

LEMMA NothingTyped == Nothing \in Inventory
BY ContentsAssumption DEF Nothing, Inventory

LEMMA InventoriesEqual ==
    ASSUME NEW f \in Inventory, NEW g \in Inventory, \A c \in Certs : f[c] = g[c]
    PROVE  f = g
BY DEF Inventory

(* What the diff of a scan says, and the baseline it will install.         *)
LEMMA DiffFacts ==
    ASSUME TypeOK, NEW s \in Scan
    PROVE  /\ ClaimsOf(s) \in Claims /\ BaselineOf(s) \in Inventory
           /\ DOMAIN ClaimsOf(s) = IF s.full \/ base = Nothing THEN Claimable(s)
                                   ELSE Claimable(s) \cap Differing(s.seen, base)
           /\ \A c \in DOMAIN ClaimsOf(s) : ClaimsOf(s)[c] = s.seen[c]
           /\ \A c \in Certs :
                BaselineOf(s)[c] = IF s.kind = "named" /\ c \in s.hidden THEN base[c] ELSE s.seen[c]
<1> DEFINE D == IF s.full \/ base = Nothing THEN Claimable(s)
                ELSE Claimable(s) \cap Differing(s.seen, base)
           k == Restricted(base, s.hidden)
<1>1. s.seen \in Inventory /\ s.hidden \in SUBSET Certs /\ s.kind \in ScanKinds /\ base \in Inventory
  BY DEF Scan, TypeOK
<1>2. Claimable(s) \subseteq Certs
  BY <1>1 DEF Claimable, ScanKinds
<1>3. D \in SUBSET Certs
  BY <1>2
<1>4. ClaimsOf(s) = Restricted(s.seen, D)
  BY DEF ClaimsOf
<1> HIDE DEF D
<1>5. /\ ClaimsOf(s) \in Claims /\ DOMAIN ClaimsOf(s) = D
      /\ \A c \in D : ClaimsOf(s)[c] = s.seen[c]
  BY <1>1, <1>3, <1>4, RestrictedFacts
<1>6. k \in Claims /\ DOMAIN k = s.hidden /\ \A c \in s.hidden : k[c] = base[c]
  BY <1>1, RestrictedFacts
<1>7. BaselineOf(s) = IF s.kind = "named" THEN Update(s.seen, k) ELSE s.seen
  BY DEF BaselineOf
<1> HIDE DEF k
<1>8. /\ Update(s.seen, k) \in Inventory
      /\ \A c \in Certs : Update(s.seen, k)[c] = IF c \in DOMAIN k THEN k[c] ELSE s.seen[c]
  BY <1>1, <1>6, UpdateFacts
<1>9. /\ BaselineOf(s) \in Inventory
      /\ \A c \in Certs :
           BaselineOf(s)[c] = IF s.kind = "named" /\ c \in s.hidden THEN base[c] ELSE s.seen[c]
  BY <1>1, <1>6, <1>7, <1>8
<1> QED
  BY <1>5, <1>9 DEF D

-----------------------------------------------------------------------------
(* The types and the counters.                                             *)

LEMMA WorldFacts ==
    ASSUME TypeOK
    PROVE  /\ world.certs \subseteq Certs /\ world.kinds \subseteq ScanKinds
           /\ world.overlap \in Nat \ {0} /\ world.sends \in 0..MaxSends /\ MaxSends \in Nat
<1>1. world \in World
  BY WorldsAssumption DEF TypeOK
<1> QED
  BY <1>1, WorldsAssumption DEF World

LEMMA InitTyped == Init => Typed
<1> SUFFICES ASSUME Init PROVE Typed
  OBVIOUS
<1>1. world \in World /\ MaxSends \in Nat
  BY WorldsAssumption DEF Init
<1>2. world.sends \in 0..MaxSends
  BY <1>1 DEF World
<1>3. Nothing \in Inventory /\ Present \subseteq Inventory
  BY NothingTyped DEF Present
<1>4. Cardinality(scanning) = 0
  BY FS_EmptySet DEF Init
<1>5. host \in Inventory /\ base \in Inventory /\ server \in Inventory
  BY <1>3 DEF Init
<1>6. had \in [Certs -> SUBSET Contents]
  BY DEF Init
<1>7. /\ nextSeq = 1 /\ lastSeq = 0 /\ nextId = 1 /\ sent = 0 /\ acked = FALSE /\ world \in Worlds
      /\ staged = {} /\ scanning = {} /\ diffed = {} /\ outbox = {} /\ applied = {} /\ acks = {}
  BY DEF Init
<1>8. /\ nextSeq \in 1..(MaxSends + 1) /\ lastSeq \in 0..MaxSends
      /\ nextId \in 1..(MaxSends + 1) /\ sent \in 0..MaxSends /\ Cardinality(scanning) <= 1
  BY <1>1, <1>4, <1>7
<1>9. /\ staged \subseteq Staged /\ scanning \subseteq Scan /\ diffed \subseteq Package /\ outbox \subseteq Event
      /\ \A r, q \in staged : r.id = q.id \/ r.seq = q.seq => r = q
      /\ applied \subseteq 1..MaxSends /\ acks \subseteq [uid : 1..MaxSends, id : 1..MaxSends]
  BY <1>7
<1>10. TypeOK
  BY <1>5, <1>6, <1>7, <1>8, <1>9, Zenon DEF TypeOK
<1>11. Counters
  BY <1>1, <1>2, <1>7 DEF Counters
<1> QED
  BY <1>10, <1>11 DEF Typed

LEMMA HostTyped ==
    ASSUME Typed, NEW c \in world.certs, NEW v \in Contents, HostChanges(c, v)
    PROVE  Typed'
<1>1. c \in Certs
  BY WorldFacts DEF Typed
<1>2. host' \in Inventory
  BY <1>1 DEF HostChanges, Typed, TypeOK, Inventory
<1>3. UNCHANGED <<world, baseVars, scanVars, queueVars, serverVars, acks>>
  BY DEF HostChanges
<1>4. TypeOK'
  BY <1>2, <1>3 DEF Typed, TypeOK, baseVars, scanVars, queueVars, serverVars
<1>5. Counters'
  BY <1>3 DEF Typed, Counters, baseVars, scanVars, queueVars, serverVars
<1> QED
  BY <1>4, <1>5 DEF Typed

(* What a scan that starts is like.                                        *)
LEMMA CollectFacts ==
    ASSUME Typed, NEW asked \in BOOLEAN, NEW kind \in world.kinds,
           NEW hidden \in SUBSET world.certs, Collect(asked, kind, hidden)
    PROVE  \E s \in Scan : /\ scanning' = {s}
                           /\ s.full = (asked \/ ~acked) /\ s.kind = kind /\ s.hidden = hidden
                           /\ \A c \in Certs : s.seen[c] = IF c \in hidden THEN Absent ELSE host[c]
<1> DEFINE seen == [c \in Certs |-> IF c \in hidden THEN Absent ELSE host[c]]
           full == asked \/ ~acked
           s == [full |-> full, kind |-> kind, hidden |-> hidden, seen |-> seen]
<1>1. hidden \in SUBSET Certs /\ kind \in ScanKinds
  BY WorldFacts DEF Typed
<1>2. seen \in Inventory
  BY ContentsAssumption DEF Typed, TypeOK, Inventory
<1>3. \A c \in Certs : seen[c] = IF c \in hidden THEN Absent ELSE host[c]
  OBVIOUS
<1>4. full \in BOOLEAN
  OBVIOUS
<1>5. scanning' = {s}
  BY DEF Collect
<1> HIDE DEF seen, full
<1>6. s \in Scan
  BY <1>1, <1>2, <1>4 DEF Scan
<1>7. s.full = full /\ s.kind = kind /\ s.hidden = hidden /\ s.seen = seen
  OBVIOUS
<1> HIDE DEF s
<1> QED
  BY <1>3, <1>5, <1>6, <1>7 DEF full

LEMMA CollectTyped ==
    ASSUME Typed, NEW asked \in BOOLEAN, NEW kind \in world.kinds,
           NEW hidden \in SUBSET world.certs, Collect(asked, kind, hidden)
    PROVE  Typed'
<1>1. PICK s \in Scan : scanning' = {s}
  BY CollectFacts
<1>2. Cardinality(scanning') = 1
  BY <1>1, FS_Singleton
<1>3. UNCHANGED <<world, host, baseVars, diffed, queueVars, serverVars, acks>>
  BY DEF Collect
<1>4. TypeOK'
  BY <1>1, <1>2, <1>3 DEF Typed, TypeOK, baseVars, queueVars, serverVars
<1>5. Counters'
  BY <1>3 DEF Typed, Counters, baseVars, queueVars, serverVars
<1> QED
  BY <1>4, <1>5 DEF Typed

(* The package of a scan.                                                  *)
LEMMA PackageTyped ==
    ASSUME TypeOK, NEW s \in Scan
    PROVE  [claims |-> ClaimsOf(s), baseline |-> BaselineOf(s)] \in Package
<1> DEFINE cs == ClaimsOf(s)
           b == BaselineOf(s)
<1>1. cs \in Claims /\ b \in Inventory
  BY DiffFacts
<1> HIDE DEF cs, b
<1>2. [claims |-> cs, baseline |-> b] \in Package
  BY <1>1 DEF Package
<1> QED
  BY <1>2 DEF cs, b

LEMMA DiffTyped ==
    ASSUME Typed, NEW s \in scanning, Diff(s)
    PROVE  Typed'
<1> DEFINE p == [claims |-> ClaimsOf(s), baseline |-> BaselineOf(s)]
<1>1. p \in Package
  BY PackageTyped DEF Typed, TypeOK
<1>2. diffed' = diffed \cup {p} \/ diffed' = diffed
  BY DEF Diff
<1> HIDE DEF p
<1>3. diffed' \subseteq Package
  BY <1>1, <1>2 DEF Typed, TypeOK
<1>4. scanning' = {} /\ UNCHANGED <<world, host, baseVars, queueVars, serverVars, acks>>
  BY DEF Diff
<1>5. Cardinality(scanning') = 0
  BY <1>4, FS_EmptySet
<1>6. TypeOK'
  BY <1>3, <1>4, <1>5 DEF Typed, TypeOK, baseVars, queueVars, serverVars
<1>7. Counters'
  BY <1>4 DEF Typed, Counters, baseVars, queueVars, serverVars
<1> QED
  BY <1>6, <1>7 DEF Typed

(* The queue after an event entered it.                                    *)
LEMMA EventEntered ==
    ASSUME Typed, NEW cdp \in BOOLEAN, NEW claims \in Claims, EnqueueEvent(cdp, claims),
           world' = world
    PROVE  /\ sent' = sent + 1 /\ nextId' = nextId + 1
           /\ sent' \in 1..MaxSends /\ nextId \in 1..MaxSends /\ nextId' \in 1..(MaxSends + 1)
           /\ sent' <= world.sends
           /\ \E e \in Event : /\ outbox' = outbox \cup {e}
                               /\ e.uid = sent' /\ e.id = nextId /\ e.cdp = cdp /\ e.claims = claims
           /\ \A e \in outbox' : e \in Event /\ e.uid <= sent'
           /\ \A e, f \in outbox' : e.uid = f.uid => e = f
<1> DEFINE n == sent + 1
           e == [uid |-> n, id |-> nextId, cdp |-> cdp, claims |-> claims]
<1>1. sent' = n /\ nextId' = nextId + 1 /\ outbox' = outbox \cup {e} /\ sent < world.sends
  BY DEF EnqueueEvent
<1>2. /\ n \in 1..MaxSends /\ nextId \in 1..MaxSends /\ nextId + 1 \in 1..(MaxSends + 1)
      /\ n <= world.sends /\ sent < n
  BY <1>1, WorldFacts DEF Typed, TypeOK, Counters
<1> HIDE DEF n
<1>3. e \in Event
  BY <1>2 DEF Event
<1>4. e.uid = n /\ e.id = nextId /\ e.cdp = cdp /\ e.claims = claims
  OBVIOUS
<1> HIDE DEF e
<1>5. \A f \in outbox : f \in Event /\ f.uid \in 1..MaxSends /\ f.uid <= sent
  BY DEF Typed, TypeOK, Counters, Event
<1>6. sent \in Nat /\ n \in Nat
  BY <1>2 DEF Typed, TypeOK
<1>7. \A f \in outbox : f.uid <= n /\ f.uid # n
  BY <1>2, <1>5, <1>6
<1>8. \A f \in outbox' : f \in Event /\ f.uid <= sent'
  BY <1>1, <1>2, <1>3, <1>4, <1>5, <1>6, <1>7
<1>9. \A f, g \in outbox' : f.uid = g.uid => f = g
  BY <1>1, <1>4, <1>7 DEF Typed, Counters
<1> QED
  BY <1>1, <1>2, <1>3, <1>4, <1>8, <1>9 DEF n

(* What enqueueing a package does to the outbox and to the staged rows.    *)
LEMMA EnqueueFacts ==
    ASSUME Typed, NEW p \in diffed, Enqueue(p)
    PROVE  /\ sent' = sent + 1 /\ nextId' = nextId + 1 /\ nextSeq' = nextSeq + 1
           /\ sent' \in 1..MaxSends /\ sent' <= world.sends /\ nextId' \in 1..(MaxSends + 1)
           /\ UNCHANGED <<world, host, base, acked, lastSeq, scanning, serverVars, acks>>
           /\ diffed' = diffed \ {p}
           /\ \E e \in Event : /\ outbox' = outbox \cup {e} /\ e.uid = sent' /\ e.id = nextId
                               /\ e.cdp = TRUE /\ e.claims = p.claims
           /\ \A e \in outbox' : e \in Event /\ e.uid <= sent'
           /\ \A e, f \in outbox' : e.uid = f.uid => e = f
           /\ \E r \in Staged : /\ r \in staged' /\ r.seq = nextSeq /\ r.id = nextId
                                /\ r.uid = sent' /\ r.baseline = p.baseline
                                /\ \A q \in staged' : q = r \/ (q \in staged /\ q.id # r.id)
<1>1. p \in Package /\ p.claims \in Claims /\ p.baseline \in Inventory
  BY DEF Typed, TypeOK, Package
<1>2. /\ UNCHANGED <<world, host, scanning, serverVars, acks>> /\ diffed' = diffed \ {p}
      /\ EnqueueEvent(TRUE, p.claims)
  BY DEF Enqueue
<1>3. PICK Old \in SUBSET staged : StageCdpDelivery(nextId, sent', p.baseline, Old)
  BY DEF Enqueue
<1> DEFINE n == sent'
           r == [seq |-> nextSeq, id |-> nextId, uid |-> n, baseline |-> p.baseline]
<1>4. /\ staged' = {q \in staged : q.id # nextId /\ q \notin Old} \cup {r}
      /\ nextSeq' = nextSeq + 1 /\ UNCHANGED <<base, acked, lastSeq>>
  BY <1>3 DEF StageCdpDelivery
<1>5. /\ sent' = sent + 1 /\ nextId' = nextId + 1
      /\ n \in 1..MaxSends /\ nextId \in 1..MaxSends /\ nextId' \in 1..(MaxSends + 1)
      /\ sent' <= world.sends
      /\ \E e \in Event : /\ outbox' = outbox \cup {e}
                          /\ e.uid = sent' /\ e.id = nextId /\ e.cdp = TRUE /\ e.claims = p.claims
      /\ \A e \in outbox' : e \in Event /\ e.uid <= sent'
      /\ \A e, f \in outbox' : e.uid = f.uid => e = f
  BY <1>1, <1>2, EventEntered
<1>6. nextSeq \in 1..(MaxSends + 1) /\ sent \in Nat /\ nextSeq <= sent + 1 /\ MaxSends \in Nat
  BY WorldFacts DEF Typed, TypeOK, Counters
<1>7. nextSeq \in 1..MaxSends
  BY <1>5, <1>6
<1> HIDE DEF n
<1>8. r \in Staged
  BY <1>1, <1>5, <1>7 DEF Staged
<1>9. r.seq = nextSeq /\ r.id = nextId /\ r.uid = n /\ r.baseline = p.baseline
  OBVIOUS
<1> HIDE DEF r
<1>10. r \in staged' /\ \A q \in staged' : q = r \/ (q \in staged /\ q.id # r.id)
  BY <1>4, <1>9
<1>11. r.uid = sent'
  BY <1>9 DEF n
<1> QED
  BY <1>2, <1>4, <1>5, <1>8, <1>9, <1>10, <1>11 DEF n

LEMMA EnqueueTyped ==
    ASSUME Typed, NEW p \in diffed, Enqueue(p)
    PROVE  Typed'
<1>1. /\ sent' = sent + 1 /\ nextId' = nextId + 1 /\ nextSeq' = nextSeq + 1
      /\ sent' \in 1..MaxSends /\ sent' <= world.sends /\ nextId' \in 1..(MaxSends + 1)
      /\ UNCHANGED <<world, host, base, acked, lastSeq, scanning, server, applied, had, acks>>
      /\ diffed' = diffed \ {p}
      /\ \A e \in outbox' : e \in Event /\ e.uid <= sent'
      /\ \A e, f \in outbox' : e.uid = f.uid => e = f
  BY EnqueueFacts DEF serverVars
<1>2. PICK r \in Staged : /\ r.seq = nextSeq /\ r.uid = sent'
                          /\ \A q \in staged' : q = r \/ (q \in staged /\ q.id # r.id)
  BY EnqueueFacts
<1>3. \A q \in staged : q \in Staged /\ q.seq \in Nat /\ q.seq < nextSeq /\ q.uid \in Nat /\ q.uid <= sent
  BY DEF Typed, TypeOK, Counters, Staged
<1>4. /\ nextSeq \in Nat /\ lastSeq \in Nat /\ sent \in Nat /\ MaxSends \in Nat
      /\ nextSeq' \in 1..(MaxSends + 1) /\ nextSeq' <= sent' + 1 /\ nextId' <= sent' + 1
      /\ lastSeq' < nextSeq'
  BY <1>1, WorldFacts DEF Typed, TypeOK, Counters
<1>5. \A q \in staged' : q \in Staged /\ q.seq < nextSeq' /\ q.uid <= sent'
  BY <1>1, <1>2, <1>3, <1>4
<1>6. \A q \in staged' : q # r => q.seq # r.seq /\ q.id # r.id
  BY <1>2, <1>3, <1>4
<1>7. \A q, t \in staged' : q.id = t.id \/ q.seq = t.seq => q = t
  BY <1>2, <1>6 DEF Typed, TypeOK
<1>8. \A u \in applied' : u <= sent'
  BY <1>1, <1>4 DEF Typed, TypeOK, Counters
<1>9. diffed' \subseteq Package /\ outbox' \subseteq Event /\ staged' \subseteq Staged /\ sent' \in 0..MaxSends
  BY <1>1, <1>5 DEF Typed, TypeOK
<1>10. TypeOK'
  BY <1>1, <1>4, <1>7, <1>9 DEF Typed, TypeOK
<1>11. Counters'
  BY <1>1, <1>4, <1>5, <1>8 DEF Typed, Counters
<1> QED
  BY <1>10, <1>11 DEF Typed

(* An event that enters the queue while no package is staged.              *)
LEMMA OthersTyped ==
    ASSUME Typed, NEW cdp \in BOOLEAN, NEW claims \in Claims, EnqueueEvent(cdp, claims),
           scanning' \in {{}, scanning}, diffed' \in {{}, diffed},
           UNCHANGED <<world, host, baseVars, serverVars, acks>>
    PROVE  Typed'
<1>1. UNCHANGED <<world, host, base, acked, staged, nextSeq, lastSeq, server, applied, had, acks>>
  BY DEF baseVars, serverVars
<1>2. /\ sent' = sent + 1 /\ nextId' = nextId + 1
      /\ sent' \in 1..MaxSends /\ nextId' \in 1..(MaxSends + 1) /\ sent' <= world.sends
      /\ \A e \in outbox' : e \in Event /\ e.uid <= sent'
      /\ \A e, f \in outbox' : e.uid = f.uid => e = f
  BY <1>1, EventEntered
<1>3. scanning' \subseteq Scan /\ Cardinality(scanning') <= 1 /\ diffed' \subseteq Package
  BY FS_EmptySet DEF Typed, TypeOK
<1>4. outbox' \subseteq Event /\ sent' \in 0..MaxSends
  BY <1>2
<1>5. TypeOK'
  BY <1>1, <1>2, <1>3, <1>4 DEF Typed, TypeOK
<1>6. /\ sent \in Nat /\ sent' \in Nat /\ nextId \in Nat /\ nextSeq \in Nat
      /\ \A r \in staged : r.uid \in Nat /\ r.uid <= sent
      /\ \A u \in applied : u \in Nat /\ u <= sent
  BY <1>2 DEF Typed, TypeOK, Counters, Staged
<1>7. Counters'
  BY <1>1, <1>2, <1>6 DEF Typed, Counters
<1> QED
  BY <1>5, <1>7 DEF Typed

LEMMA NoClaims == Restricted(Nothing, {}) \in Claims /\ DOMAIN Restricted(Nothing, {}) = {}
BY RestrictedFacts, NothingTyped

(* What the control plane does with an event.                              *)
LEMMA DeliverFacts ==
    ASSUME Typed, NEW e \in outbox, Deliver(e)
    PROVE  /\ e \in Event /\ applied' = applied \cup {e.uid}
           /\ \E a : acks' = acks \cup {a} /\ a = [uid |-> e.uid, id |-> e.id]
                     /\ a.uid = e.uid /\ a.id = e.id /\ a \in [uid : 1..MaxSends, id : 1..MaxSends]
           /\ UNCHANGED <<world, host, base, acked, staged, nextSeq, lastSeq, scanning, diffed,
                          outbox, nextId, sent>>
           /\ \/ /\ server' = Update(server, e.claims)
                 /\ \A c \in Certs : had'[c] = IF c \in DOMAIN e.claims THEN had[c] \cup {e.claims[c]}
                                                ELSE had[c]
              \/ e.uid \in applied /\ UNCHANGED <<server, had>>
           /\ server' \in Inventory /\ had' \in [Certs -> SUBSET Contents]
           /\ \A c \in Certs : had[c] \subseteq had'[c]
<1> DEFINE a == [uid |-> e.uid, id |-> e.id]
           more == [c \in Certs |-> IF c \in DOMAIN e.claims THEN had[c] \cup {e.claims[c]} ELSE had[c]]
<1>1. /\ applied' = applied \cup {e.uid} /\ acks' = acks \cup {a}
      /\ \/ server' = Update(server, e.claims) /\ had' = more
         \/ e.uid \in applied /\ UNCHANGED <<server, had>>
      /\ UNCHANGED <<world, host, baseVars, scanVars, queueVars>>
  BY DEF Deliver
<1>2. e \in Event /\ e.uid \in 1..MaxSends /\ e.id \in 1..MaxSends /\ e.claims \in Claims
  BY DEF Typed, TypeOK, Event
<1>3. a.uid = e.uid /\ a.id = e.id /\ a \in [uid : 1..MaxSends, id : 1..MaxSends]
  BY <1>2
<1>4. server \in Inventory /\ had \in [Certs -> SUBSET Contents]
  BY DEF Typed, TypeOK
<1>5. PICK D \in SUBSET Certs : e.claims \in [D -> Contents]
  BY <1>2 DEF Claims
<1>6. /\ more \in [Certs -> SUBSET Contents]
      /\ \A c \in Certs : more[c] = IF c \in DOMAIN e.claims THEN had[c] \cup {e.claims[c]} ELSE had[c]
      /\ \A c \in Certs : had[c] \subseteq more[c]
  BY <1>4, <1>5
<1>7. Update(server, e.claims) \in Inventory
  BY <1>2, <1>4, UpdateFacts
<1> HIDE DEF a, more
<1>8. UNCHANGED <<world, host, base, acked, staged, nextSeq, lastSeq, scanning, diffed, outbox, nextId, sent>>
  BY <1>1 DEF baseVars, scanVars, queueVars
<1>9. server' \in Inventory /\ had' \in [Certs -> SUBSET Contents] /\ \A c \in Certs : had[c] \subseteq had'[c]
  BY <1>1, <1>4, <1>6, <1>7
<1>10. \/ /\ server' = Update(server, e.claims)
          /\ \A c \in Certs : had'[c] = IF c \in DOMAIN e.claims THEN had[c] \cup {e.claims[c]} ELSE had[c]
       \/ e.uid \in applied /\ UNCHANGED <<server, had>>
  BY <1>1, <1>6
<1>11. \E x : acks' = acks \cup {x} /\ x = [uid |-> e.uid, id |-> e.id]
              /\ x.uid = e.uid /\ x.id = e.id /\ x \in [uid : 1..MaxSends, id : 1..MaxSends]
  BY <1>1, <1>3 DEF a
<1> QED
  BY <1>1, <1>2, <1>8, <1>9, <1>10, <1>11

LEMMA DeliverTyped ==
    ASSUME Typed, NEW e \in outbox, Deliver(e)
    PROVE  Typed'
<1>1. /\ e \in Event /\ applied' = applied \cup {e.uid}
      /\ UNCHANGED <<world, host, base, acked, staged, nextSeq, lastSeq, scanning, diffed,
                     outbox, nextId, sent>>
      /\ server' \in Inventory /\ had' \in [Certs -> SUBSET Contents]
  BY DeliverFacts
<1>2. PICK a : acks' = acks \cup {a} /\ a.uid = e.uid /\ a \in [uid : 1..MaxSends, id : 1..MaxSends]
  BY DeliverFacts
<1>3. e.uid \in 1..MaxSends /\ e.uid <= sent
  BY <1>1 DEF Event, Typed, Counters
<1>4. applied' \subseteq 1..MaxSends /\ acks' \subseteq [uid : 1..MaxSends, id : 1..MaxSends]
  BY <1>1, <1>2, <1>3 DEF Typed, TypeOK
<1>5. TypeOK'
  BY <1>1, <1>4 DEF Typed, TypeOK
<1>6. (\A u \in applied' : u <= sent') /\ \A b \in acks' : b.uid \in applied'
  BY <1>1, <1>2, <1>3 DEF Typed, Counters
<1>7. Counters'
  BY <1>1, <1>6 DEF Typed, Counters
<1> QED
  BY <1>5, <1>7 DEF Typed

(* What an ACK_OK does to the baseline.                                    *)
LEMMA AckFacts ==
    ASSUME Typed, NEW a \in acks, AckPush(a)
    PROVE  /\ UNCHANGED <<world, host, nextSeq, scanning, diffed, nextId, sent, server, applied, had>>
           /\ acks' = acks \ {a} /\ outbox' = {e \in outbox : e.id # a.id}
           /\ staged' \subseteq staged
           /\ \A r \in staged : r.id = a.id => r \notin staged'
           /\ (\A r \in staged : r.id # a.id) => staged' = staged
           /\ \/ \E r \in staged : /\ r.id = a.id /\ r.seq > lastSeq
                                   /\ base' = r.baseline /\ acked' = TRUE /\ lastSeq' = r.seq
              \/ /\ \A r \in staged : r.id = a.id => r.seq <= lastSeq
                 /\ UNCHANGED <<base, acked, lastSeq>>
<1> DEFINE rows == {r \in staged : r.id = a.id}
           newest == {r \in rows : \A q \in rows : q.seq <= r.seq}
<1>1. /\ acks' = acks \ {a} /\ outbox' = {e \in outbox : e.id # a.id}
      /\ PromoteCdpDelivery(a.id)
      /\ UNCHANGED <<world, host, scanning, diffed, nextId, sent, server, applied, had>>
  BY DEF AckPush, scanVars, serverVars
<1>2. /\ staged' = {q \in staged : \A r \in newest : q.seq > r.seq}
      /\ \/ \E r \in newest : /\ r.seq > lastSeq /\ base' = r.baseline /\ acked' = TRUE /\ lastSeq' = r.seq
         \/ (\A r \in newest : r.seq <= lastSeq) /\ UNCHANGED <<base, acked, lastSeq>>
      /\ UNCHANGED nextSeq
  BY <1>1 DEF PromoteCdpDelivery
<1>3. \A r, q \in staged : r.id = q.id => r = q
  BY DEF Typed, TypeOK
<1>4. \A r \in staged : r.seq \in Nat
  BY DEF Typed, TypeOK, Staged
<1>5. \A r \in staged : r.id = a.id => r \in newest
  BY <1>3, <1>4
<1>6. \A r \in newest : r \in staged /\ r.id = a.id
  OBVIOUS
<1> HIDE DEF newest
<1>7. /\ \A r \in staged : r.id = a.id => r \notin staged'
      /\ (\A r \in staged : r.id # a.id) => staged' = staged
  BY <1>2, <1>4, <1>5, <1>6
<1>8. \/ \E r \in staged : /\ r.id = a.id /\ r.seq > lastSeq
                           /\ base' = r.baseline /\ acked' = TRUE /\ lastSeq' = r.seq
      \/ /\ \A r \in staged : r.id = a.id => r.seq <= lastSeq
         /\ UNCHANGED <<base, acked, lastSeq>>
  BY <1>2, <1>5, <1>6
<1> QED
  BY <1>1, <1>2, <1>7, <1>8

LEMMA AckTyped ==
    ASSUME Typed, NEW a \in acks, AckPush(a)
    PROVE  Typed'
<1>1. /\ UNCHANGED <<world, host, nextSeq, scanning, diffed, nextId, sent, server, applied, had>>
      /\ acks' \subseteq acks /\ outbox' \subseteq outbox /\ staged' \subseteq staged
  BY AckFacts
<1>2. \A r \in staged : r.seq \in 1..MaxSends /\ r.seq < nextSeq /\ r.baseline \in Inventory
  BY DEF Typed, TypeOK, Counters, Staged
<1>3. /\ base' \in Inventory /\ acked' \in BOOLEAN /\ lastSeq' \in 0..MaxSends /\ lastSeq' < nextSeq'
  <2>1. CASE \E r \in staged : /\ r.id = a.id /\ r.seq > lastSeq
                               /\ base' = r.baseline /\ acked' = TRUE /\ lastSeq' = r.seq
    BY <1>1, <1>2, <2>1
  <2>2. CASE UNCHANGED <<base, acked, lastSeq>>
    BY <1>1, <2>2 DEF Typed, TypeOK, Counters
  <2> QED
    BY <2>1, <2>2, AckFacts
<1>4. TypeOK'
  BY <1>1, <1>3 DEF Typed, TypeOK
<1>5. Counters'
  BY <1>1, <1>3 DEF Typed, Counters
<1> QED
  BY <1>4, <1>5 DEF Typed

(* Steps that only drop scans, events and ACKs.                            *)
LEMMA DropTyped ==
    ASSUME Typed, UNCHANGED <<world, host, baseVars, sent, serverVars>>,
           scanning' \in {{}, scanning}, diffed' \in {{}, diffed},
           outbox' \subseteq outbox, acks' \subseteq acks, nextId' \in {1, nextId}
    PROVE  Typed'
<1>1. UNCHANGED <<world, host, base, acked, staged, nextSeq, lastSeq, sent, server, applied, had>>
  BY DEF baseVars, serverVars
<1>2. scanning' \subseteq Scan /\ Cardinality(scanning') <= 1 /\ diffed' \subseteq Package
  BY FS_EmptySet DEF Typed, TypeOK
<1>3. nextId' \in 1..(MaxSends + 1) /\ nextId' <= sent' + 1
  BY <1>1, WorldFacts DEF Typed, TypeOK, Counters
<1>4. TypeOK'
  BY <1>1, <1>2, <1>3 DEF Typed, TypeOK
<1>5. Counters'
  BY <1>1, <1>3 DEF Typed, Counters
<1> QED
  BY <1>4, <1>5 DEF Typed

LEMMA StepTyped == Typed /\ [Next]_vars => Typed'
<1> SUFFICES ASSUME Typed, [Next]_vars PROVE Typed'
  OBVIOUS
<1>1. CASE \E c \in world.certs, v \in Contents : HostChanges(c, v)
  BY <1>1, HostTyped
<1>2. CASE \E asked \in BOOLEAN, kind \in world.kinds, hidden \in SUBSET world.certs :
              Collect(asked, kind, hidden)
  BY <1>2, CollectTyped
<1>3. CASE \E s \in scanning : Diff(s)
  BY <1>3, DiffTyped DEF Typed, TypeOK
<1>4. CASE \E p \in diffed : Enqueue(p)
  BY <1>4, EnqueueTyped
<1>5. CASE \E p \in diffed : EnqueueTorn(p)
  <2>1. PICK p \in diffed : EnqueueTorn(p)
    BY <1>5
  <2>2. p.claims \in Claims
    BY DEF Typed, TypeOK, Package
  <2> QED
    BY <2>1, <2>2, OthersTyped DEF EnqueueTorn
<1>6. CASE EnqueueOther
  <2>1. scanning' \in {{}, scanning} /\ diffed' \in {{}, diffed}
    BY <1>6 DEF EnqueueOther, scanVars
  <2> QED
    BY <1>6, <2>1, NoClaims, OthersTyped DEF EnqueueOther
<1>7. CASE Restart
  BY <1>7, DropTyped DEF Restart, queueVars
<1>8. CASE \E e \in outbox : Deliver(e)
  BY <1>8, DeliverTyped
<1>9. CASE \E a \in acks : LoseAck(a)
  BY <1>9, DropTyped DEF LoseAck, scanVars, queueVars
<1>10. CASE \E a \in acks : AckPush(a)
  BY <1>10, AckTyped
<1>11. CASE \E e \in outbox : GiveUp(e)
  BY <1>11, DropTyped DEF GiveUp, scanVars
<1>12. CASE Quarantine
  BY <1>12, DropTyped DEF Quarantine
<1>13. CASE UNCHANGED vars
  BY <1>13, DropTyped DEF vars, scanVars, queueVars
<1> QED
  BY <1>1, <1>2, <1>3, <1>4, <1>5, <1>6, <1>7, <1>8, <1>9, <1>10, <1>11, <1>12, <1>13 DEF Next

LEMMA TypedAlways == Spec => []Typed
BY InitTyped, StepTyped, PTL DEF Spec

(* Every variable keeps its type and no two staged packages share an id or *)
(* a seq.                                                                  *)
THEOREM TypeCorrect == Spec => []TypeOK
<1>1. Typed => TypeOK
  BY DEF Typed
<1> QED
  BY <1>1, TypedAlways, PTL

(* No step moves the baseline but the promotion of a package staged later  *)
(* than the one in force: a late ACK never takes it back.                  *)
THEOREM BaselineAdvances == Spec => BaselineOnlyAdvances
<1>1. Typed /\ [Next]_vars => [base' # base => lastSeq' > lastSeq]_vars
  <2> SUFFICES ASSUME Typed, Next, base' # base PROVE lastSeq' > lastSeq
    BY DEF vars, baseVars
  <2>1. PICK a \in acks : AckPush(a)
    BY EnqueueFacts DEF Next, HostChanges, Collect, Diff, EnqueueTorn, EnqueueOther, Restart,
                        Deliver, LoseAck, GiveUp, Quarantine, baseVars
  <2> QED
    BY <2>1, AckFacts
<1> QED
  BY <1>1, TypedAlways, PTL DEF Spec, BaselineOnlyAdvances

-----------------------------------------------------------------------------
(* Whose event an id is.                                                   *)

LEMMA InitOwn == Init => OwnIds
BY DEF Init, OwnIds

LEMMA EventOwn ==
    ASSUME Typed, OwnIds, NEW cdp \in BOOLEAN, NEW claims \in Claims, EnqueueEvent(cdp, claims),
           UNCHANGED <<world, staged, acks>>
    PROVE  OwnIds'
<1>1. sent' = sent + 1 /\ nextId' = nextId + 1
  BY EventEntered
<1>2. PICK e \in Event : outbox' = outbox \cup {e} /\ e.uid = sent' /\ e.id = nextId
  BY EventEntered
<1> QED
  BY <1>1, <1>2 DEF OwnIds

LEMMA OwnStep == Typed /\ OwnIds /\ [Next]_vars => OwnIds'
<1> SUFFICES ASSUME Typed, OwnIds, [Next]_vars PROVE OwnIds'
  OBVIOUS
<1>1. CASE \E c \in world.certs, v \in Contents : HostChanges(c, v)
  BY <1>1 DEF HostChanges, OwnIds, baseVars, queueVars
<1>2. CASE \E asked \in BOOLEAN, kind \in world.kinds, hidden \in SUBSET world.certs :
              Collect(asked, kind, hidden)
  BY <1>2 DEF Collect, OwnIds, baseVars, queueVars
<1>3. CASE \E s \in scanning : Diff(s)
  BY <1>3 DEF Diff, OwnIds, baseVars, queueVars
<1>4. CASE \E p \in diffed : Enqueue(p)
  <2>1. PICK p \in diffed : Enqueue(p)
    BY <1>4
  <2>2. sent' = sent + 1 /\ nextId' = nextId + 1 /\ UNCHANGED <<world, acks>>
    BY <2>1, EnqueueFacts
  <2>3. PICK e \in Event : outbox' = outbox \cup {e} /\ e.uid = sent' /\ e.id = nextId
    BY <2>1, EnqueueFacts
  <2>4. PICK r \in Staged : /\ r.id = nextId /\ r.uid = sent'
                            /\ \A q \in staged' : q = r \/ (q \in staged /\ q.id # r.id)
    BY <2>1, EnqueueFacts
  <2> QED
    BY <2>2, <2>3, <2>4 DEF OwnIds
<1>5. CASE \E p \in diffed : EnqueueTorn(p)
  <2>1. PICK p \in diffed : EnqueueTorn(p)
    BY <1>5
  <2>2. p.claims \in Claims
    BY DEF Typed, TypeOK, Package
  <2> QED
    BY <2>1, <2>2, EventOwn DEF EnqueueTorn, baseVars
<1>6. CASE EnqueueOther
  BY <1>6, NoClaims, EventOwn DEF EnqueueOther, baseVars
<1>7. CASE Restart
  BY <1>7 DEF Restart, OwnIds, baseVars, queueVars
<1>8. CASE \E e \in outbox : Deliver(e)
  <2>1. PICK e \in outbox : Deliver(e)
    BY <1>8
  <2>2. PICK a : acks' = acks \cup {a} /\ a.uid = e.uid /\ a.id = e.id
    BY <2>1, DeliverFacts
  <2> QED
    BY <2>1, <2>2, DeliverFacts DEF OwnIds
<1>9. CASE \E a \in acks : LoseAck(a)
  BY <1>9 DEF LoseAck, OwnIds, baseVars, queueVars
<1>10. CASE \E a \in acks : AckPush(a)
  BY <1>10, AckFacts DEF OwnIds
<1>11. CASE \E e \in outbox : GiveUp(e)
  BY <1>11 DEF GiveUp, OwnIds, baseVars
<1>12. CASE Quarantine
  BY <1>12 DEF Quarantine, OwnIds
<1>13. CASE UNCHANGED vars
  BY <1>13 DEF vars, OwnIds, baseVars, queueVars
<1> QED
  BY <1>1, <1>2, <1>3, <1>4, <1>5, <1>6, <1>7, <1>8, <1>9, <1>10, <1>11, <1>12, <1>13 DEF Next

LEMMA OwnAlways == Spec => []OwnIds
BY InitOwn, OwnStep, TypedAlways, PTL DEF Spec

(* While the outbox is the same file, the package an ACK_OK installs       *)
(* belongs to the event that was acknowledged, which the control plane     *)
(* has applied.                                                            *)
THEOREM AcksPromoteTheirOwn == Spec => PromotedByOwnAck
<1> DEFINE A == lastSeq' # lastSeq /\ "quarantine" \notin world.faults =>
                  \E r \in staged : r.seq = lastSeq' /\ r.uid \in applied
<1>1. Typed /\ OwnIds /\ [Next]_vars => [A]_vars
  <2> SUFFICES ASSUME Typed, OwnIds, Next, lastSeq' # lastSeq, "quarantine" \notin world.faults
               PROVE  \E r \in staged : r.seq = lastSeq' /\ r.uid \in applied
    OBVIOUS
  <2>1. PICK a \in acks : AckPush(a)
    BY EnqueueFacts DEF Next, HostChanges, Collect, Diff, EnqueueTorn, EnqueueOther, Restart,
                        Deliver, LoseAck, GiveUp, Quarantine, baseVars
  <2>2. PICK r \in staged : r.id = a.id /\ lastSeq' = r.seq
    BY <2>1, AckFacts
  <2> QED
    BY <2>1, <2>2 DEF OwnIds, Typed, Counters
<1> QED
  BY <1>1, TypedAlways, OwnAlways, PTL DEF Spec, PromotedByOwnAck

-----------------------------------------------------------------------------
(* What stands behind a baseline.  Once a package is the baseline, or its  *)
(* event was applied, the control plane received everything it says;       *)
(* before that, what it did not receive is claimed by the event.           *)

Fresh == world.faults \cap {"legacy", "quarantine"} = {}
Received(h, b) == \A c \in Certs : b[c] # Absent => b[c] \in h[c]
Backed(h, claims, b) ==
    \A c \in Certs : b[c] # Absent => b[c] \in h[c] \/ (c \in DOMAIN claims /\ claims[c] = b[c])

BaseGrounded == Received(had, base) /\ (~acked => base = Nothing)
ScansGrounded == \A s \in scanning : s.full \/ acked
PackagesGrounded == \A p \in diffed : Backed(had, p.claims, p.baseline)
StagedGrounded ==
    \A r \in staged : \/ Received(had, r.baseline)
                      \/ /\ r.uid \notin applied
                         /\ \A e \in outbox : e.uid = r.uid => Backed(had, e.claims, r.baseline)
Grounded == Fresh => BaseGrounded /\ ScansGrounded /\ PackagesGrounded /\ StagedGrounded

LEMMA GroundedGrows ==
    ASSUME NEW h, NEW k, \A c \in Certs : h[c] \subseteq k[c]
    PROVE  /\ \A b : Received(h, b) => Received(k, b)
           /\ \A claims, b : Backed(h, claims, b) => Backed(k, claims, b)
BY DEF Received, Backed

LEMMA InitGrounded == Init => Grounded
<1> SUFFICES ASSUME Init, Fresh PROVE Grounded
  BY DEF Grounded
<1>1. base = Nothing
  BY DEF Init, Fresh
<1>2. \A c \in Certs : Nothing[c] = Absent
  BY DEF Nothing
<1>3. staged = {} /\ scanning = {} /\ diffed = {}
  BY DEF Init
<1> QED
  BY <1>1, <1>2, <1>3
     DEF Grounded, BaseGrounded, ScansGrounded, PackagesGrounded, StagedGrounded, Received

(* The difference from a baseline that was received backs the new one.     *)
LEMMA DiffBacked ==
    ASSUME TypeOK, BaseGrounded, NEW s \in Scan
    PROVE  Backed(had, ClaimsOf(s), BaselineOf(s))
<1> DEFINE cs == ClaimsOf(s)
           b == BaselineOf(s)
<1>1. /\ DOMAIN cs = IF s.full \/ base = Nothing THEN Claimable(s)
                     ELSE Claimable(s) \cap Differing(s.seen, base)
      /\ \A c \in DOMAIN cs : cs[c] = s.seen[c]
      /\ \A c \in Certs : b[c] = IF s.kind = "named" /\ c \in s.hidden THEN base[c] ELSE s.seen[c]
  BY DiffFacts
<1> HIDE DEF cs, b
<1>2. SUFFICES ASSUME NEW c \in Certs, b[c] # Absent
               PROVE  b[c] \in had[c] \/ (c \in DOMAIN cs /\ cs[c] = b[c])
  BY DEF Backed, cs, b
<1>3. base[c] # Absent => base[c] \in had[c]
  BY DEF BaseGrounded, Received
<1>4. CASE s.kind = "named" /\ c \in s.hidden
  BY <1>1, <1>2, <1>3, <1>4
<1>5. CASE ~(s.kind = "named" /\ c \in s.hidden)
  <2>1. b[c] = s.seen[c]
    BY <1>1, <1>5
  <2>2. c \in Claimable(s)
    BY <1>2, <1>5, <2>1 DEF Claimable, Scan, ScanKinds
  <2>3. c \in DOMAIN cs \/ s.seen[c] = base[c]
    BY <1>1, <2>2 DEF Differing
  <2> QED
    BY <1>1, <1>2, <1>3, <2>1, <2>3
<1> QED
  BY <1>4, <1>5

(* An event that enters the queue is none of the staged ones.              *)
LEMMA EventGrounded ==
    ASSUME Typed, OwnIds, Grounded, Fresh, NEW cdp \in BOOLEAN, NEW claims \in Claims,
           EnqueueEvent(cdp, claims),
           scanning' \subseteq scanning, diffed' \subseteq diffed,
           UNCHANGED <<world, baseVars, serverVars>>
    PROVE  Grounded'
<1>1. UNCHANGED <<world, base, acked, staged, server, applied, had>>
  BY DEF baseVars, serverVars
<1>2. PICK e \in Event : outbox' = outbox \cup {e} /\ e.uid = sent'
  BY <1>1, EventEntered
<1>3. sent' = sent + 1
  BY <1>1, EventEntered
<1>4. \A r \in staged : r.uid # e.uid
  BY <1>2, <1>3 DEF Typed, TypeOK, Counters, Staged
<1>5. BaseGrounded' /\ ScansGrounded' /\ PackagesGrounded'
  BY <1>1 DEF Grounded, BaseGrounded, ScansGrounded, PackagesGrounded
<1>6. StagedGrounded'
  BY <1>1, <1>2, <1>4 DEF Grounded, StagedGrounded
<1> QED
  BY <1>5, <1>6 DEF Grounded

LEMMA EnqueueGrounded ==
    ASSUME Typed, OwnIds, Grounded, Fresh, NEW p \in diffed, Enqueue(p)
    PROVE  Grounded'
<1>1. /\ UNCHANGED <<world, base, acked, scanning, applied, had>>
      /\ diffed' \subseteq diffed /\ sent' = sent + 1
  BY EnqueueFacts DEF serverVars
<1>2. PICK e \in Event : outbox' = outbox \cup {e} /\ e.uid = sent' /\ e.claims = p.claims
  BY EnqueueFacts
<1>3. PICK r \in Staged : /\ r.uid = sent' /\ r.baseline = p.baseline
                          /\ \A q \in staged' : q = r \/ (q \in staged /\ q.id # r.id)
  BY EnqueueFacts
<1>4. /\ sent \in Nat
      /\ \A q \in staged : q.uid \in Nat /\ q.uid <= sent
      /\ \A f \in outbox : f.uid \in Nat /\ f.uid <= sent
      /\ \A u \in applied : u \in Nat /\ u <= sent
  BY DEF Typed, TypeOK, Counters, Staged, Event
<1>5. BaseGrounded' /\ ScansGrounded' /\ PackagesGrounded'
  BY <1>1 DEF Grounded, BaseGrounded, ScansGrounded, PackagesGrounded
<1>6. Backed(had, p.claims, p.baseline)
  BY DEF Grounded, PackagesGrounded
<1>7. ASSUME NEW q \in staged'
      PROVE  \/ Received(had, q.baseline)
             \/ /\ q.uid \notin applied
                /\ \A f \in outbox' : f.uid = q.uid => Backed(had, f.claims, q.baseline)
  <2>1. CASE q = r
    <3>1. q.uid \notin applied /\ \A f \in outbox : f.uid # q.uid
      BY <1>1, <1>3, <1>4, <2>1
    <3> QED
      BY <1>2, <1>3, <1>6, <2>1, <3>1
  <2>2. CASE q \in staged
    <3>1. q.uid # e.uid
      BY <1>1, <1>2, <1>4, <2>2
    <3> QED
      BY <1>2, <2>2, <3>1 DEF Grounded, StagedGrounded
  <2> QED
    BY <1>3, <2>1, <2>2
<1>8. StagedGrounded'
  BY <1>1, <1>7 DEF StagedGrounded
<1> QED
  BY <1>5, <1>8 DEF Grounded

(* What the control plane applies it has received.                         *)
LEMMA DeliverGrounded ==
    ASSUME Typed, OwnIds, Grounded, Fresh, NEW e \in outbox, Deliver(e)
    PROVE  Grounded'
<1>1. /\ UNCHANGED <<world, base, acked, staged, scanning, diffed, outbox>>
      /\ applied' = applied \cup {e.uid}
      /\ \A c \in Certs : had[c] \subseteq had'[c]
  BY DeliverFacts
<1>2. /\ \A b : Received(had, b) => Received(had', b)
      /\ \A claims, b : Backed(had, claims, b) => Backed(had', claims, b)
  BY <1>1, GroundedGrows
<1>3. BaseGrounded' /\ ScansGrounded' /\ PackagesGrounded'
  BY <1>1, <1>2 DEF Grounded, BaseGrounded, ScansGrounded, PackagesGrounded
<1>4. ASSUME NEW r \in staged
      PROVE  \/ Received(had', r.baseline)
             \/ /\ r.uid \notin applied'
                /\ \A f \in outbox : f.uid = r.uid => Backed(had', f.claims, r.baseline)
  <2>1. CASE Received(had, r.baseline)
    BY <1>2, <2>1
  <2>2. CASE /\ r.uid \notin applied
             /\ \A f \in outbox : f.uid = r.uid => Backed(had, f.claims, r.baseline)
    <3>1. CASE r.uid # e.uid
      BY <1>1, <1>2, <2>2, <3>1
    <3>2. CASE r.uid = e.uid
      <4>1. \A c \in Certs : c \in DOMAIN e.claims => e.claims[c] \in had'[c]
        BY <2>2, <3>2, DeliverFacts
      <4>2. Backed(had', e.claims, r.baseline)
        BY <1>2, <2>2, <3>2
      <4> QED
        BY <4>1, <4>2 DEF Backed, Received
    <3> QED
      BY <3>1, <3>2
  <2> QED
    BY <2>1, <2>2 DEF Grounded, StagedGrounded
<1>5. StagedGrounded'
  BY <1>1, <1>4 DEF StagedGrounded
<1> QED
  BY <1>3, <1>5 DEF Grounded

LEMMA AckGrounded ==
    ASSUME Typed, OwnIds, Grounded, Fresh, NEW a \in acks, AckPush(a)
    PROVE  Grounded'
<1>1. /\ UNCHANGED <<world, scanning, diffed, applied, had>>
      /\ outbox' \subseteq outbox /\ staged' \subseteq staged
  BY AckFacts
<1>2. PackagesGrounded' /\ StagedGrounded'
  BY <1>1 DEF Grounded, PackagesGrounded, StagedGrounded
<1>3. CASE UNCHANGED <<base, acked, lastSeq>>
  BY <1>1, <1>2, <1>3 DEF Grounded, BaseGrounded, ScansGrounded
<1>4. CASE \E r \in staged : r.id = a.id /\ base' = r.baseline /\ acked' = TRUE
  <2>1. PICK r \in staged : r.id = a.id /\ base' = r.baseline /\ acked' = TRUE
    BY <1>4
  <2>2. r.uid = a.uid
    BY <2>1 DEF Fresh, OwnIds
  <2>3. r.uid \in applied
    BY <2>2 DEF Typed, Counters
  <2>4. Received(had, r.baseline)
    BY <2>3 DEF Grounded, StagedGrounded
  <2> QED
    BY <1>1, <1>2, <2>1, <2>4 DEF Grounded, BaseGrounded, ScansGrounded
<1> QED
  BY <1>3, <1>4, AckFacts

(* Steps that only drop scans, packages and events.                        *)
LEMMA DropGrounded ==
    ASSUME Grounded, Fresh, scanning' \subseteq scanning, diffed' \subseteq diffed,
           outbox' \subseteq outbox, UNCHANGED <<world, baseVars, serverVars>>
    PROVE  Grounded'
<1>1. UNCHANGED <<world, base, acked, staged, applied, had>>
  BY DEF baseVars, serverVars
<1> QED
  BY <1>1 DEF Grounded, BaseGrounded, ScansGrounded, PackagesGrounded, StagedGrounded

LEMMA GroundedStep == Typed /\ OwnIds /\ Grounded /\ [Next]_vars => Grounded'
<1> SUFFICES ASSUME Typed, OwnIds, Grounded, [Next]_vars, Fresh' PROVE Grounded'
  BY DEF Grounded
<1>0. Fresh
  BY EnqueueFacts, DeliverFacts, AckFacts
     DEF Fresh, Next, vars, HostChanges, Collect, Diff, EnqueueTorn, EnqueueOther, Restart,
         LoseAck, GiveUp, Quarantine
<1>1. CASE \E c \in world.certs, v \in Contents : HostChanges(c, v)
  BY <1>0, <1>1, DropGrounded DEF HostChanges, scanVars, queueVars
<1>2. CASE \E asked \in BOOLEAN, kind \in world.kinds, hidden \in SUBSET world.certs :
              Collect(asked, kind, hidden)
  <2>1. PICK asked \in BOOLEAN, kind \in world.kinds, hidden \in SUBSET world.certs :
               Collect(asked, kind, hidden)
    BY <1>2
  <2>2. PICK s \in Scan : scanning' = {s} /\ s.full = (asked \/ ~acked)
    BY <2>1, CollectFacts
  <2>3. UNCHANGED <<world, base, acked, staged, diffed, outbox, applied, had>>
    BY <2>1 DEF Collect, baseVars, queueVars, serverVars
  <2>4. ScansGrounded'
    BY <2>2, <2>3 DEF ScansGrounded
  <2> QED
    BY <1>0, <2>3, <2>4 DEF Grounded, BaseGrounded, PackagesGrounded, StagedGrounded
<1>3. CASE \E s \in scanning : Diff(s)
  <2>1. PICK s \in scanning : Diff(s)
    BY <1>3
  <2> DEFINE p == [claims |-> ClaimsOf(s), baseline |-> BaselineOf(s)]
  <2>2. Backed(had, p.claims, p.baseline)
    BY <1>0, DiffBacked DEF Typed, TypeOK, Grounded
  <2>3. /\ UNCHANGED <<world, base, acked, staged, outbox, applied, had>> /\ scanning' = {}
        /\ diffed' = diffed \cup {p} \/ diffed' = diffed
    BY <2>1 DEF Diff, baseVars, queueVars, serverVars
  <2> HIDE DEF p
  <2>4. PackagesGrounded'
    BY <1>0, <2>2, <2>3 DEF Grounded, PackagesGrounded
  <2> QED
    BY <1>0, <2>3, <2>4 DEF Grounded, BaseGrounded, ScansGrounded, StagedGrounded
<1>4. CASE \E p \in diffed : Enqueue(p)
  BY <1>0, <1>4, EnqueueGrounded
<1>5. CASE \E p \in diffed : EnqueueTorn(p)
  <2>1. PICK p \in diffed : EnqueueTorn(p)
    BY <1>5
  <2>2. p.claims \in Claims
    BY DEF Typed, TypeOK, Package
  <2> QED
    BY <1>0, <2>1, <2>2, EventGrounded DEF EnqueueTorn
<1>6. CASE EnqueueOther
  BY <1>0, <1>6, NoClaims, EventGrounded DEF EnqueueOther, scanVars
<1>7. CASE Restart
  BY <1>0, <1>7, DropGrounded DEF Restart, queueVars
<1>8. CASE \E e \in outbox : Deliver(e)
  BY <1>0, <1>8, DeliverGrounded
<1>9. CASE \E a \in acks : LoseAck(a)
  BY <1>0, <1>9, DropGrounded DEF LoseAck, scanVars, queueVars
<1>10. CASE \E a \in acks : AckPush(a)
  BY <1>0, <1>10, AckGrounded
<1>11. CASE \E e \in outbox : GiveUp(e)
  BY <1>0, <1>11, DropGrounded DEF GiveUp, scanVars
<1>12. CASE Quarantine
  BY <1>0, <1>12 DEF Fresh, Quarantine
<1>13. CASE UNCHANGED vars
  BY <1>0, <1>13, DropGrounded DEF vars, scanVars, queueVars
<1> QED
  BY <1>1, <1>2, <1>3, <1>4, <1>5, <1>6, <1>7, <1>8, <1>9, <1>10, <1>11, <1>12, <1>13 DEF Next

(* Whatever the baseline says the control plane has, it did receive.       *)
THEOREM DeliveriesAreConfirmed == Spec => []NothingAssumedDelivered
<1>1. Grounded => NothingAssumedDelivered
  BY DEF Grounded, Fresh, BaseGrounded, Received, NothingAssumedDelivered
<1> QED
  BY <1>1, InitGrounded, GroundedStep, TypedAlways, OwnAlways, PTL DEF Spec

-----------------------------------------------------------------------------
(* Nothing goes wrong, every scan is of the whole device or names what it  *)
(* missed, and a scan waits for the ACK of the one before it.              *)

Undisturbed == world.faults = {} /\ "capped" \notin world.kinds /\ world.overlap = 1
CdpEvents == {e \in outbox : e.cdp}

(* One scan, package or event at a time.                                   *)
Alone ==
    /\ \A s, t \in scanning : s = t
    /\ \A p, q \in diffed : p = q
    /\ \A e, f \in CdpEvents : e = f
    /\ scanning # {} => diffed = {} /\ CdpEvents = {}
    /\ diffed # {} => CdpEvents = {}
    /\ \A s \in scanning : s.kind # "capped"
    /\ \A e \in outbox : ~e.cdp => DOMAIN e.claims = {}

(* The package of the event on its way, which leads from what the control  *)
(* plane has to the baseline it will install.                              *)
Leads(e, r) ==
    /\ staged = {r} /\ r.id = e.id /\ r.seq > lastSeq
    /\ Update(server, e.claims) = r.baseline
    /\ e.uid \in applied => server = r.baseline

Mirrored ==
    /\ CdpEvents = {} => staged = {} /\ base = server
    /\ \A p \in diffed : Update(base, p.claims) = p.baseline
    /\ \A e \in CdpEvents : \E r \in Staged : Leads(e, r)

Single == Undisturbed => Alone /\ Mirrored

LEMMA Subsingleton ==
    ASSUME NEW S, \A x, y \in S : x = y
    PROVE  Cardinality(S) \in Nat /\ (Cardinality(S) = 0 <=> S = {})
<1>1. CASE S = {}
  BY <1>1, FS_EmptySet
<1>2. CASE S # {}
  <2>1. PICK x \in S : S = {x}
    BY <1>2
  <2> QED
    BY <1>2, <2>1, FS_Singleton
<1> QED
  BY <1>1, <1>2

LEMMA NoneOutstanding ==
    ASSUME Alone, Outstanding <= 0
    PROVE  scanning = {} /\ diffed = {} /\ CdpEvents = {}
<1>1. Outstanding = Cardinality(scanning) + Cardinality(diffed) + Cardinality(CdpEvents)
  BY DEF Outstanding, CdpEvents
<1>2. Cardinality(scanning) \in Nat /\ (Cardinality(scanning) = 0 <=> scanning = {})
  BY Subsingleton DEF Alone
<1>3. Cardinality(diffed) \in Nat /\ (Cardinality(diffed) = 0 <=> diffed = {})
  BY Subsingleton DEF Alone
<1>4. Cardinality(CdpEvents) \in Nat /\ (Cardinality(CdpEvents) = 0 <=> CdpEvents = {})
  BY Subsingleton DEF Alone
<1> QED
  BY <1>1, <1>2, <1>3, <1>4

(* The baseline plus what a scan claims is the baseline of its package.    *)
LEMMA DiffLeads ==
    ASSUME TypeOK, NEW s \in Scan, s.kind # "capped"
    PROVE  Update(base, ClaimsOf(s)) = BaselineOf(s)
<1> DEFINE cs == ClaimsOf(s)
           b == BaselineOf(s)
<1>1. /\ cs \in Claims /\ b \in Inventory
      /\ DOMAIN cs = IF s.full \/ base = Nothing THEN Claimable(s)
                     ELSE Claimable(s) \cap Differing(s.seen, base)
      /\ \A c \in DOMAIN cs : cs[c] = s.seen[c]
      /\ \A c \in Certs : b[c] = IF s.kind = "named" /\ c \in s.hidden THEN base[c] ELSE s.seen[c]
  BY DiffFacts
<1> HIDE DEF cs, b
<1>2. base \in Inventory
  BY DEF TypeOK
<1>3. /\ Update(base, cs) \in Inventory
      /\ \A c \in Certs : Update(base, cs)[c] = IF c \in DOMAIN cs THEN cs[c] ELSE base[c]
  BY <1>1, <1>2, UpdateFacts
<1>4. ASSUME NEW c \in Certs
      PROVE  Update(base, cs)[c] = b[c]
  <2>1. CASE s.kind = "named" /\ c \in s.hidden
    <3>1. c \notin Claimable(s)
      BY <2>1 DEF Claimable
    <3> QED
      BY <1>1, <1>3, <2>1, <3>1
  <2>2. CASE ~(s.kind = "named" /\ c \in s.hidden)
    <3>1. c \in Claimable(s)
      BY <2>2 DEF Claimable, Scan, ScanKinds
    <3>2. c \in DOMAIN cs \/ s.seen[c] = base[c]
      BY <1>1, <3>1 DEF Differing
    <3> QED
      BY <1>1, <1>3, <2>2, <3>2
  <2> QED
    BY <2>1, <2>2
<1>5. Update(base, cs) = b
  BY <1>1, <1>3, <1>4, InventoriesEqual
<1> QED
  BY <1>5 DEF cs, b

(* Applying an event again changes nothing, and an empty one never does.   *)
LEMMA UpdateAgain ==
    ASSUME NEW inv \in Inventory, NEW claims \in Claims
    PROVE  /\ Update(Update(inv, claims), claims) = Update(inv, claims)
           /\ DOMAIN claims = {} => Update(inv, claims) = inv
<1> DEFINE i == Update(inv, claims)
           j == Update(i, claims)
<1>1. i \in Inventory /\ \A c \in Certs : i[c] = IF c \in DOMAIN claims THEN claims[c] ELSE inv[c]
  BY UpdateFacts
<1> HIDE DEF i
<1>2. j \in Inventory /\ \A c \in Certs : j[c] = IF c \in DOMAIN claims THEN claims[c] ELSE i[c]
  BY <1>1, UpdateFacts
<1> HIDE DEF j
<1>3. \A c \in Certs : j[c] = i[c]
  BY <1>1, <1>2
<1>4. j = i
  BY <1>1, <1>2, <1>3, InventoriesEqual
<1>5. DOMAIN claims = {} => i = inv
  BY <1>1, InventoriesEqual
<1> QED
  BY <1>4, <1>5 DEF i, j

LEMMA InitSingle == Init => Single
BY DEF Init, Single, Undisturbed, Alone, Mirrored, CdpEvents

(* Steps that leave the staged rows and the events of scans as they were.  *)
LEMMA SameEvents ==
    ASSUME Single, Undisturbed, CdpEvents' = CdpEvents,
           UNCHANGED <<base, staged, lastSeq, server, applied>>,
           scanning' \in {{}, scanning}, diffed' \in {{}, diffed},
           \A e \in outbox' : ~e.cdp => DOMAIN e.claims = {}
    PROVE  Alone' /\ Mirrored'
<1>1. Alone /\ Mirrored
  BY DEF Single
<1>2. Alone'
  BY <1>1 DEF Alone
<1>3. (CdpEvents = {} => staged = {} /\ base = server)'
  BY <1>1 DEF Mirrored
<1>4. \A p \in diffed' : Update(base', p.claims) = p.baseline
  BY <1>1 DEF Mirrored
<1>5. \A e \in CdpEvents' : \E r \in Staged : Leads(e, r)'
  BY <1>1 DEF Mirrored, Leads, Update
<1> QED
  BY <1>2, <1>3, <1>4, <1>5 DEF Mirrored

LEMMA CollectSingle ==
    ASSUME Typed, Single, Undisturbed, NEW asked \in BOOLEAN, NEW kind \in world.kinds,
           NEW hidden \in SUBSET world.certs, Collect(asked, kind, hidden)
    PROVE  Alone' /\ Mirrored'
<1>1. Alone /\ Mirrored
  BY DEF Single
<1>2. Outstanding < 1
  BY DEF Collect, Undisturbed
<1>3. Outstanding <= 0
  <2>1. Outstanding = Cardinality(scanning) + Cardinality(diffed) + Cardinality(CdpEvents)
    BY DEF Outstanding, CdpEvents
  <2>2. Cardinality(scanning) \in Nat /\ Cardinality(diffed) \in Nat /\ Cardinality(CdpEvents) \in Nat
    BY <1>1, Subsingleton DEF Alone
  <2> QED
    BY <1>2, <2>1, <2>2
<1>4. scanning = {} /\ diffed = {} /\ CdpEvents = {}
  BY <1>1, <1>3, NoneOutstanding
<1>5. PICK s \in Scan : scanning' = {s} /\ s.kind = kind
  BY CollectFacts
<1>6. s.kind # "capped"
  BY <1>5 DEF Undisturbed
<1>7. UNCHANGED <<base, staged, lastSeq, diffed, outbox, server, applied>>
  BY DEF Collect, baseVars, queueVars, serverVars
<1>8. diffed' = {} /\ CdpEvents' = {}
  BY <1>4, <1>7 DEF CdpEvents
<1>9. Alone'
  BY <1>1, <1>5, <1>6, <1>7, <1>8 DEF Alone
<1> QED
  BY <1>1, <1>4, <1>7, <1>8, <1>9 DEF Mirrored

LEMMA DiffSingle ==
    ASSUME Typed, Single, Undisturbed, NEW s \in scanning, Diff(s)
    PROVE  Alone' /\ Mirrored'
<1> DEFINE p == [claims |-> ClaimsOf(s), baseline |-> BaselineOf(s)]
<1>1. Alone /\ Mirrored
  BY DEF Single
<1>2. diffed = {} /\ CdpEvents = {} /\ s.kind # "capped"
  BY <1>1 DEF Alone
<1>3. Update(base, p.claims) = p.baseline
  BY <1>2, DiffLeads DEF Typed, TypeOK
<1>4. /\ scanning' = {} /\ (diffed' = {p} \/ diffed' = {})
      /\ UNCHANGED <<base, staged, lastSeq, outbox, server, applied>>
  BY <1>2 DEF Diff, baseVars, queueVars, serverVars
<1> HIDE DEF p
<1>5. CdpEvents' = {}
  BY <1>2, <1>4 DEF CdpEvents
<1>6. Alone'
  BY <1>1, <1>4, <1>5 DEF Alone
<1> QED
  BY <1>1, <1>2, <1>3, <1>4, <1>5, <1>6 DEF Mirrored

LEMMA EnqueueSingle ==
    ASSUME Typed, Single, Undisturbed, NEW p \in diffed, Enqueue(p)
    PROVE  Alone' /\ Mirrored'
<1>1. Alone /\ Mirrored
  BY DEF Single
<1>2. scanning = {} /\ diffed = {p} /\ CdpEvents = {}
  BY <1>1 DEF Alone
<1>3. staged = {} /\ base = server /\ Update(server, p.claims) = p.baseline
  BY <1>1, <1>2 DEF Mirrored
<1>4. /\ UNCHANGED <<base, lastSeq, scanning, server, applied>> /\ diffed' = {}
      /\ sent' = sent + 1
  BY <1>2, EnqueueFacts DEF serverVars
<1>5. PICK e \in Event : /\ outbox' = outbox \cup {e} /\ e.uid = sent' /\ e.id = nextId
                         /\ e.cdp = TRUE /\ e.claims = p.claims
  BY EnqueueFacts
<1>6. PICK r \in Staged : /\ r \in staged' /\ r.seq = nextSeq /\ r.id = nextId /\ r.baseline = p.baseline
                          /\ \A q \in staged' : q = r \/ q \in staged
  BY EnqueueFacts
<1>7. CdpEvents' = {e}
  BY <1>2, <1>5 DEF CdpEvents
<1>8. e.uid \notin applied
  BY <1>4, <1>5 DEF Typed, TypeOK, Counters
<1>9. staged' = {r} /\ r.seq > lastSeq
  BY <1>3, <1>6 DEF Typed, TypeOK, Counters
<1>10. Leads(e, r)'
  BY <1>3, <1>4, <1>5, <1>6, <1>8, <1>9 DEF Leads, Update
<1>11. Alone'
  BY <1>1, <1>2, <1>4, <1>5, <1>7 DEF Alone
<1> QED
  BY <1>4, <1>7, <1>10, <1>11 DEF Mirrored

LEMMA DeliverSingle ==
    ASSUME Typed, Single, Undisturbed, NEW e \in outbox, Deliver(e)
    PROVE  Alone' /\ Mirrored'
<1>1. Alone /\ Mirrored
  BY DEF Single
<1>2. /\ e \in Event /\ applied' = applied \cup {e.uid}
      /\ UNCHANGED <<base, staged, lastSeq, scanning, diffed, outbox>>
      /\ server' = Update(server, e.claims) \/ (e.uid \in applied /\ server' = server)
  BY DeliverFacts
<1>3. CdpEvents' = CdpEvents
  BY <1>2 DEF CdpEvents
<1>4. server \in Inventory /\ e.claims \in Claims
  BY <1>2 DEF Typed, TypeOK, Event
<1>5. /\ Update(Update(server, e.claims), e.claims) = Update(server, e.claims)
      /\ DOMAIN e.claims = {} => Update(server, e.claims) = server
  BY <1>4, UpdateAgain
<1>6. Alone'
  BY <1>1, <1>2, <1>3 DEF Alone
<1>7. CASE ~e.cdp
  <2>1. server' = server
    BY <1>1, <1>2, <1>5, <1>7 DEF Alone
  <2>2. \A f \in CdpEvents : f.uid \in applied' => f.uid \in applied
    BY <1>2, <1>7 DEF CdpEvents, Typed, Counters
  <2>3. \A f \in CdpEvents' : \E r \in Staged : Leads(f, r)'
    BY <1>1, <1>2, <1>3, <2>1, <2>2 DEF Mirrored, Leads, Update
  <2> QED
    BY <1>1, <1>2, <1>3, <1>6, <2>1, <2>3 DEF Mirrored
<1>8. CASE e.cdp
  <2>1. e \in CdpEvents
    BY <1>8 DEF CdpEvents
  <2>2. PICK r \in Staged : Leads(e, r)
    BY <1>1, <2>1 DEF Mirrored
  <2>3. server' = r.baseline /\ Update(r.baseline, e.claims) = r.baseline
    BY <1>2, <1>5, <2>2 DEF Leads
  <2>4. Update(server', e.claims) = r.baseline
    BY <2>3
  <2>5. Leads(e, r)'
    BY <1>2, <2>2, <2>3, <2>4 DEF Leads, Update
  <2>6. \A f \in CdpEvents' : f = e
    BY <1>1, <1>3, <2>1 DEF Alone
  <2>7. diffed' = {} /\ CdpEvents' # {}
    BY <1>1, <1>2, <1>3, <2>1 DEF Alone
  <2> QED
    BY <1>6, <2>5, <2>6, <2>7 DEF Mirrored
<1> QED
  BY <1>7, <1>8

LEMMA AckSingle ==
    ASSUME Typed, OwnIds, Single, Undisturbed, NEW a \in acks, AckPush(a)
    PROVE  Alone' /\ Mirrored'
<1>1. Alone /\ Mirrored
  BY DEF Single
<1>2. /\ UNCHANGED <<scanning, diffed, server, applied>>
      /\ outbox' = {e \in outbox : e.id # a.id}
  BY AckFacts
<1>3. CdpEvents' = {e \in CdpEvents : e.id # a.id}
  BY <1>2 DEF CdpEvents
<1>4. CASE \E e \in CdpEvents : e.id = a.id
  <2>1. PICK e \in CdpEvents : e.id = a.id
    BY <1>4
  <2>2. PICK r \in Staged : Leads(e, r)
    BY <1>1, <2>1 DEF Mirrored
  <2>3. e.uid = a.uid /\ e.uid \in applied
    BY <2>1 DEF Undisturbed, OwnIds, CdpEvents, Typed, Counters
  <2>4. /\ staged = {r} /\ r.id = a.id /\ r.seq > lastSeq /\ server = r.baseline
    BY <2>1, <2>2, <2>3 DEF Leads
  <2>5. \A q \in staged : q = r /\ q \in Staged
    BY <2>4
  <2>6. ~(r.seq <= lastSeq)
    BY <2>4 DEF Staged, Typed, TypeOK
  <2>7. base' = r.baseline
    BY <2>4, <2>5, <2>6, AckFacts
  <2>8. staged' = {}
    BY <2>4, <2>5, AckFacts
  <2>9. CdpEvents' = {} /\ scanning = {} /\ diffed = {}
    BY <1>1, <1>3, <2>1 DEF Alone
  <2>10. Alone'
    BY <1>1, <1>2, <2>9 DEF Alone
  <2> QED
    BY <1>2, <2>4, <2>7, <2>8, <2>9, <2>10 DEF Mirrored
<1>5. CASE \A e \in CdpEvents : e.id # a.id
  <2>1. CdpEvents' = CdpEvents
    BY <1>3, <1>5
  <2>2. \A r \in staged : r.id # a.id
    <3>1. CASE CdpEvents = {}
      BY <1>1, <3>1 DEF Mirrored
    <3>2. CASE CdpEvents # {}
      BY <1>1, <1>5, <3>2 DEF Mirrored, Leads
    <3> QED
      BY <3>1, <3>2
  <2>3. UNCHANGED <<base, staged, lastSeq>>
    BY <2>2, AckFacts
  <2>4. \A e \in outbox' : ~e.cdp => DOMAIN e.claims = {}
    BY <1>1, <1>2 DEF Alone
  <2> QED
    BY <1>2, <2>1, <2>3, <2>4, SameEvents
<1> QED
  BY <1>4, <1>5

LEMMA SingleStep == Typed /\ OwnIds /\ Single /\ [Next]_vars => Single'
<1> SUFFICES ASSUME Typed, OwnIds, Single, [Next]_vars, Undisturbed' PROVE Alone' /\ Mirrored'
  BY DEF Single
<1>0. Undisturbed /\ Alone /\ Mirrored
  BY EnqueueFacts, DeliverFacts, AckFacts
     DEF Undisturbed, Single, Next, vars, HostChanges, Collect, Diff, EnqueueTorn, EnqueueOther, Restart,
         LoseAck, GiveUp, Quarantine
<1>a. ASSUME UNCHANGED <<base, staged, lastSeq, outbox, server, applied>>,
             scanning' \in {{}, scanning}, diffed' \in {{}, diffed}
      PROVE  Alone' /\ Mirrored'
  BY <1>0, <1>a, SameEvents DEF CdpEvents, Alone
<1>1. CASE \E c \in world.certs, v \in Contents : HostChanges(c, v)
  BY <1>a, <1>1 DEF HostChanges, baseVars, scanVars, queueVars, serverVars
<1>2. CASE \E asked \in BOOLEAN, kind \in world.kinds, hidden \in SUBSET world.certs :
              Collect(asked, kind, hidden)
  BY <1>0, <1>2, CollectSingle
<1>3. CASE \E s \in scanning : Diff(s)
  BY <1>0, <1>3, DiffSingle
<1>4. CASE \E p \in diffed : Enqueue(p)
  BY <1>0, <1>4, EnqueueSingle
<1>5. CASE \E p \in diffed : EnqueueTorn(p)
  BY <1>0, <1>5 DEF Undisturbed, EnqueueTorn
<1>6. CASE EnqueueOther
  <2>1. UNCHANGED <<base, staged, lastSeq, server, applied, scanning, diffed>>
    BY <1>6 DEF EnqueueOther, baseVars, serverVars, scanVars
  <2>2. world' = world
    BY <1>6 DEF EnqueueOther
  <2>3. PICK e \in Event : outbox' = outbox \cup {e} /\ e.cdp = FALSE /\ e.claims = Restricted(Nothing, {})
    BY <1>6, <2>2, NoClaims, EventEntered DEF EnqueueOther
  <2>4. CdpEvents' = CdpEvents
    BY <2>3 DEF CdpEvents
  <2>5. \A f \in outbox' : ~f.cdp => DOMAIN f.claims = {}
    BY <1>0, <2>3, NoClaims DEF Alone
  <2> QED
    BY <1>0, <2>1, <2>4, <2>5, SameEvents
<1>7. CASE Restart
  BY <1>a, <1>7 DEF Restart, baseVars, queueVars, serverVars
<1>8. CASE \E e \in outbox : Deliver(e)
  BY <1>0, <1>8, DeliverSingle
<1>9. CASE \E a \in acks : LoseAck(a)
  BY <1>a, <1>9 DEF LoseAck, baseVars, scanVars, queueVars, serverVars
<1>10. CASE \E a \in acks : AckPush(a)
  BY <1>0, <1>10, AckSingle
<1>11. CASE \E e \in outbox : GiveUp(e)
  BY <1>0, <1>11 DEF Undisturbed, GiveUp
<1>12. CASE Quarantine
  BY <1>0, <1>12 DEF Undisturbed, Quarantine
<1>13. CASE UNCHANGED vars
  BY <1>a, <1>13 DEF vars, baseVars, scanVars, queueVars, serverVars
<1> QED
  BY <1>1, <1>2, <1>3, <1>4, <1>5, <1>6, <1>7, <1>8, <1>9, <1>10, <1>11, <1>12, <1>13 DEF Next

(* When nothing goes wrong and no scan starts before the one before it was *)
(* confirmed, the baseline is what the control plane has whenever no scan  *)
(* is on its way.                                                          *)
THEOREM BaselineMirrorsServer == Spec => [](world.overlap = 1 => BaselineIsServers)
<1>1. Single => (world.overlap = 1 => BaselineIsServers)
  <2> SUFFICES ASSUME Single, world.overlap = 1, Settled PROVE base = server
    BY DEF BaselineIsServers
  <2>1. Alone /\ Mirrored
    BY DEF Single, Settled, Undisturbed
  <2>2. CdpEvents = {}
    BY <2>1, NoneOutstanding DEF Settled
  <2> QED
    BY <2>1, <2>2 DEF Mirrored
<1> QED
  BY <1>1, InitSingle, SingleStep, TypedAlways, OwnAlways, PTL DEF Spec
==============================================================================
