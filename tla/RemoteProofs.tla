---------------------------- MODULE RemoteProofs ----------------------------
(***************************************************************************)
(* Proofs about RemoteSession, for every number of sessions, of peers and  *)
(* of offers.                                                              *)
(***************************************************************************)
EXTENDS RemoteSession, FiniteSetTheorems, TLAPS

Asking == [Offers -> 0 .. MaxAsking]
Map == [Sessions -> Peers \cup {None}]
View == [Sessions -> {"none", "waiting", "answered", "closed"}]
Consents == SUBSET Sessions

BrowserTyped == offer \in [Sessions -> 0 .. MaxOffers] /\ view \in View
ManagerTyped ==
    sessions \in Map /\ granted \in Consents /\ started \in Consents /\ overdue \subseteq started
ScreensTyped ==
    screens \in Nat /\ helper \in BOOLEAN /\ ending \in BOOLEAN /\ stray \in BOOLEAN

LEMMA WorldTyped ==
    ASSUME TypeOK
    PROVE  /\ world.does \in [Sessions -> {"screen", "shell"}]
           /\ world.offers \in [Sessions -> 0 .. MaxOffers]
           /\ world.prompts \in 0 .. MaxAsking
           /\ world.consent \in BOOLEAN
BY WorldsAssumption DEF TypeOK

LEMMA BoundsTyped ==
    /\ 0 \in 0 .. MaxOffers /\ 0 \in 0 .. MaxAsking
    /\ 1 .. MaxOffers \subseteq 0 .. MaxOffers
BY BoundsAssumption

LEMMA NobodyTyped == Nobody \in Peer
BY BoundsTyped DEF Nobody, Peer

LEMMA SentTyped ==
    ASSUME TypeOK, NEW s \in Sessions, NEW u, SendAnswer(s, u) \/ SendClose(s)
    PROVE  BrowserTyped'
BY DEF SendAnswer, SendClose, browserVars, BrowserTyped, View, TypeOK

LEMMA EndPrivSessionTyped ==
    ASSUME TypeOK, NEW on \in BOOLEAN, EndPrivSession(on)
    PROVE  ScreensTyped'
<1>1. CASE on
  <2>1. screens' \in Nat
    BY <1>1 DEF EndPrivSession, TypeOK
  <2> QED
    BY <1>1, <2>1 DEF EndPrivSession, ScreensTyped, TypeOK
<1>2. CASE ~on
  BY <1>2 DEF EndPrivSession, ScreensTyped, screenVars, TypeOK
<1> QED
  BY <1>1, <1>2

LEMMA WithoutTyped ==
    ASSUME TypeOK, NEW p \in Peers \cup {None}
    PROVE  Without(p) \in [Peers -> Peer]
BY NobodyTyped DEF Without, TypeOK

LEMMA OnTeardownTyped ==
    ASSUME TypeOK, NEW s \in Sessions, OnTeardown(s)
    PROVE  BrowserTyped' /\ ManagerTyped'
<1>1. BrowserTyped'
  BY SentTyped DEF OnTeardown
<1> QED
  BY <1>1 DEF OnTeardown, ManagerTyped, Map, Consents, TypeOK

LEMMA BuildTyped ==
    ASSUME TypeOK, NEW s \in Sessions, NEW u \in 1 .. MaxOffers,
           NEW peers \in [Peers -> Peer], NEW consents \in Consents,
           Build(s, u, peers, consents)
    PROVE  BrowserTyped' /\ ManagerTyped' /\ peer' \in [Peers -> Peer]
<1>1. BrowserTyped'
  BY SentTyped DEF Build
<1>2. Built(s, u) \in Peer /\ Stillborn(s) \in Peer
  BY BoundsTyped DEF Built, Stillborn, Peer
<1>3. peer' \in [Peers -> Peer]
  BY <1>2 DEF Build
<1>4. sessions' \in Map
  BY DEF Build, Map, TypeOK
<1>5. granted' \in Consents /\ started' \in Consents /\ overdue' \subseteq started'
  BY DEF Build, Consents, TypeOK
<1> QED
  BY <1>1, <1>3, <1>4, <1>5 DEF ManagerTyped

LEMMA OnOfferTyped ==
    ASSUME TypeOK, NEW s \in Sessions, NEW u \in 1 .. MaxOffers, OnOffer(s, u)
    PROVE  TypeOK'
<1> USE DEF fixedVars, managerVars
<1>1. sessions[s] \in Peers \cup {None} /\ Without(sessions[s]) \in [Peers -> Peer]
  BY WithoutTyped DEF TypeOK
<1>2. [sessions EXCEPT ![s] = None] \in Map
  BY DEF Map, TypeOK
<1>3. OldEnds(s) => ScreensTyped'
  <2>1. (Known(s) /\ On(sessions[s])) \in BOOLEAN
    BY DEF Known
  <2> QED
    BY <2>1, EndPrivSessionTyped DEF OldEnds
<1>4. CASE Retransmit(s, u)
  BY <1>4, SentTyped DEF Retransmit, BrowserTyped, View, screenVars, TypeOK
<1>5. CASE RestartRefused(s, u)
  BY <1>1, <1>2, <1>5, SentTyped
  DEF RestartRefused, BrowserTyped, View, Map, screenVars, TypeOK
<1>6. CASE OfferRefused(s, u)
  BY <1>1, <1>2, <1>3, <1>6, SentTyped
  DEF OfferRefused, BrowserTyped, View, Map, ScreensTyped, TypeOK
<1>7. CASE Asks(s, u)
  <2>1. <<s, u>> \in Offers /\ asking[<<s, u>>] \in 0 .. MaxAsking /\ world.prompts \in 0 .. MaxAsking
    BY WorldTyped DEF Offers, TypeOK
  <2>2. asking[<<s, u>>] + 1 \in 0 .. MaxAsking
    BY <1>7, <2>1, BoundsAssumption DEF Asks
  <2>3. asking' \in Asking
    BY <1>7, <2>1, <2>2 DEF Asks, Asking, TypeOK
  <2> QED
    BY <1>1, <1>2, <1>3, <1>7, <2>3 DEF Asks, Asking, browserVars, Map, ScreensTyped, TypeOK
<1>8. CASE Accepts(s, u)
  <2>1. BrowserTyped' /\ ManagerTyped' /\ peer' \in [Peers -> Peer]
    BY <1>1, <1>8, BuildTyped DEF Accepts, Consents, TypeOK
  <2> QED
    BY <1>3, <1>8, <2>1
    DEF Accepts, BrowserTyped, ManagerTyped, View, Map, Consents, ScreensTyped, TypeOK
<1> QED
  BY <1>4, <1>5, <1>6, <1>7, <1>8 DEF OnOffer

LEMMA AnsweredTyped ==
    ASSUME TypeOK, NEW s \in Sessions, NEW u \in 1 .. MaxOffers, Answered(s, u)
    PROVE  TypeOK'
<1> USE DEF fixedVars, managerVars, screenVars
<1>1. asking' \in Asking
  <2>1. <<s, u>> \in Offers /\ asking[<<s, u>>] \in 0 .. MaxAsking /\ asking[<<s, u>>] > 0
    BY DEF Answered, Approved, Declined, Offers, TypeOK
  <2>2. asking[<<s, u>>] - 1 \in 0 .. MaxAsking
    BY <2>1, BoundsAssumption
  <2> QED
    BY <2>1, <2>2 DEF Answered, Approved, Declined, Asking, TypeOK
<1>2. CASE Approved(s, u)
  <2>1. BrowserTyped' /\ ManagerTyped' /\ peer' \in [Peers -> Peer]
    BY <1>2, BuildTyped DEF Approved, Consents, TypeOK
  <2> QED
    BY <1>1, <1>2, <2>1
    DEF Approved, Asking, BrowserTyped, ManagerTyped, View, Map, Consents, TypeOK
<1>3. CASE Declined(s, u)
  BY <1>1, <1>3, SentTyped DEF Declined, Asking, BrowserTyped, View, TypeOK
<1> QED
  BY <1>2, <1>3 DEF Answered

LEMMA PeerEventTyped ==
    ASSUME TypeOK, NEW p \in Peers, PeerEvent(p)
    PROVE  TypeOK'
<1> USE DEF fixedVars, managerVars, screenVars, browserVars
<1>1. peer[p] \in Peer /\ peer \in [Peers -> Peer]
  BY DEF TypeOK
<1>2. Alive(p) => Session(p) \in Sessions
  BY <1>1 DEF Alive, Session, Peer
<1>3. CASE ChannelOpens(p)
  <2>1. peer' = [peer EXCEPT ![p] = [@ EXCEPT !.conn = "up", !.work = "on"]]
    BY <1>1, <1>3 DEF ChannelOpens
  <2>2. [peer[p] EXCEPT !.conn = "up", !.work = "on"] \in Peer
    BY <1>1 DEF Peer
  <2>3. peer' \in [Peers -> Peer]
    BY <1>1, <2>1, <2>2
  <2>4. ScreensTyped'
    <3>1. screens + 1 \in Nat /\ screens \in Nat /\ ScreensTyped
      BY DEF ScreensTyped, TypeOK
    <3>2. screens' \in {screens + 1, screens} /\ UNCHANGED <<helper, ending, stray>>
      BY <1>3 DEF ChannelOpens
    <3> QED
      BY <3>1, <3>2 DEF ScreensTyped
  <2> QED
    BY <1>3, <2>3, <2>4 DEF ChannelOpens, ScreensTyped, TypeOK
<1>7. CASE Captures(p)
  <2>1. peer' = [peer EXCEPT ![p] = [@ EXCEPT !.work = "shown"]]
    BY <1>1, <1>7 DEF Captures
  <2>2. [peer[p] EXCEPT !.work = "shown"] \in Peer
    BY <1>1 DEF Peer
  <2>3. peer' \in [Peers -> Peer]
    BY <1>1, <2>1, <2>2
  <2> QED
    BY <1>7, <2>3 DEF Captures, TypeOK
<1>4. CASE WorkEnds(p)
  <2>1. peer' \in [Peers -> Peer]
    BY <1>1, <1>4 DEF WorkEnds, Peer
  <2>2. ScreensTyped'
    BY <1>4, EndPrivSessionTyped DEF WorkEnds, On
  <2> QED
    BY <1>4, <2>1, <2>2 DEF WorkEnds, ScreensTyped, TypeOK
<1>5. CASE WorkTornDown(p) \/ ConnectionEnds(p) \/ HardTimerFires(p)
  <2>1. peer' \in [Peers -> Peer]
    <3>1. /\ [peer[p] EXCEPT !.work = "off"] \in Peer
          /\ [peer[p] EXCEPT !.conn = "down"] \in Peer
          /\ [peer[p] EXCEPT !.timer = FALSE] \in Peer
      BY <1>1 DEF Peer
    <3>2. \E new \in Peer : peer' = [peer EXCEPT ![p] = new]
      BY <1>1, <1>5, <3>1 DEF WorkTornDown, ConnectionEnds, HardTimerFires
    <3> QED
      BY <1>1, <3>2
  <2>2. OnTeardown(Session(p)) /\ UNCHANGED <<fixedVars, asking, screenVars, said>>
    BY <1>5 DEF WorkTornDown, ConnectionEnds, HardTimerFires
  <2>3. BrowserTyped' /\ ManagerTyped'
    BY <1>2, <1>5, <2>2, OnTeardownTyped DEF WorkTornDown, ConnectionEnds, HardTimerFires
  <2> QED
    BY <2>1, <2>2, <2>3 DEF BrowserTyped, ManagerTyped, View, Map, Consents, TypeOK
<1>6. CASE Collected(p)
  BY <1>1, <1>6, NobodyTyped DEF Collected, TypeOK
<1> QED
  BY <1>3, <1>4, <1>5, <1>6, <1>7 DEF PeerEvent

LEMMA SessionEventTyped ==
    ASSUME TypeOK, NEW s \in Sessions,
           OnClose(s) \/ CapPasses(s) \/ Opens(s) \/ Restarts(s) \/ OperatorCloses(s)
    PROVE  TypeOK'
<1> USE DEF fixedVars, managerVars, screenVars, browserVars
<1>1. CASE OnClose(s)
  <2>1. peer' \in [Peers -> Peer] /\ (Known(s) /\ On(sessions[s])) \in BOOLEAN
    BY <1>1, WithoutTyped DEF OnClose, Known, TypeOK
  <2>2. ScreensTyped'
    BY <1>1, <2>1, EndPrivSessionTyped DEF OnClose, OldEnds
  <2>3. ManagerTyped'
    BY <1>1 DEF OnClose, ManagerTyped, Map, Consents, TypeOK
  <2> QED
    BY <1>1, <2>1, <2>2, <2>3 DEF OnClose, ManagerTyped, Map, Consents, ScreensTyped, TypeOK
<1>2. CASE CapPasses(s)
  BY <1>2 DEF CapPasses, TypeOK
<1>3. CASE Opens(s)
  <2>1. 1 \in 0 .. MaxOffers
    BY <1>3, WorldTyped, BoundsAssumption DEF Opens
  <2> QED
    BY <1>3, <2>1 DEF Opens, TypeOK
<1>4. CASE Restarts(s)
  <2>1. offer[s] + 1 \in 0 .. MaxOffers
    BY <1>4, WorldTyped, BoundsAssumption DEF Restarts, TypeOK
  <2> QED
    BY <1>4, <2>1 DEF Restarts, TypeOK
<1>5. CASE OperatorCloses(s)
  BY <1>5 DEF OperatorCloses, TypeOK
<1> QED
  BY <1>1, <1>2, <1>3, <1>4, <1>5

LEMMA InitTyped == Init => TypeOK
<1> SUFFICES ASSUME Init PROVE TypeOK
  OBVIOUS
<1>1. peer \in [Peers -> Peer]
  BY NobodyTyped DEF Init
<1> QED
  BY <1>1, BoundsTyped DEF Init, TypeOK

LEMMA StepTyped == TypeOK /\ [Next]_vars => TypeOK'
<1> SUFFICES ASSUME TypeOK, [Next]_vars PROVE TypeOK'
  OBVIOUS
<1>1. CASE BecomesCalm
  BY <1>1 DEF BecomesCalm, browserVars, managerVars, screenVars, TypeOK
<1>2. CASE UNCHANGED vars
  BY <1>2 DEF vars, fixedVars, browserVars, managerVars, screenVars, TypeOK
<1>3. CASE EndArrives \/ EndLost
  BY <1>3 DEF EndArrives, EndLost, fixedVars, browserVars, managerVars, TypeOK
<1>4. CASE AgentDies
  BY <1>4, NobodyTyped, BoundsTyped DEF AgentDies, fixedVars, browserVars, TypeOK
<1> QED
  BY <1>1, <1>2, <1>3, <1>4, OnOfferTyped, AnsweredTyped, PeerEventTyped, SessionEventTyped DEF Next

(* Every state has the types TypeOK gives (Init, and each action of Next). *)
THEOREM TypeCorrect == Spec => []TypeOK
BY InitTyped, StepTyped, PTL DEF Spec

-----------------------------------------------------------------------------
(* Consent.                                                                *)

(* consentGranted holds only sessions the person has said yes to.          *)
Remembered == granted \subseteq said /\ ConsentFirst

LEMMA BuildRemembers ==
    ASSUME TypeOK, NEW s \in Sessions, NEW u \in 1 .. MaxOffers, NEW peers \in [Peers -> Peer],
           NEW consents \in Consents, Build(s, u, peers, consents),
           UNCHANGED fixedVars, said \subseteq said', consents \subseteq said',
           world.consent /\ IsScreen(s) => s \in said',
           \A p \in Peers :
               peers[p].of # None /\ world.consent /\ IsScreen(peers[p].of) => peers[p].of \in said'
    PROVE  Remembered'
<1>1. granted' \subseteq said'
  BY DEF Build
<1>2. ASSUME NEW p \in Peers, Alive(p)', world'.consent, IsScreen(Session(p))'
      PROVE  Session(p)' \in said'
  <2>1. \A t : IsScreen(t)' = IsScreen(t)
    BY DEF IsScreen, fixedVars
  <2>2. peer'[p].of = s \/ peer'[p] = peers[p]
    BY DEF Build, Built, Stillborn
  <2> QED
    BY <1>2, <2>1, <2>2 DEF Alive, Session, IsScreen, fixedVars
<1> QED
  BY <1>1, <1>2 DEF Remembered, ConsentFirst

(* Peers that go, or stay who they are, disturb nothing.                   *)
LEMMA StillRemembers ==
    ASSUME Remembered, UNCHANGED world, said \subseteq said', granted' \subseteq said',
           \A p \in Peers : peer'[p].of \in {None, peer[p].of}
    PROVE  Remembered'
BY DEF Remembered, ConsentFirst, Alive, Session, IsScreen

LEMMA WithoutIsNobody ==
    ASSUME TypeOK, NEW p \in Peers \cup {None}, NEW q \in Peers
    PROVE  Without(p)[q] \in {Nobody, peer[q]}
BY NoneAssumption DEF Without, TypeOK

LEMMA OnOfferRemembers ==
    ASSUME TypeOK, Remembered, NEW s \in Sessions, NEW u \in 1 .. MaxOffers, OnOffer(s, u)
    PROVE  Remembered'
<1> USE DEF fixedVars, managerVars
<1>1. sessions[s] \in Peers \cup {None} /\ Without(sessions[s]) \in [Peers -> Peer]
  BY WithoutTyped DEF TypeOK
<1>2. \A q \in Peers : Without(sessions[s])[q].of \in {None, peer[q].of}
  BY <1>1, WithoutIsNobody DEF Nobody
<1>3. granted \subseteq said
  BY DEF Remembered
<1>4. CASE Retransmit(s, u)
  BY <1>3, <1>4, StillRemembers DEF Retransmit
<1>5. CASE RestartRefused(s, u) \/ OfferRefused(s, u) \/ Asks(s, u)
  BY <1>2, <1>3, <1>5, StillRemembers DEF RestartRefused, OfferRefused, Asks
<1>6. CASE Accepts(s, u)
  <2>1. world.consent /\ IsScreen(s) => s \in said
    BY <1>3, <1>6 DEF Accepts, MustAsk
  <2>2. \A p \in Peers :
            Without(sessions[s])[p].of # None /\ world.consent /\ IsScreen(Without(sessions[s])[p].of)
            => Without(sessions[s])[p].of \in said
    BY <1>2 DEF Remembered, ConsentFirst, Alive, Session
  <2> QED
    BY <1>1, <1>3, <1>6, <2>1, <2>2, BuildRemembers DEF Accepts, Consents, TypeOK
<1> QED
  BY <1>4, <1>5, <1>6 DEF OnOffer

LEMMA StepRemembers == TypeOK /\ Remembered /\ [Next]_vars => Remembered'
<1> SUFFICES ASSUME TypeOK, Remembered, [Next]_vars PROVE Remembered'
  OBVIOUS
<1> USE DEF fixedVars, managerVars, screenVars, browserVars
<1>1. granted \subseteq said
  BY DEF Remembered
<1>2. ASSUME NEW s \in Sessions, NEW u \in 1 .. MaxOffers, Approved(s, u) PROVE Remembered'
  <2>1. \A p \in Peers :
            peer[p].of # None /\ world.consent /\ IsScreen(peer[p].of) => peer[p].of \in said'
    BY <1>2 DEF Approved, Remembered, ConsentFirst, Alive, Session
  <2> QED
    BY <1>1, <1>2, <2>1, BuildRemembers DEF Approved, Consents, TypeOK
<1>3. ASSUME NEW s \in Sessions, NEW u \in 1 .. MaxOffers, Declined(s, u) PROVE Remembered'
  BY <1>1, <1>3, StillRemembers DEF Declined
<1>4. ASSUME NEW s \in Sessions,
             OnClose(s) \/ CapPasses(s) \/ Opens(s) \/ Restarts(s) \/ OperatorCloses(s)
      PROVE  Remembered'
  <2>1. CASE OnClose(s)
    <3>1. \A q \in Peers : Without(sessions[s])[q].of \in {None, peer[q].of}
      BY WithoutIsNobody DEF Nobody, TypeOK
    <3> QED
      BY <1>1, <2>1, <3>1, StillRemembers DEF OnClose
  <2>2. CASE CapPasses(s) \/ Opens(s) \/ Restarts(s) \/ OperatorCloses(s)
    BY <1>1, <2>2, StillRemembers DEF CapPasses, Opens, Restarts, OperatorCloses
  <2> QED
    BY <1>4, <2>1, <2>2
<1>5. ASSUME NEW p \in Peers, PeerEvent(p) PROVE Remembered'
  <2>1. \A q \in Peers : peer'[q].of \in {None, peer[q].of}
    BY <1>5
    DEF PeerEvent, ChannelOpens, Captures, WorkEnds, WorkTornDown, ConnectionEnds, HardTimerFires,
        Collected, Nobody, Peer, TypeOK
  <2>2. granted' \subseteq granted /\ UNCHANGED <<world, said>>
    BY <1>5
    DEF PeerEvent, ChannelOpens, Captures, WorkEnds, WorkTornDown, ConnectionEnds, HardTimerFires,
        Collected, OnTeardown
  <2> QED
    BY <1>1, <2>1, <2>2, StillRemembers
<1>6. CASE BecomesCalm \/ EndArrives \/ EndLost \/ UNCHANGED vars
  BY <1>1, <1>6, StillRemembers DEF BecomesCalm, EndArrives, EndLost, vars
<1>7. CASE AgentDies
  BY <1>7, StillRemembers DEF AgentDies, Nobody
<1> QED
  BY <1>2, <1>3, <1>4, <1>5, <1>6, <1>7, OnOfferRemembers DEF Next, Answered

(* Under a policy that requires consent no peer for the screen exists of a *)
(* session the person has not said yes to, however many offers are sent,   *)
(* repeated and answered out of turn (onOffer, consentGranted).            *)
THEOREM ConsentComesFirst == Spec => []ConsentFirst
<1>1. Init => Remembered
  BY DEF Init, Remembered, ConsentFirst, Alive, Nobody
<1>2. Remembered => ConsentFirst
  BY DEF Remembered
<1> QED
  BY InitTyped, StepTyped, StepRemembers, <1>1, <1>2, PTL DEF Spec

-----------------------------------------------------------------------------
(* The capture helper.  liveScreenSessions is the number of the screens    *)
(* that are on, whichever peer each belongs to: only then does the last    *)
(* one to leave, and nobody else, call screen.end.  A session that is      *)
(* shown joined after the last such call, which has arrived or was lost.   *)

OnSet == {p \in Peers : On(p)}

Shown(p) == peer[p].work = "shown"

Counted ==
    /\ screens = Cardinality(OnSet)
    /\ helper => OnSet # {} \/ ending \/ stray
    /\ \A p \in Peers : Shown(p) => p \in OnSet /\ helper /\ ~ending

(* What the count rests on: a session's entry in the map is a peer of its  *)
(* own, and a peer works only once its channel is open.                    *)
MapIsTrue == \A s \in Sessions : sessions[s] # None => peer[sessions[s]].of = s
NewIsIdle == \A p \in Peers : peer[p].conn = "new" \/ peer[p].of = None => peer[p].work = "none"

Screened == MapIsTrue /\ NewIsIdle /\ Counted

LEMMA OnSetFinite ==
    /\ IsFiniteSet(OnSet) /\ Cardinality(OnSet) \in Nat
    /\ Cardinality(OnSet) = 0 <=> OnSet = {}
BY PeersAssumption, FS_Subset, FS_CardinalityType, FS_EmptySet DEF OnSet

(* Only the peer that is on and leaves takes itself off the count.         *)
LEMMA OneLeaves ==
    ASSUME TypeOK, Counted, NEW p \in Peers, On(p), EndPrivSession(TRUE), OnSet' = OnSet \ {p},
           \A q \in Peers : Shown(q)' => Shown(q) /\ q # p
    PROVE  Counted'
<1>1. p \in OnSet
  BY DEF OnSet
<1>2. Cardinality(OnSet \ {p}) = Cardinality(OnSet) - 1
  BY <1>1, OnSetFinite, FS_RemoveElement
<1>3. IsFiniteSet(OnSet \ {p}) /\ (Cardinality(OnSet \ {p}) = 0 <=> OnSet \ {p} = {})
  BY OnSetFinite, FS_Subset, FS_EmptySet
<1>4. Cardinality(OnSet) \in Nat /\ Cardinality(OnSet) # 0
  BY <1>1, OnSetFinite
<1>5. screens' = Cardinality(OnSet \ {p})
  BY <1>2, <1>4 DEF Counted, EndPrivSession
<1>6. UNCHANGED <<helper, stray>> /\ (ending' <=> ending \/ OnSet' = {})
  BY <1>3, <1>5 DEF EndPrivSession, TypeOK
<1>7. \A q \in Peers : Shown(q)' => q \in OnSet' /\ helper' /\ ~ending'
  BY <1>6 DEF Counted
<1> QED
  BY <1>5, <1>6, <1>7 DEF Counted

LEMMA OneJoins ==
    ASSUME Counted, NEW p \in Peers, ~On(p), screens' = screens + 1,
           UNCHANGED <<helper, ending, stray>>,
           OnSet' = OnSet \cup {p}, \A q \in Peers : Shown(q)' => Shown(q)
    PROVE  Counted'
<1>1. p \notin OnSet
  BY DEF OnSet
<1>2. Cardinality(OnSet \cup {p}) = Cardinality(OnSet) + 1
  BY <1>1, OnSetFinite, FS_AddElement
<1> QED
  BY <1>2 DEF Counted

LEMMA NobodyLeaves ==
    ASSUME Counted, UNCHANGED screenVars, OnSet' = OnSet,
           \A q \in Peers : Shown(q)' => Shown(q)
    PROVE  Counted'
BY DEF Counted, screenVars

(* A peer goes or stays, the others stay as they are.                      *)
LEMMA WithoutScreened ==
    ASSUME TypeOK, Screened, UNCHANGED world, NEW s \in Sessions,
           \A q \in Peers : /\ peer'[q].work = Without(sessions[s])[q].work
                            /\ peer'[q].work \in {"on", "shown"} => peer'[q].of = Without(sessions[s])[q].of,
           OldEnds(s)
    PROVE  Counted'
<1> DEFINE left == Without(sessions[s])
           Stays(q) == left[q].work \in {"on", "shown"} /\ world.does[left[q].of] = "screen"
<1>1. \A q \in Peers : On(q)' <=> Stays(q)
  <2> SUFFICES ASSUME NEW q \in Peers PROVE On(q)' <=> Stays(q)
    OBVIOUS
  <2>1. On(q)' <=> peer'[q].work \in {"on", "shown"} /\ world.does[peer'[q].of] = "screen"
    BY DEF On, IsScreen
  <2>2. /\ peer'[q].work = left[q].work
        /\ peer'[q].work \in {"on", "shown"} => peer'[q].of = left[q].of
    BY DEF left
  <2>3. CASE peer'[q].work \in {"on", "shown"}
    <3>1. world.does[peer'[q].of] = world.does[left[q].of]
      BY <2>2, <2>3
    <3> QED
      BY <2>1, <2>2, <2>3, <3>1
  <2>4. CASE peer'[q].work \notin {"on", "shown"}
    BY <2>1, <2>2, <2>4
  <2> QED
    BY <2>3, <2>4
<1>2. sessions[s] \in Peers \cup {None}
  BY DEF TypeOK
<1>3. CASE Known(s) /\ On(sessions[s])
  <2>1. sessions[s] \in Peers /\ EndPrivSession(TRUE)
    BY <1>2, <1>3 DEF OldEnds, Known
  <2>2. /\ Without(sessions[s])[sessions[s]] = Nobody
        /\ \A q \in Peers \ {sessions[s]} : Without(sessions[s])[q] = peer[q]
    BY <2>1, NoneAssumption DEF Without, TypeOK
  <2>3. \A q \in Peers : On(q)' <=> On(q) /\ q # sessions[s]
    BY <1>1, <2>1, <2>2 DEF On, Nobody, IsScreen
  <2>4. OnSet' = OnSet \ {sessions[s]}
    BY <2>3 DEF OnSet
  <2>5. \A q \in Peers : Shown(q)' => Shown(q) /\ q # sessions[s]
    BY <2>1, <2>2 DEF Shown, Nobody
  <2>6. Counted /\ On(sessions[s])
    BY <1>3 DEF Screened
  <2> QED
    BY <2>1, <2>4, <2>5, <2>6, OneLeaves
<1>4. CASE ~(Known(s) /\ On(sessions[s]))
  <2>1. UNCHANGED screenVars
    BY <1>4 DEF OldEnds, EndPrivSession
  <2>2. \A q \in Peers : On(q)' <=> On(q)
    <3>1. CASE sessions[s] = None
      BY <1>1, <3>1 DEF Without, On, IsScreen
    <3>2. CASE sessions[s] # None
      <4>1. /\ Without(sessions[s])[sessions[s]] = Nobody
            /\ \A q \in Peers \ {sessions[s]} : Without(sessions[s])[q] = peer[q]
        BY <1>2, <3>2 DEF Without, TypeOK
      <4>2. ~On(sessions[s])
        BY <1>4, <3>2 DEF Known
      <4> QED
        BY <1>1, <1>2, <4>1, <4>2 DEF On, Nobody, IsScreen
    <3> QED
      BY <3>1, <3>2
  <2>3. OnSet' = OnSet
    BY <2>2 DEF OnSet
  <2>4. \A q \in Peers : Shown(q)' => Shown(q)
    BY <1>2, WithoutIsNobody DEF Shown, Nobody
  <2> QED
    BY <2>1, <2>3, <2>4, NobodyLeaves DEF Screened
<1> QED
  BY <1>3, <1>4

(* Entries go, or stay what they were.                                     *)
LEMMA MapStaysTrue ==
    ASSUME MapIsTrue,
           \A t \in Sessions : sessions'[t] # None =>
               /\ sessions'[t] = sessions[t]
               /\ peer'[sessions[t]].of = peer[sessions[t]].of
    PROVE  MapIsTrue'
BY DEF MapIsTrue

(* The peer of one session is that of no other.                            *)
LEMMA OthersStay ==
    ASSUME TypeOK, MapIsTrue, NEW s \in Sessions, NEW t \in Sessions \ {s}, sessions[t] # None
    PROVE  Without(sessions[s])[sessions[t]] = peer[sessions[t]]
BY DEF MapIsTrue, Without, TypeOK

LEMMA BuildScreened ==
    ASSUME TypeOK, Screened, NEW s \in Sessions, NEW u \in 1 .. MaxOffers,
           NEW peers \in [Peers -> Peer], NEW consents \in Consents,
           Build(s, u, peers, consents), UNCHANGED fixedVars,
           peers = peer \/ peers = Without(sessions[s])
    PROVE  /\ MapIsTrue' /\ NewIsIdle'
           /\ \A q \in Peers : /\ peer'[q].work = peers[q].work
                               /\ peer'[q].work \in {"on", "shown"} => peer'[q].of = peers[q].of
<1>1. /\ \A q \in Peers : peers[q] \in {Nobody, peer[q]}
      /\ \A t \in Sessions \ {s} :
             sessions[t] # None => peers[sessions[t]] = peer[sessions[t]]
  BY WithoutIsNobody, OthersStay DEF Screened, TypeOK
<1>2. /\ sessions \in [Sessions -> Peers \cup {None}]
      /\ peer \in [Peers -> Peer]
      /\ None \notin Sessions \cup Peers
  BY NoneAssumption DEF TypeOK
<1>3. \A q \in Peers : peers[q].conn = "new" \/ peers[q].of = None => peers[q].work = "none"
  BY <1>1 DEF Screened, NewIsIdle, Nobody
<1>4. CASE peer' = peers /\ sessions' = IF peers = peer THEN sessions ELSE [sessions EXCEPT ![s] = None]
  <2>1. MapIsTrue'
    BY <1>1, <1>2, <1>4 DEF Screened, MapIsTrue
  <2> QED
    BY <1>3, <1>4, <2>1 DEF NewIsIdle
<1>5. ASSUME NEW p \in Peers, peers[p].of = None,
             \/ /\ peer' = [peers EXCEPT ![p] = Built(s, u)]
                /\ sessions' = [sessions EXCEPT ![s] = p]
             \/ /\ peer' = [peers EXCEPT ![p] = Stillborn(s)]
                /\ sessions' = [sessions EXCEPT ![s] = None]
      PROVE  /\ MapIsTrue' /\ NewIsIdle'
             /\ \A q \in Peers : /\ peer'[q].work = peers[q].work
                                 /\ peer'[q].work \in {"on", "shown"} => peer'[q].of = peers[q].of
  <2>1. peer'[p] \in {Built(s, u), Stillborn(s)} /\ \A q \in Peers \ {p} : peer'[q] = peers[q]
    BY <1>5
  <2>2. \A t \in Sessions \ {s} : sessions[t] # p
    BY <1>1, <1>2, <1>5 DEF Screened, MapIsTrue
  <2>3. MapIsTrue'
    <3> SUFFICES ASSUME NEW t \in Sessions, sessions'[t] # None
                 PROVE  peer'[sessions'[t]].of = t
      BY DEF MapIsTrue
    <3>1. CASE t = s
      BY <1>2, <1>5, <3>1 DEF Built
    <3>2. CASE t # s
      <4>1. sessions'[t] = sessions[t] /\ sessions[t] \in Peers \ {p}
        BY <1>2, <1>5, <2>2, <3>2
      <4> QED
        BY <1>1, <2>1, <3>2, <4>1 DEF Screened, MapIsTrue
    <3> QED
      BY <3>1, <3>2
  <2>4. /\ NewIsIdle'
        /\ \A q \in Peers : /\ peer'[q].work = peers[q].work
                            /\ peer'[q].work \in {"on", "shown"} => peer'[q].of = peers[q].of
    BY <1>3, <1>5, <2>1 DEF NewIsIdle, Built, Stillborn
  <2> QED
    BY <2>3, <2>4
<1> QED
  BY <1>4, <1>5 DEF Build

LEMMA OnOfferScreened ==
    ASSUME TypeOK, Screened, NEW s \in Sessions, NEW u \in 1 .. MaxOffers, OnOffer(s, u)
    PROVE  Screened'
<1> USE DEF fixedVars, managerVars
<1>1. /\ sessions \in [Sessions -> Peers \cup {None}] /\ None \notin Sessions \cup Peers
      /\ peer \in [Peers -> Peer]
      /\ Without(sessions[s]) \in [Peers -> Peer]
  BY WithoutTyped, NoneAssumption DEF TypeOK
<1>2. ASSUME sessions' = [sessions EXCEPT ![s] = None], peer' = Without(sessions[s])
      PROVE  MapIsTrue' /\ NewIsIdle'
  <2>1. MapIsTrue'
    BY <1>1, <1>2, OthersStay DEF Screened, MapIsTrue
  <2>2. NewIsIdle'
    BY <1>1, <1>2, WithoutIsNobody DEF Screened, NewIsIdle, Nobody
  <2> QED
    BY <2>1, <2>2
<1>3. CASE Retransmit(s, u)
  <2>1. OnSet' = OnSet /\ \A q \in Peers : Shown(q)' => Shown(q)
    BY <1>3 DEF Retransmit, OnSet, On, IsScreen, Shown
  <2> QED
    BY <1>3, <2>1, NobodyLeaves DEF Retransmit, Screened, MapIsTrue, NewIsIdle
<1>4. CASE RestartRefused(s, u)
  <2>1. ~On(sessions[s])
    BY <1>4 DEF RestartRefused, Known, On, Screened, MapIsTrue
  <2>2. OldEnds(s)
    BY <1>4, <2>1 DEF RestartRefused, OldEnds, EndPrivSession
  <2>3. Counted'
    BY <1>4, <2>2, WithoutScreened DEF RestartRefused
  <2> QED
    BY <1>2, <1>4, <2>3 DEF RestartRefused, Screened
<1>5. CASE OfferRefused(s, u) \/ Asks(s, u)
  <2>1. Counted'
    BY <1>5, WithoutScreened DEF OfferRefused, Asks
  <2> QED
    BY <1>2, <1>5, <2>1 DEF OfferRefused, Asks, Screened
<1>6. CASE Accepts(s, u)
  <2>1. /\ MapIsTrue' /\ NewIsIdle'
        /\ \A q \in Peers :
              /\ peer'[q].work = Without(sessions[s])[q].work
              /\ peer'[q].work \in {"on", "shown"} => peer'[q].of = Without(sessions[s])[q].of
    BY <1>1, <1>6, BuildScreened DEF Accepts, Consents, TypeOK
  <2>2. Counted'
    BY <1>6, <2>1, WithoutScreened DEF Accepts
  <2> QED
    BY <2>1, <2>2 DEF Screened
<1> QED
  BY <1>3, <1>4, <1>5, <1>6 DEF OnOffer

LEMMA PeerEventScreened ==
    ASSUME TypeOK, Screened, NEW p \in Peers, PeerEvent(p)
    PROVE  Screened'
<1> USE DEF fixedVars, managerVars
<1>1. /\ sessions \in [Sessions -> Peers \cup {None}] /\ None \notin Sessions \cup Peers
      /\ peer \in [Peers -> Peer] /\ peer[p] \in Peer
  BY NoneAssumption DEF TypeOK
<1>2. CASE ChannelOpens(p)
  <2>1. peer' = [peer EXCEPT ![p] = [@ EXCEPT !.conn = "up", !.work = "on"]]
    BY <1>1, <1>2 DEF ChannelOpens
  <2>2. MapIsTrue' /\ NewIsIdle'
    BY <1>1, <1>2, <2>1 DEF ChannelOpens, Alive, Screened, MapIsTrue, NewIsIdle, Peer
  <2>3. ~On(p)
    BY <1>2 DEF ChannelOpens, On, Screened, NewIsIdle
  <2>4. \A q \in Peers : On(q)' <=> On(q) \/ (q = p /\ IsScreen(peer[p].of))
    BY <1>1, <1>2, <2>1, <2>3 DEF ChannelOpens, On, IsScreen, Peer
  <2>5. \A q \in Peers : Shown(q)' => Shown(q)
    BY <1>1, <2>1 DEF Shown, Peer
  <2>6. CASE IsScreen(Session(p))
    <3>1. OnSet' = OnSet \cup {p} /\ screens' = screens + 1 /\ UNCHANGED <<helper, ending, stray>>
      BY <1>2, <2>4, <2>6 DEF ChannelOpens, OnSet, Session
    <3> QED
      BY <2>2, <2>3, <2>5, <3>1, OneJoins DEF Screened
  <2>7. CASE ~IsScreen(Session(p))
    <3>1. OnSet' = OnSet /\ UNCHANGED screenVars
      BY <1>2, <2>4, <2>7 DEF ChannelOpens, OnSet, Session, screenVars
    <3> QED
      BY <2>2, <2>5, <3>1, NobodyLeaves DEF Screened
  <2> QED
    BY <2>6, <2>7
<1>3. CASE WorkEnds(p)
  <2>1. peer' = [peer EXCEPT ![p] = [@ EXCEPT !.work = "leaving"]]
    BY <1>1, <1>3 DEF WorkEnds
  <2>2. MapIsTrue' /\ NewIsIdle'
    BY <1>1, <1>3, <2>1 DEF WorkEnds, Screened, MapIsTrue, NewIsIdle, Peer
  <2>3. \A q \in Peers : On(q)' <=> On(q) /\ q # p
    BY <1>1, <1>3, <2>1 DEF WorkEnds, On, IsScreen, Peer
  <2>4. OnSet' = OnSet \ {p}
    BY <2>3 DEF OnSet
  <2>5. \A q \in Peers : Shown(q)' => Shown(q) /\ q # p
    BY <1>1, <2>1 DEF Shown, Peer
  <2>6. CASE On(p)
    BY <1>3, <2>2, <2>4, <2>5, <2>6, OneLeaves DEF WorkEnds, Screened
  <2>7. CASE ~On(p)
    <3>1. OnSet' = OnSet /\ UNCHANGED screenVars
      BY <1>3, <2>4, <2>7 DEF WorkEnds, EndPrivSession, OnSet
    <3> QED
      BY <2>2, <2>5, <3>1, NobodyLeaves DEF Screened
  <2> QED
    BY <2>6, <2>7
<1>4. CASE WorkTornDown(p) \/ ConnectionEnds(p) \/ HardTimerFires(p)
  <2>1. \E new \in Peer :
            /\ peer' = [peer EXCEPT ![p] = new] /\ new.of = peer[p].of
            /\ new.conn = "new" => peer[p].conn = "new"
            /\ new.work = peer[p].work \/ (new.work = "off" /\ peer[p].work = "leaving")
    <3>1. /\ [peer[p] EXCEPT !.work = "off"] \in Peer
          /\ [peer[p] EXCEPT !.conn = "down"] \in Peer
          /\ [peer[p] EXCEPT !.timer = FALSE] \in Peer
      BY <1>1 DEF Peer
    <3>2. CASE WorkTornDown(p)
      BY <1>1, <3>1, <3>2 DEF WorkTornDown, Peer
    <3>3. CASE ConnectionEnds(p)
      BY <1>1, <3>1, <3>3 DEF ConnectionEnds, Peer
    <3>4. CASE HardTimerFires(p)
      BY <1>1, <3>1, <3>4 DEF HardTimerFires, Peer
    <3> QED
      BY <1>4, <3>2, <3>3, <3>4
  <2>2. /\ UNCHANGED <<world, screenVars>> /\ Alive(p)
        /\ \E s \in Sessions \cup {None} : sessions' = [sessions EXCEPT ![s] = None]
    BY <1>1, <1>4 DEF WorkTornDown, ConnectionEnds, HardTimerFires, OnTeardown, Session, Peer
  <2>3. \A q \in Peers : On(q)' <=> On(q)
    BY <1>1, <2>1, <2>2 DEF On, IsScreen
  <2>4. OnSet' = OnSet /\ \A q \in Peers : Shown(q)' => Shown(q)
    BY <1>1, <2>1, <2>3 DEF OnSet, Shown
  <2>5. MapIsTrue' /\ NewIsIdle'
    BY <1>1, <2>1, <2>2 DEF Screened, MapIsTrue, NewIsIdle, Alive
  <2> QED
    BY <2>2, <2>4, <2>5, NobodyLeaves DEF Screened
<1>5. CASE Collected(p)
  <2>1. \A q \in Peers : On(q)' <=> On(q)
    BY <1>1, <1>5 DEF Collected, On, IsScreen, Nobody
  <2>2. OnSet' = OnSet /\ \A q \in Peers : Shown(q)' => Shown(q)
    BY <1>1, <1>5, <2>1 DEF Collected, OnSet, Shown, Nobody
  <2>3. MapIsTrue' /\ NewIsIdle'
    BY <1>1, <1>5 DEF Collected, Screened, MapIsTrue, NewIsIdle, Nobody
  <2> QED
    BY <1>5, <2>2, <2>3, NobodyLeaves DEF Collected, Screened
<1>6. CASE Captures(p)
  <2>1. peer' = [peer EXCEPT ![p] = [@ EXCEPT !.work = "shown"]]
    BY <1>1, <1>6 DEF Captures
  <2>2. MapIsTrue' /\ NewIsIdle'
    BY <1>1, <1>6, <2>1 DEF Captures, Screened, MapIsTrue, NewIsIdle, Peer
  <2>3. On(p) /\ p \in OnSet
    BY <1>6 DEF Captures, On, OnSet, Session
  <2>4. \A q \in Peers : On(q)' <=> On(q)
    BY <1>1, <1>6, <2>1 DEF Captures, On, IsScreen, Peer
  <2>5. OnSet' = OnSet
    BY <2>4 DEF OnSet
  <2>6. \A q \in Peers : Shown(q)' => Shown(q) \/ q = p
    BY <1>1, <2>1 DEF Shown
  <2>7. helper' = TRUE /\ ending = FALSE /\ UNCHANGED <<screens, ending, stray>>
    BY <1>6 DEF Captures, TypeOK
  <2>8. Counted'
    BY <2>3, <2>5, <2>6, <2>7 DEF Counted, Screened
  <2> QED
    BY <2>2, <2>8 DEF Screened
<1> QED
  BY <1>2, <1>3, <1>4, <1>5, <1>6 DEF PeerEvent

LEMMA StepScreened == TypeOK /\ Screened /\ [Next]_vars => Screened'
<1> SUFFICES ASSUME TypeOK, Screened, [Next]_vars PROVE Screened'
  OBVIOUS
<1> USE DEF fixedVars, managerVars, browserVars
<1>1. ASSUME NEW s \in Sessions, NEW u \in 1 .. MaxOffers, Approved(s, u) PROVE Screened'
  <2>1. /\ peer \in [Peers -> Peer] /\ granted \cup {s} \in Consents
        /\ Build(s, u, peer, granted \cup {s}) /\ UNCHANGED <<world, calm, screenVars>>
    BY <1>1 DEF Approved, Consents, TypeOK
  <2>2. /\ MapIsTrue' /\ NewIsIdle'
        /\ \A q \in Peers : /\ peer'[q].work = peer[q].work
                            /\ peer'[q].work \in {"on", "shown"} => peer'[q].of = peer[q].of
    BY <2>1, BuildScreened
  <2>3. \A q \in Peers : On(q)' <=> On(q)
    BY <2>1, <2>2 DEF On, IsScreen
  <2>4. OnSet' = OnSet /\ \A q \in Peers : Shown(q)' => Shown(q)
    BY <2>2, <2>3 DEF OnSet, Shown
  <2> QED
    BY <2>1, <2>2, <2>4, NobodyLeaves DEF Screened
<1>2. ASSUME NEW s \in Sessions, OnClose(s) PROVE Screened'
  <2>1. Counted'
    BY <1>2, WithoutScreened DEF OnClose
  <2>2. MapIsTrue' /\ NewIsIdle'
    BY <1>2, OthersStay, WithoutIsNobody DEF OnClose, Screened, MapIsTrue, NewIsIdle, Nobody, TypeOK
  <2> QED
    BY <2>1, <2>2 DEF Screened
<1>3. ASSUME UNCHANGED <<world, sessions, peer, screenVars>> PROVE Screened'
  <2>1. OnSet' = OnSet /\ \A q \in Peers : Shown(q)' => Shown(q)
    BY <1>3 DEF OnSet, On, IsScreen, Shown
  <2> QED
    BY <1>3, <2>1, NobodyLeaves DEF Screened, MapIsTrue, NewIsIdle
<1>4. ASSUME NEW s \in Sessions,
             \/ \E u \in 1 .. MaxOffers : Declined(s, u)
             \/ CapPasses(s) \/ Opens(s) \/ Restarts(s) \/ OperatorCloses(s)
      PROVE  Screened'
  BY <1>3, <1>4 DEF Declined, CapPasses, Opens, Restarts, OperatorCloses
<1>5. CASE BecomesCalm \/ UNCHANGED vars
  BY <1>3, <1>5 DEF BecomesCalm, vars
<1>6. CASE EndArrives \/ EndLost
  <2>1. /\ ending /\ ~ending' /\ UNCHANGED <<world, sessions, peer, screens>>
        /\ helper' => helper /\ stray'
    BY <1>6 DEF EndArrives, EndLost, TypeOK
  <2>2. OnSet' = OnSet /\ \A q \in Peers : ~Shown(q)'
    BY <2>1 DEF OnSet, On, IsScreen, Shown, Screened, Counted
  <2> QED
    BY <2>1, <2>2 DEF Screened, Counted, MapIsTrue, NewIsIdle
<1>7. CASE AgentDies
  <2>1. /\ peer' = [q \in Peers |-> Nobody] /\ sessions' = [s \in Sessions |-> None]
        /\ screens' = 0 /\ helper' = helper /\ (helper => stray')
    BY <1>7 DEF AgentDies
  <2>2. OnSet' = {} /\ \A q \in Peers : ~Shown(q)'
    BY <2>1 DEF OnSet, On, Shown, Nobody
  <2>3. Counted'
    BY <2>1, <2>2, FS_EmptySet DEF Counted
  <2>4. MapIsTrue' /\ NewIsIdle'
    BY <2>1 DEF MapIsTrue, NewIsIdle, Nobody
  <2> QED
    BY <2>3, <2>4 DEF Screened
<1> QED
  BY <1>1, <1>2, <1>4, <1>5, <1>6, <1>7, OnOfferScreened, PeerEventScreened DEF Next, Answered

(* For every number of sessions and peers endPrivSession counts those that *)
(* are on, so nobody's leaving ends the capture helper under a session     *)
(* that is shown, and the helper outlives them all only while a            *)
(* screen.end is under way, or after one was lost or the agent died.       *)
THEOREM HelperCounts == Spec => []HelperFollowsScreens
<1>1. Init => Screened
  <2> SUFFICES ASSUME Init PROVE Screened
    OBVIOUS
  <2>1. OnSet = {} /\ \A q \in Peers : ~Shown(q)
    BY DEF Init, OnSet, On, Shown, Nobody
  <2> QED
    BY <2>1, FS_EmptySet DEF Init, Screened, MapIsTrue, NewIsIdle, Counted, Nobody
<1>2. TypeOK /\ Screened => HelperFollowsScreens
  <2> SUFFICES ASSUME TypeOK, Screened PROVE HelperFollowsScreens
    OBVIOUS
  <2>1. \A p \in Peers : On(p) => Alive(p)
    BY DEF On, Alive, Screened, NewIsIdle
  <2> QED
    BY <2>1 DEF Screened, Counted, OnSet, HelperFollowsScreens, Shown
<1> QED
  BY InitTyped, StepTyped, StepScreened, <1>1, <1>2, PTL DEF Spec

=============================================================================
