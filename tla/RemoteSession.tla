---------------------------- MODULE RemoteSession ----------------------------
(***************************************************************************)
(* Remote sessions on the device: offers, the person's consent, the peers  *)
(* that carry a session, and what runs on their data channels.             *)
(*   src/src/plugins/rcp/session-manager.ts, peer-session.ts,              *)
(*   screen-session.ts, consent-prompt.ts                                  *)
(*   src/privsvc/windows/.../Ipc/SessionScreenCapture.cs (the helper)      *)
(*                                                                         *)
(* The only await of an offer that others get in between is that for the   *)
(* person's answer: an offer that is sent again meanwhile is handled       *)
(* beside it.  A peer that is disposed of is forgotten at once; one that   *)
(* is only dropped from the map lives on with its timer and its channel.   *)
(***************************************************************************)
EXTENDS Integers, FiniteSets

CONSTANTS Sessions, Peers, None,
          Worlds,           \* what each session is, the offers of its browser,
                            \* the prompts for one of them at a time,
                            \* MAX_CONCURRENT_LOCAL_PEERS, whether the policy
                            \* requires consent, and whether the agent may die
                            \* and its calls of screen.end be lost
          MaxOffers,        \* Bound: the ufrags of a session
          MaxAsking         \* Bound: prompts for one offer at a time

ASSUME NoneAssumption == None \notin Sessions \cup Peers
ASSUME WorldsAssumption ==
    Worlds \subseteq [does : [Sessions -> {"screen", "shell"}],
                      offers : [Sessions -> 0 .. MaxOffers],
                      prompts : 0 .. MaxAsking, room : Nat,
                      consent : BOOLEAN, faults : BOOLEAN]
ASSUME BoundsAssumption == MaxOffers \in Nat /\ MaxAsking \in Nat
ASSUME PeersAssumption == IsFiniteSet(Peers)

VARIABLES world,        \* the capabilities ("shell" stands for "file" too)
          offer, view,  \* the browser's last ufrag, and how its session stands
          asking,       \* prompts the person has not answered
          sessions,     \* the manager's map
          granted,      \* consentGranted
          started,      \* the keys of sessionStartedAt
          overdue,      \* those whose hard cap has passed
          peer,         \* the PeerSessions that are not disposed of
          screens,      \* liveScreenSessions
          helper,       \* the capture helper of PrivSvc runs
          ending,       \* a call of screen.end is on its way to PrivSvc
          stray,        \* history: the agent died, or a screen.end was lost,
                        \* with the helper running, and none got through since
          said,         \* history: the person said yes to this session
          calm          \* history: nothing is lost and nobody dies from here on

browserVars == <<offer, view>>
managerVars == <<sessions, granted, started, overdue>>
screenVars == <<screens, helper, ending, stray>>
fixedVars == <<world, calm>>
vars == <<fixedVars, browserVars, asking, managerVars, peer, screenVars, said>>

Offers == Sessions \X (1 .. MaxOffers)

Peer == [of : Sessions \cup {None}, ufrag : 0 .. MaxOffers,
         conn : {"new", "up", "down"},
         work : {"none", "on", "shown", "leaving", "off"}, timer : BOOLEAN]

Nobody == [of |-> None, ufrag |-> 0, conn |-> "down", work |-> "none", timer |-> FALSE]

TypeOK ==
    /\ world \in Worlds /\ calm \in BOOLEAN
    /\ offer \in [Sessions -> 0 .. MaxOffers]
    /\ view \in [Sessions -> {"none", "waiting", "answered", "closed"}]
    /\ asking \in [Offers -> 0 .. MaxAsking]
    /\ sessions \in [Sessions -> Peers \cup {None}]
    /\ granted \subseteq Sessions /\ said \subseteq Sessions
    /\ started \subseteq Sessions /\ overdue \subseteq started
    /\ peer \in [Peers -> Peer]
    /\ screens \in Nat
    /\ helper \in BOOLEAN /\ ending \in BOOLEAN /\ stray \in BOOLEAN

Init ==
    /\ world \in Worlds /\ calm = FALSE
    /\ offer = [s \in Sessions |-> 0] /\ view = [s \in Sessions |-> "none"]
    /\ asking = [o \in Offers |-> 0]
    /\ sessions = [s \in Sessions |-> None]
    /\ granted = {} /\ started = {} /\ overdue = {} /\ said = {}
    /\ peer = [p \in Peers |-> Nobody]
    /\ screens = 0 /\ helper = FALSE /\ ending = FALSE /\ stray = FALSE

-----------------------------------------------------------------------------
(* What the manager sends, and the end of a peer.                          *)

(* sendAnswer: it is lost, or it is what the browser waits for, or not.    *)
SendAnswer(s, u) ==
    LET awaited == view[s] = "waiting" /\ offer[s] = u IN
    \/ awaited /\ view' = [view EXCEPT ![s] = "answered"] /\ UNCHANGED offer
    \/ ~(awaited /\ calm) /\ UNCHANGED browserVars

(* sendClose, sendError.                                                   *)
SendClose(s) ==
    LET open == view[s] \in {"waiting", "answered"} IN
    \/ open /\ view' = [view EXCEPT ![s] = "closed"] /\ UNCHANGED offer
    \/ ~(open /\ calm) /\ UNCHANGED browserVars

IsScreen(s) == world.does[s] = "screen"
On(p) == peer[p].work \in {"on", "shown"} /\ IsScreen(peer[p].of)

(* Mutant: whoever leaves ends the helper.                                 *)
EndsForAll(on) ==
    IF on THEN screens' = screens - 1 /\ ending' = TRUE /\ UNCHANGED <<helper, stray>>
          ELSE UNCHANGED screenVars

(* endPrivSession, if a screen was on.  Whether its call gets through      *)
(* shows later (EndArrives, EndLost), and nobody waits for it.             *)
EndPrivSession(on) ==
    IF on THEN /\ screens' = IF screens = 0 THEN 0 ELSE screens - 1
               /\ ending' = (ending \/ screens' = 0)
               /\ UNCHANGED <<helper, stray>>
          ELSE UNCHANGED screenVars

(* PeerSession.dispose: the peers that are left.                           *)
Without(p) == IF p = None THEN peer ELSE [peer EXCEPT ![p] = Nobody]

(* The onTeardown the manager gives each peer: it forgets the session, and *)
(* tells the control plane; the peer itself it leaves alone.               *)
OnTeardown(s) ==
    /\ sessions' = [sessions EXCEPT ![s] = None]
    /\ granted' = granted \ {s}
    /\ started' = started \ {s} /\ overdue' = overdue \ {s}
    /\ SendClose(s)

-----------------------------------------------------------------------------
(* onOffer.                                                                *)

(* An offer arrives: the one the browser waits an answer for, or, as long  *)
(* as messages are delayed and repeated, an earlier one.                   *)
Arrives(s, u) ==
    /\ u \in 1 .. offer[s]
    /\ ~calm \/ (view[s] = "waiting" /\ u = offer[s])

Known(s) == sessions[s] # None
SameUfrag(s, u) == Known(s) /\ peer[sessions[s]].ufrag = u

(* Mutant: what was answered is not answered again.                        *)
RetransmitIgnored(s, u) ==
    /\ Arrives(s, u) /\ SameUfrag(s, u)
    /\ UNCHANGED <<fixedVars, browserVars, asking, managerVars, peer, screenVars, said>>

(* The offer of a live session, sent again: it is answered again.  When    *)
(* that fails, which is only logged, no answer leaves: as a lost one, and  *)
(* taken, like it, not to happen once calm.                                *)
Retransmit(s, u) ==
    /\ Arrives(s, u) /\ SameUfrag(s, u)
    /\ SendAnswer(s, u)
    /\ UNCHANGED <<fixedVars, asking, managerVars, peer, screenVars, said>>

(* Another ufrag: the peer goes.  A shell cannot be rebuilt.               *)
RestartRefused(s, u) ==
    /\ Arrives(s, u) /\ Known(s) /\ ~SameUfrag(s, u) /\ ~IsScreen(s)
    /\ sessions' = [sessions EXCEPT ![s] = None]
    /\ peer' = Without(sessions[s])
    /\ SendClose(s)
    /\ UNCHANGED <<fixedVars, asking, granted, started, overdue, screenVars, said>>

(* The offers that come through to the checks and the prompt, the old peer *)
(* gone.                                                                   *)
Fresh(s, u) == Arrives(s, u) /\ (Known(s) => ~SameUfrag(s, u) /\ IsScreen(s))
OldEnds(s) == EndPrivSession(Known(s) /\ On(sessions[s]))

AtCapacity(s) == Cardinality({t \in Sessions \ {s} : Known(t)}) >= world.room

(* No room, or the policy does not have this capability.                   *)
OfferRefused(s, u) ==
    /\ Fresh(s, u)
    /\ sessions' = [sessions EXCEPT ![s] = None]
    /\ peer' = Without(sessions[s]) /\ OldEnds(s)
    /\ SendClose(s)
    /\ UNCHANGED <<fixedVars, asking, granted, started, overdue, said>>

MustAsk(s) == world.consent /\ IsScreen(s) /\ s \notin granted

(* Mutant: the consent is noted when it is asked for.                      *)
AsksGranted(s, u) ==
    /\ Fresh(s, u) /\ ~AtCapacity(s) /\ MustAsk(s)
    /\ asking[<<s, u>>] < world.prompts
    /\ asking' = [asking EXCEPT ![<<s, u>>] = @ + 1]
    /\ sessions' = [sessions EXCEPT ![s] = None]
    /\ peer' = Without(sessions[s]) /\ OldEnds(s)
    /\ granted' = granted \cup {s}
    /\ UNCHANGED <<fixedVars, browserVars, started, overdue, said>>

(* The person is asked, and the offer waits.                               *)
Asks(s, u) ==
    /\ Fresh(s, u) /\ ~AtCapacity(s) /\ MustAsk(s)
    /\ asking[<<s, u>>] < world.prompts
    /\ asking' = [asking EXCEPT ![<<s, u>>] = @ + 1]
    /\ sessions' = [sessions EXCEPT ![s] = None]
    /\ peer' = Without(sessions[s]) /\ OldEnds(s)
    /\ UNCHANGED <<fixedVars, browserVars, granted, started, overdue, said>>

Built(s, u) == [of |-> s, ufrag |-> u, conn |-> "new", work |-> "none", timer |-> TRUE]
Stillborn(s) == [of |-> s, ufrag |-> 0, conn |-> "down", work |-> "none", timer |-> TRUE]

(* The rest of onOffer, with the peers and the consents there are: the     *)
(* hard cap is counted from the first peer; a peer whose offer is not      *)
(* understood is dropped with its timer running.                           *)
Build(s, u, peers, consents) ==
    \/ /\ s \in overdue
       /\ granted' = consents \ {s}
       /\ started' = started \ {s} /\ overdue' = overdue \ {s}
       /\ sessions' = IF peers = peer THEN sessions ELSE [sessions EXCEPT ![s] = None]
       /\ peer' = peers
       /\ SendClose(s)
    \/ /\ s \notin overdue
       /\ granted' = consents
       /\ started' = started \cup {s} /\ UNCHANGED overdue
       /\ \E p \in Peers :
             /\ peers[p].of = None
             /\ \/ /\ peer' = [peers EXCEPT ![p] = Built(s, u)]
                   /\ sessions' = [sessions EXCEPT ![s] = p]
                   /\ SendAnswer(s, u)
                \/ /\ peer' = [peers EXCEPT ![p] = Stillborn(s)]
                   /\ sessions' = [sessions EXCEPT ![s] = None]
                   /\ SendClose(s)

(* Nobody has to be asked, or the person said yes to this session already. *)
Accepts(s, u) ==
    /\ Fresh(s, u) /\ ~AtCapacity(s) /\ ~MustAsk(s)
    /\ Build(s, u, Without(sessions[s]), granted) /\ OldEnds(s)
    /\ UNCHANGED <<fixedVars, asking, said>>

(* The person says yes.                                                    *)
Approved(s, u) ==
    /\ asking[<<s, u>>] > 0
    /\ asking' = [asking EXCEPT ![<<s, u>>] = @ - 1]
    /\ said' = said \cup {s}
    /\ Build(s, u, peer, granted \cup {s})
    /\ UNCHANGED <<fixedVars, screenVars>>

(* The person says no, does not answer in time, or is not there.           *)
Declined(s, u) ==
    /\ asking[<<s, u>>] > 0
    /\ asking' = [asking EXCEPT ![<<s, u>>] = @ - 1]
    /\ SendClose(s)
    /\ UNCHANGED <<fixedVars, managerVars, peer, screenVars, said>>

(* onClose, onError: the control plane ends a session, if there is one.    *)
OnClose(s) ==
    /\ view[s] = "closed" \/ ~calm
    /\ Known(s)
    /\ sessions' = [sessions EXCEPT ![s] = None]
    /\ granted' = granted \ {s}
    /\ started' = started \ {s} /\ overdue' = overdue \ {s}
    /\ peer' = Without(sessions[s]) /\ OldEnds(s)
    /\ UNCHANGED <<fixedVars, browserVars, asking, said>>

-----------------------------------------------------------------------------
(* Peers.                                                                  *)

Alive(p) == peer[p].of # None
Session(p) == peer[p].of

(* onDataChannel.  The browser has one connection for an offer.  A screen  *)
(* session counts from here on.                                            *)
ChannelOpens(p) ==
    /\ Alive(p) /\ peer[p].conn = "new"
    /\ view[Session(p)] = "answered" /\ peer[p].ufrag = offer[Session(p)]
    /\ \A q \in Peers \ {p} :
          ~(peer[q].conn = "up" /\ peer[q].of = peer[p].of /\ peer[q].ufrag = peer[p].ufrag)
    /\ peer' = [peer EXCEPT ![p].conn = "up", ![p].work = "on"]
    /\ screens' = IF IsScreen(Session(p)) THEN screens + 1 ELSE screens
    /\ UNCHANGED <<fixedVars, browserVars, asking, managerVars, helper, ending, stray, said>>

(* captureFrame: the first capture that reaches PrivSvc starts the helper. *)
(* The calls go through one lane, one at a time, so none passes a          *)
(* screen.end that was called before it.                                   *)
Captures(p) ==
    /\ peer[p].work = "on" /\ IsScreen(Session(p)) /\ ~ending
    /\ peer' = [peer EXCEPT ![p].work = "shown"]
    /\ helper' = TRUE
    /\ UNCHANGED <<fixedVars, browserVars, asking, managerVars, screens, ending, stray, said>>

(* stopCapture, or the shell's exit: the person ends it, the operator, the *)
(* channel.  The manager hears of it in a turn of its own.                 *)
WorkEnds(p) ==
    /\ Alive(p) /\ peer[p].work \in {"on", "shown"}
    /\ peer' = [peer EXCEPT ![p].work = "leaving"]
    /\ EndPrivSession(On(p))
    /\ UNCHANGED <<fixedVars, browserVars, asking, managerVars, said>>

WorkTornDown(p) ==
    /\ Alive(p) /\ peer[p].work = "leaving"
    /\ peer' = [peer EXCEPT ![p].work = "off"]
    /\ OnTeardown(Session(p))
    /\ UNCHANGED <<fixedVars, asking, screenVars, said>>

(* The connection fails, or the browser ends it.                           *)
ConnectionEnds(p) ==
    /\ Alive(p) /\ peer[p].conn \in {"new", "up"}
    /\ peer' = [peer EXCEPT ![p].conn = "down"]
    /\ OnTeardown(Session(p))
    /\ UNCHANGED <<fixedVars, asking, screenVars, said>>

(* hardTimer.                                                              *)
HardTimerFires(p) ==
    /\ Alive(p) /\ peer[p].timer
    /\ peer' = [peer EXCEPT ![p].timer = FALSE]
    /\ OnTeardown(Session(p))
    /\ UNCHANGED <<fixedVars, asking, screenVars, said>>

CapPasses(s) ==
    /\ s \in started \ overdue
    /\ overdue' = overdue \cup {s}
    /\ UNCHANGED <<fixedVars, browserVars, asking, sessions, granted, started, peer, screenVars, said>>

(* A peer nothing will happen to any more.                                 *)
Collected(p) ==
    /\ Alive(p) /\ peer[p].conn = "down" /\ ~peer[p].timer
    /\ peer[p].work \in {"none", "off"}
    /\ \A s \in Sessions : sessions[s] # p
    /\ peer' = [peer EXCEPT ![p] = Nobody]
    /\ UNCHANGED <<fixedVars, browserVars, asking, managerVars, screenVars, said>>

-----------------------------------------------------------------------------
(* PrivSvc and the process.                                                *)

(* EndSession: the helper is stopped.                                      *)
EndArrives ==
    /\ ending
    /\ ending' = FALSE /\ helper' = FALSE /\ stray' = FALSE
    /\ UNCHANGED <<fixedVars, browserVars, asking, managerVars, peer, screens, said>>

(* The call is rejected, or its lane breaks: a line in the log.            *)
EndLost ==
    /\ world.faults /\ ~calm /\ ending
    /\ ending' = FALSE /\ stray' = (stray \/ helper)
    /\ UNCHANGED <<fixedVars, browserVars, asking, managerVars, peer, screens, helper, said>>

(* The agent dies: what it had in memory and in its lane is gone, PrivSvc  *)
(* and the helper are not.                                                 *)
AgentDies ==
    /\ world.faults /\ ~calm
    /\ asking' = [o \in Offers |-> 0]
    /\ sessions' = [s \in Sessions |-> None]
    /\ granted' = {} /\ started' = {} /\ overdue' = {}
    /\ peer' = [p \in Peers |-> Nobody]
    /\ screens' = 0 /\ ending' = FALSE /\ stray' = (stray \/ helper)
    /\ UNCHANGED <<fixedVars, browserVars, helper, said>>

-----------------------------------------------------------------------------
(* The operator's browser.                                                 *)

Opens(s) ==
    /\ view[s] = "none" /\ world.offers[s] > 0
    /\ view' = [view EXCEPT ![s] = "waiting"] /\ offer' = [offer EXCEPT ![s] = 1]
    /\ UNCHANGED <<fixedVars, asking, managerVars, peer, screenVars, said>>

(* An ICE restart: the network path broke.                                 *)
Restarts(s) ==
    /\ ~calm /\ view[s] = "answered" /\ offer[s] < world.offers[s]
    /\ view' = [view EXCEPT ![s] = "waiting"] /\ offer' = [offer EXCEPT ![s] = @ + 1]
    /\ UNCHANGED <<fixedVars, asking, managerVars, peer, screenVars, said>>

OperatorCloses(s) ==
    /\ view[s] \in {"waiting", "answered"}
    /\ view' = [view EXCEPT ![s] = "closed"] /\ UNCHANGED offer
    /\ UNCHANGED <<fixedVars, asking, managerVars, peer, screenVars, said>>

BecomesCalm ==
    /\ ~calm /\ calm' = TRUE
    /\ UNCHANGED <<world, browserVars, asking, managerVars, peer, screenVars, said>>

OnOffer(s, u) ==
    \/ Retransmit(s, u) \/ RestartRefused(s, u)
    \/ OfferRefused(s, u) \/ Asks(s, u) \/ Accepts(s, u)

Answered(s, u) == Approved(s, u) \/ Declined(s, u)

PeerEvent(p) ==
    \/ ChannelOpens(p) \/ Captures(p) \/ WorkEnds(p) \/ WorkTornDown(p)
    \/ ConnectionEnds(p) \/ HardTimerFires(p) \/ Collected(p)

Next ==
    \/ \E s \in Sessions, u \in 1 .. MaxOffers : OnOffer(s, u) \/ Answered(s, u)
    \/ \E s \in Sessions : \/ OnClose(s) \/ CapPasses(s)
                           \/ Opens(s) \/ Restarts(s) \/ OperatorCloses(s)
    \/ \E p \in Peers : PeerEvent(p)
    \/ EndArrives \/ EndLost \/ AgentDies
    \/ BecomesCalm

Spec == Init /\ [][Next]_vars

(* The browser sends its offer again while it waits, and a prompt ends     *)
(* within its time.  Nothing is owed by the timers: they are hours away.   *)
FairSpec ==
    /\ Spec
    /\ \A s \in Sessions, u \in 1 .. MaxOffers : WF_vars(OnOffer(s, u)) /\ WF_vars(Answered(s, u))
    /\ WF_vars(BecomesCalm)

-----------------------------------------------------------------------------
(* Properties.                                                             *)

(* Under a policy that requires consent no peer for the screen exists of a *)
(* session the person has not said yes to, however its offers are sent     *)
(* again, restarted or answered out of turn (onOffer, consentGranted).     *)
ConsentFirst ==
    \A p \in Peers : Alive(p) /\ world.consent /\ IsScreen(Session(p)) => Session(p) \in said

(* Who leaves does not end the capture helper, nor lock the console, under *)
(* an operator who is shown the screen, however late its screen.end comes; *)
(* and the helper outlives the last screen session, whether that stops by  *)
(* itself, is closed or is rebuilt, only until the screen.end that session *)
(* called arrives.  Only one that is lost, or an agent that dies, leaves   *)
(* the helper behind, until another one gets through (endPrivSession; a    *)
(* helper that fails by itself is left out).                               *)
HelperFollowsScreens ==
    /\ \A p \in Peers : peer[p].work = "shown" => helper
    /\ helper => (\E p \in Peers : Alive(p) /\ On(p)) \/ ending \/ stray

(* Once messages get through, a browser that waits for an answer gets one, *)
(* or learns that the session is over (onOffer: an offer that was already  *)
(* answered is answered again, else "retries exhausted").                  *)
OfferSettles ==
    \A s \in Sessions : []<>(view[s] # "waiting")

=============================================================================
