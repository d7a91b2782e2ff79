--------------------------- MODULE ReconnectProofs ---------------------------
(***************************************************************************)
(* Proofs about Reconnect, for every set of clients and of generations,    *)
(* every limit of the breaker and every length of the socket's queues.     *)
(* First what each handler does to the agent's record, then what the steps *)
(* keep true of it (Settled), then what that means for the renewal, which  *)
(* is the one handler that does not stop the generation it finds.          *)
(***************************************************************************)
EXTENDS Reconnect, FiniteSetTheorems, SequenceTheorems, TLAPS

(* Whoever listens is live and listens to the client in the slot, which is *)
(* the cached one if there is one; no generation lives while a reconnect   *)
(* is due.                                                                 *)
Shaped(a) ==
  /\ a \in Agent
  /\ a.live = a.listening /\ a.beating \subseteq a.live
  /\ \A g \in a.live : a.client[g] = a.slot
  /\ a.handle \in a.live \cup {None}
  /\ a.reconnecting => a.live = {}
  /\ a.cached \in {None, a.slot}
  /\ IF a.live = {} THEN a.cached = None ELSE a.slot \in Clients

(* The client in use is cached, and it is being connected or watched.      *)
Watched(a) ==
  a.live # {} => a.cached = a.slot /\ (a.slot \in a.asking \/ a.beating # {})

(* Without a generation, a reconnect or the exit is due. *)
Due(a) == a.live = {} => a.exiting \/ a.timers > 0

(* Between two parts of a handler, after a handler, and after a step.      *)
Sound(a) == Shaped(a) /\ a.slot \in Clients /\ Due(a)
Steady(a) == Sound(a) /\ Watched(a)
Settled(a) == Steady(a) /\ a.connected \cap Unused(a) = {}

(* a and b differ only in the requests and in what the breaker and the     *)
(* clients count.                                                          *)
SameLink(a, b) ==
  /\ b \in Agent
  /\ b.live = a.live /\ b.listening = a.listening /\ b.beating = a.beating
  /\ b.client = a.client /\ b.handle = a.handle
  /\ b.timers = a.timers /\ b.reconnecting = a.reconnecting /\ b.exiting = a.exiting
  /\ b.cached = a.cached /\ b.slot = a.slot /\ b.connected = a.connected
  /\ b.asking = a.asking /\ b.pending = a.pending

(* t asks for no renewal that s does not ask for. *)
NoNewRenew(s, t) ==
  \A i \in 1 .. Len(t) : t[i] = "renew" => i \in 1 .. Len(s) /\ s[i] = "renew"

(* What a handler may do to a generation: nothing, or end all of them and  *)
(* make a reconnect or the exit due.                                       *)
Keeps(a, b) ==
  /\ b.live = a.live /\ b.handle = a.handle
  /\ b.timers = a.timers /\ b.exiting = a.exiting
  /\ b.renewing = a.renewing /\ b.outbox = a.outbox

Loses(a, b) ==
  /\ b.live = {} /\ b.handle = None
  /\ \/ b.timers = a.timers + 1 /\ b.exiting = a.exiting
     \/ b.timers = a.timers /\ b.exiting
  /\ b.renewing = a.renewing /\ b.outbox = Append(a.outbox, "close")

Falls(a, b) == Keeps(a, b) \/ (a.live # {} /\ Loses(a, b))

-----------------------------------------------------------------------------
(* The handlers, field by field.                                           *)

LEMMA StopFields ==
  ASSUME NEW a \in Agent, NEW gs \in SUBSET Generations
  PROVE  LET s == Stop(a, gs) IN
         /\ s \in Agent
         /\ s.live = a.live \ gs /\ s.beating = a.beating \ gs
         /\ s.listening = {g \in a.listening : a.client[g] \notin {a.client[h] : h \in gs}}
         /\ s.client = [g \in Generations |-> IF g \in gs THEN None ELSE a.client[g]]
         /\ s.handle = IF a.handle \in gs THEN None ELSE a.handle
         /\ s.timers = a.timers /\ s.reconnecting = a.reconnecting
         /\ s.attempts = a.attempts /\ s.exiting = a.exiting
         /\ s.cached = a.cached /\ s.slot = a.slot /\ s.connected = a.connected
         /\ s.asking = a.asking /\ s.pending = a.pending
         /\ s.renewing = a.renewing /\ s.outbox = a.outbox
BY DEF Stop, Agent

LEMMA CloseFields ==
  ASSUME NEW a \in Agent, NEW c \in Clients
  PROVE  LET s == Close(a, c) IN
         /\ s \in Agent
         /\ s.live = a.live /\ s.beating = a.beating /\ s.listening = a.listening
         /\ s.client = a.client /\ s.handle = a.handle
         /\ s.timers = a.timers /\ s.reconnecting = a.reconnecting
         /\ s.attempts = a.attempts /\ s.exiting = a.exiting
         /\ s.cached = IF a.cached = c THEN None ELSE a.cached
         /\ s.slot = a.slot /\ s.connected = a.connected \ {c}
         /\ s.asking = a.asking /\ s.pending = a.pending
         /\ s.renewing = a.renewing /\ s.outbox = Append(a.outbox, "close")
<1> DEFINE b == [InvalidateCachedClient(a, c) EXCEPT !.connected = @ \ {c}]
<1>1. /\ b \in Agent
      /\ b.live = a.live /\ b.beating = a.beating /\ b.listening = a.listening
      /\ b.client = a.client /\ b.handle = a.handle
      /\ b.timers = a.timers /\ b.reconnecting = a.reconnecting
      /\ b.attempts = a.attempts /\ b.exiting = a.exiting
      /\ b.cached = IF a.cached = c THEN None ELSE a.cached
      /\ b.slot = a.slot /\ b.connected = a.connected \ {c}
      /\ b.asking = a.asking /\ b.pending = a.pending
      /\ b.renewing = a.renewing /\ b.outbox = a.outbox
  BY DEF InvalidateCachedClient, Agent
<1>2. Close(a, c) = [b EXCEPT !.outbox = Append(@, "close")]
  BY DEF Close, Send
<1>3. Append(b.outbox, "close") \in Seq(Requests)
  BY <1>1 DEF Agent, Requests
<1> DEFINE o == Append(b.outbox, "close")
           d == Close(a, c)
<1>4. d = [b EXCEPT !.outbox = o]
  BY <1>2
<1> HIDE DEF b, o, d
<1>5. SameLink(b, d) /\ d.attempts = b.attempts /\ d.renewing = b.renewing /\ d.outbox = o
  BY <1>1, <1>3, <1>4 DEF SameLink, Agent, o
<1> QED
  BY <1>1, <1>5 DEF SameLink, o, d

(* The reconnect of a stream that was not being reconnected.               *)
LEMMA ScheduleFields ==
  ASSUME NEW a \in Agent, NEW c \in Clients, ~a.reconnecting
  PROVE  LET s == ScheduleReconnect(a, c) IN
         /\ s \in Agent
         /\ s.live = a.live /\ s.beating = a.beating /\ s.listening = a.listening
         /\ s.client = a.client /\ s.handle = a.handle
         /\ s.reconnecting
         /\ \/ s.timers = a.timers + 1 /\ s.exiting = a.exiting
            \/ s.timers = a.timers /\ s.exiting
         /\ s.cached = IF a.cached = c THEN None ELSE a.cached
         /\ s.slot = a.slot /\ s.connected = a.connected \ {c}
         /\ s.asking = a.asking /\ s.pending = a.pending
         /\ s.renewing = a.renewing /\ s.outbox = Append(a.outbox, "close")
<1> DEFINE d == Close(a, c)
           b == [d EXCEPT !.reconnecting = TRUE,
                          !.attempts = IF @ < MaxAttempts THEN @ + 1 ELSE @]
<1>1. /\ d \in Agent
      /\ d.live = a.live /\ d.beating = a.beating /\ d.listening = a.listening
      /\ d.client = a.client /\ d.handle = a.handle
      /\ d.timers = a.timers /\ d.exiting = a.exiting
      /\ d.cached = IF a.cached = c THEN None ELSE a.cached
      /\ d.slot = a.slot /\ d.connected = a.connected \ {c}
      /\ d.asking = a.asking /\ d.pending = a.pending
      /\ d.renewing = a.renewing /\ d.outbox = Append(a.outbox, "close")
  BY CloseFields
<1>2. ScheduleReconnect(a, c) = IF b.attempts = MaxAttempts THEN [b EXCEPT !.exiting = TRUE]
                                ELSE [b EXCEPT !.timers = @ + 1]
  BY DEF ScheduleReconnect
<1> HIDE DEF d
<1> DEFINE n == IF d.attempts < MaxAttempts THEN d.attempts + 1 ELSE d.attempts
<1>n. n \in 0 .. MaxAttempts
  <2>1. d.attempts \in 0 .. MaxAttempts /\ MaxAttempts \in Nat
    BY <1>1, BoundsAssumption DEF Agent
  <2> QED
    BY <2>1
<1>b. b = [d EXCEPT !.reconnecting = TRUE, !.attempts = n]
  OBVIOUS
<1> HIDE DEF n, b
<1>3. /\ b \in Agent /\ b.reconnecting = TRUE /\ b.attempts = n
      /\ b.live = d.live /\ b.beating = d.beating /\ b.listening = d.listening
      /\ b.client = d.client /\ b.handle = d.handle
      /\ b.timers = d.timers /\ b.exiting = d.exiting
      /\ b.cached = d.cached /\ b.slot = d.slot /\ b.connected = d.connected
      /\ b.asking = d.asking /\ b.pending = d.pending
      /\ b.renewing = d.renewing /\ b.outbox = d.outbox
  BY <1>1, <1>n, <1>b DEF Agent
<1>4. CASE b.attempts = MaxAttempts
  <2>1. ScheduleReconnect(a, c) = [b EXCEPT !.exiting = TRUE]
    BY <1>2, <1>4
  <2> DEFINE s == ScheduleReconnect(a, c)
  <2>2. s = [b EXCEPT !.exiting = TRUE]
    BY <2>1
  <2> HIDE DEF s
  <2>3. /\ s \in Agent /\ s.exiting = TRUE /\ s.reconnecting = b.reconnecting
        /\ s.live = b.live /\ s.beating = b.beating /\ s.listening = b.listening
        /\ s.client = b.client /\ s.handle = b.handle /\ s.timers = b.timers
        /\ s.cached = b.cached /\ s.slot = b.slot /\ s.connected = b.connected
        /\ s.asking = b.asking /\ s.pending = b.pending
        /\ s.renewing = b.renewing /\ s.outbox = b.outbox
    BY <1>3, <2>2 DEF Agent
  <2> QED
    BY <1>1, <1>3, <2>3 DEF s
<1>5. CASE b.attempts # MaxAttempts
  <2>1. b.timers + 1 \in Nat
    BY <1>3 DEF Agent
  <2> DEFINE n1 == b.timers + 1
             s == ScheduleReconnect(a, c)
  <2>2. s = [b EXCEPT !.timers = n1]
    BY <1>2, <1>5
  <2> HIDE DEF n1, s
  <2>3. n1 \in Nat /\ n1 = b.timers + 1
    BY <2>1 DEF n1
  <2>4. /\ s \in Agent /\ s.exiting = b.exiting /\ s.reconnecting = b.reconnecting
        /\ s.live = b.live /\ s.beating = b.beating /\ s.listening = b.listening
        /\ s.client = b.client /\ s.handle = b.handle /\ s.timers = n1
        /\ s.cached = b.cached /\ s.slot = b.slot /\ s.connected = b.connected
        /\ s.asking = b.asking /\ s.pending = b.pending
        /\ s.renewing = b.renewing /\ s.outbox = b.outbox
    BY <1>3, <2>2, <2>3 DEF Agent
  <2> QED
    BY <1>1, <1>3, <2>3, <2>4 DEF s
<1> QED
  BY <1>4, <1>5

(* "error" and "end" reach all the generations or none.                    *)
LEMMA EmitFalls ==
  ASSUME NEW a, Sound(a), NEW c \in Clients
  PROVE  LET b == Emit(a, c) IN
         /\ Sound(b) /\ b.slot = a.slot /\ b.asking = a.asking /\ b.pending = a.pending
         /\ b = a \/ (a.live # {} /\ Loses(a, b))
         /\ c = a.slot => b.live = {}
         /\ b.live # {} => b = a
<1> DEFINE gs == ListenersOf(a, c)
<1>0. a \in Agent /\ a.listening \in SUBSET Generations /\ a.slot \in Clients
  BY DEF Sound, Shaped, Agent
<1>1. CASE gs = {}
  <2>1. Emit(a, c) = a
    BY <1>1 DEF Emit
  <2>2. c = a.slot => a.live = {}
    BY <1>1 DEF ListenersOf, Sound, Shaped
  <2> QED
    BY <2>1, <2>2
<1>2. CASE gs # {}
  <2> DEFINE s == Stop(a, gs)
  <2>1. c = a.slot /\ a.live # {} /\ gs = a.live
    BY <1>2 DEF ListenersOf, Sound, Shaped
  <2>2. gs \in SUBSET Generations
    BY <1>0, <2>1 DEF Sound, Shaped
  <2>3. /\ s \in Agent
        /\ s.live = {} /\ s.beating = {} /\ s.listening = {} /\ s.handle = None
        /\ s.timers = a.timers /\ s.reconnecting = FALSE /\ s.exiting = a.exiting
        /\ s.cached = a.cached /\ s.slot = a.slot /\ s.connected = a.connected
        /\ s.asking = a.asking /\ s.pending = a.pending
        /\ s.renewing = a.renewing /\ s.outbox = a.outbox
    <3>1. a.handle \in gs \/ a.handle = None
      BY <2>1 DEF Sound, Shaped
    <3>2. a.reconnecting = FALSE
      BY <1>0, <2>1 DEF Sound, Shaped, Agent
    <3>3. \A g \in a.listening : a.client[g] \in {a.client[h] : h \in gs}
      BY <2>1 DEF Sound, Shaped
    <3>4. a.beating \subseteq gs
      BY <2>1 DEF Sound, Shaped
    <3> HIDE DEF gs
    <3>5. /\ s \in Agent
          /\ s.live = a.live \ gs /\ s.beating = a.beating \ gs
          /\ s.listening = {g \in a.listening : a.client[g] \notin {a.client[h] : h \in gs}}
          /\ s.client = [g \in Generations |-> IF g \in gs THEN None ELSE a.client[g]]
          /\ s.handle = IF a.handle \in gs THEN None ELSE a.handle
          /\ s.timers = a.timers /\ s.reconnecting = a.reconnecting
          /\ s.attempts = a.attempts /\ s.exiting = a.exiting
          /\ s.cached = a.cached /\ s.slot = a.slot /\ s.connected = a.connected
          /\ s.asking = a.asking /\ s.pending = a.pending
          /\ s.renewing = a.renewing /\ s.outbox = a.outbox
      BY <1>0, <2>2, StopFields, Zenon
    <3> HIDE DEF s
    <3>6. s.live = {} /\ s.beating = {} /\ s.handle = None
      BY <2>1, <3>1, <3>4, <3>5
    <3>7. s.listening = {}
      BY <3>3, <3>5
    <3> QED
      BY <3>2, <3>5, <3>6, <3>7
  <2> DEFINE b == ScheduleReconnect(s, c)
  <2>4. Emit(a, c) = b
    BY <1>2 DEF Emit
  <2> HIDE DEF gs, s
  <2>5. /\ b \in Agent
        /\ b.live = {} /\ b.beating = {} /\ b.listening = {} /\ b.handle = None
        /\ b.reconnecting
        /\ \/ b.timers = a.timers + 1 /\ b.exiting = a.exiting
           \/ b.timers = a.timers /\ b.exiting
        /\ b.cached = IF a.cached = c THEN None ELSE a.cached
        /\ b.slot = a.slot /\ b.asking = a.asking /\ b.pending = a.pending
        /\ b.renewing = a.renewing /\ b.outbox = Append(a.outbox, "close")
    BY <2>3, ScheduleFields
  <2> HIDE DEF b
  <2>6. b.cached = None
    BY <2>1, <2>5 DEF Sound, Shaped
  <2>7. b.exiting \/ b.timers > 0
    <3>1. a.timers \in Nat
      BY <1>0 DEF Agent
    <3> QED
      BY <2>5, <3>1
  <2>8. Sound(b)
    BY <1>0, <2>5, <2>6, <2>7 DEF Sound, Shaped, Due
  <2>9. Loses(a, b)
    BY <2>5 DEF Loses
  <2> QED
    BY <2>1, <2>4, <2>5, <2>8, <2>9
<1> QED
  BY <1>1, <1>2

(* READY reaches the generation that listens to the client in the slot.    *)
LEMMA ReadyKeeps ==
  ASSUME NEW a, Sound(a), NEW c \in Clients,
         c # a.slot => Watched(a), a.live # {} => a.cached = a.slot
  PROVE  LET b == Ready(a, c) IN Steady(b) /\ Keeps(a, b)
<1> DEFINE gs == ListenersOf(a, c)
           n == IF gs = {} THEN a.attempts ELSE 0
           b == [a EXCEPT !.connected = a.connected \cup {c},
                          !.beating = a.beating \cup gs, !.attempts = n]
<1>0. a \in Agent /\ a.slot \in Clients
  BY DEF Sound, Shaped
<1>1. Ready(a, c) = b
  BY <1>0 DEF Ready, Agent
<1>2. gs \subseteq a.live /\ gs \subseteq Generations /\ (c = a.slot => gs = a.live)
  BY <1>0 DEF ListenersOf, Sound, Shaped, Agent
<1>3. n \in 0 .. MaxAttempts
  BY <1>0, BoundsAssumption DEF Agent
<1> HIDE DEF gs, n
<1>4. /\ b \in Agent
      /\ b.live = a.live /\ b.listening = a.listening /\ b.beating = a.beating \cup gs
      /\ b.client = a.client /\ b.handle = a.handle
      /\ b.timers = a.timers /\ b.reconnecting = a.reconnecting /\ b.exiting = a.exiting
      /\ b.cached = a.cached /\ b.slot = a.slot /\ b.asking = a.asking
      /\ b.renewing = a.renewing /\ b.outbox = a.outbox
  BY <1>0, <1>2, <1>3 DEF Agent
<1> HIDE DEF b
<1>5. Keeps(a, b)
  BY <1>4 DEF Keeps
<1>6. Sound(b)
  BY <1>2, <1>4 DEF Sound, Shaped, Due
<1>7. Watched(b)
  BY <1>2, <1>4 DEF Watched
<1> QED
  BY <1>1, <1>5, <1>6, <1>7 DEF Steady

LEMMA ConnectedKeeps ==
  ASSUME NEW a, Steady(a)
  PROVE  LET b == OnConnected(a) IN Steady(b) /\ Keeps(a, b)
<1> DEFINE x == [a EXCEPT !.emitted = @ \cup {a.slot}]
<1>0. a \in Agent /\ a.slot \in Clients
  BY DEF Steady, Sound, Shaped
<1>1. CASE a.slot \in a.emitted
  BY <1>1 DEF OnConnected, Keeps
<1>2. CASE a.slot \notin a.emitted
  <2>1. OnConnected(a) = Ready(x, a.slot)
    BY <1>2 DEF OnConnected
  <2>2. /\ x \in Agent
        /\ x.live = a.live /\ x.listening = a.listening /\ x.beating = a.beating
        /\ x.client = a.client /\ x.handle = a.handle
        /\ x.timers = a.timers /\ x.reconnecting = a.reconnecting /\ x.exiting = a.exiting
        /\ x.cached = a.cached /\ x.slot = a.slot /\ x.asking = a.asking
        /\ x.renewing = a.renewing /\ x.outbox = a.outbox
    BY <1>0 DEF Agent
  <2> HIDE DEF x
  <2>3. Sound(x) /\ (x.live # {} => x.cached = x.slot)
    BY <2>2 DEF Steady, Sound, Shaped, Due, Watched
  <2>4. Steady(Ready(x, a.slot)) /\ Keeps(x, Ready(x, a.slot))
    BY <1>0, <2>2, <2>3, ReadyKeeps
  <2> QED
    BY <2>1, <2>2, <2>4 DEF Keeps
<1> QED
  BY <1>1, <1>2

(* A disconnect, of whatever the bridge says it is.                        *)
LEMMA DisconnectedFalls ==
  ASSUME NEW a, Sound(a)
  PROVE  LET b == OnDisconnected(a) IN
         Steady(b) /\ Falls(a, b) /\ b.live = {} /\ b.pending = a.pending
<1> DEFINE x == InvalidateCachedClient([a EXCEPT !.connected = @ \ {a.slot}], a.slot)
           b == Emit(x, a.slot)
<1>0. a \in Agent /\ a.slot \in Clients
  BY DEF Sound, Shaped
<1>1. /\ x \in Agent
      /\ x.live = a.live /\ x.listening = a.listening /\ x.beating = a.beating
      /\ x.client = a.client /\ x.handle = a.handle
      /\ x.timers = a.timers /\ x.reconnecting = a.reconnecting /\ x.exiting = a.exiting
      /\ x.cached = IF a.cached = a.slot THEN None ELSE a.cached
      /\ x.slot = a.slot /\ x.asking = a.asking /\ x.pending = a.pending
      /\ x.renewing = a.renewing /\ x.outbox = a.outbox
  BY <1>0 DEF InvalidateCachedClient, Agent
<1>2. OnDisconnected(a) = b
  BY DEF OnDisconnected
<1> HIDE DEF x
<1>3. Sound(x)
  BY <1>1 DEF Sound, Shaped, Due
<1>4. /\ Sound(b) /\ b.pending = x.pending
      /\ b = x \/ (x.live # {} /\ Loses(x, b))
      /\ b.live = {}
  BY <1>0, <1>1, <1>3, EmitFalls
<1> HIDE DEF b
<1>5. Steady(b)
  BY <1>4 DEF Steady, Watched
<1>6. Falls(a, b)
  <2>1. CASE b = x
    BY <1>1, <2>1 DEF Falls, Keeps
  <2>2. CASE x.live # {} /\ Loses(x, b)
    BY <1>1, <2>2 DEF Falls, Loses
  <2> QED
    BY <1>4, <2>1, <2>2
<1> QED
  BY <1>1, <1>2, <1>4, <1>5, <1>6

LEMMA ConnectFailedFalls ==
  ASSUME NEW a, Sound(a), NEW c \in Clients,
         c # a.slot => Watched(a), a.live # {} => a.cached = a.slot
  PROVE  LET b == OnConnectFailed(a, c) IN Steady(b) /\ Falls(a, b)
<1> DEFINE x == [a EXCEPT !.asking = @ \ {c}, !.connected = @ \ {c}]
           b == Emit(x, c)
<1>0. a \in Agent /\ a.slot \in Clients
  BY DEF Sound, Shaped
<1>1. /\ x \in Agent
      /\ x.live = a.live /\ x.listening = a.listening /\ x.beating = a.beating
      /\ x.client = a.client /\ x.handle = a.handle
      /\ x.timers = a.timers /\ x.reconnecting = a.reconnecting /\ x.exiting = a.exiting
      /\ x.cached = a.cached /\ x.slot = a.slot /\ x.asking = a.asking \ {c}
      /\ x.renewing = a.renewing /\ x.outbox = a.outbox
  BY <1>0 DEF Agent
<1>2. OnConnectFailed(a, c) = b
  BY DEF OnConnectFailed
<1> HIDE DEF x
<1>3. Sound(x)
  BY <1>1 DEF Sound, Shaped, Due
<1>4. /\ Sound(b)
      /\ b = x \/ (x.live # {} /\ Loses(x, b))
      /\ c = x.slot => b.live = {}
      /\ b.live # {} => b = x
  BY <1>3, EmitFalls
<1> HIDE DEF b
<1>5. Watched(b)
  BY <1>1, <1>4 DEF Watched
<1>6. Falls(a, b)
  <2>1. CASE b = x
    BY <1>1, <2>1 DEF Falls, Keeps
  <2>2. CASE x.live # {} /\ Loses(x, b)
    BY <1>1, <2>2 DEF Falls, Loses
  <2> QED
    BY <1>4, <2>1, <2>2
<1> QED
  BY <1>2, <1>4, <1>5, <1>6 DEF Steady

LEMMA AnswerFalls ==
  ASSUME NEW a, Steady(a), NEW ok \in BOOLEAN
  PROVE  LET b == OnConnectAnswer(a, ok) IN
         Steady(b) /\ Falls(a, b) /\ (ok => Keeps(a, b))
<1> DEFINE c == a.pending
           x == [a EXCEPT !.pending = None, !.asking = @ \ {c}]
           b == OnConnectAnswer(a, ok)
<1>0. a \in Agent /\ c \in Clients \cup {None} /\ None \notin Clients
  BY NoneAssumption DEF Steady, Sound, Shaped, Agent
<1>1. CASE c = None
  BY <1>1 DEF OnConnectAnswer, Falls, Keeps
<1>2. CASE c # None
  <2>1. b = IF ok THEN Ready(x, c) ELSE OnConnectFailed(x, c)
    BY <1>2 DEF OnConnectAnswer
  <2>2. /\ x \in Agent
        /\ x.live = a.live /\ x.listening = a.listening /\ x.beating = a.beating
        /\ x.client = a.client /\ x.handle = a.handle
        /\ x.timers = a.timers /\ x.reconnecting = a.reconnecting /\ x.exiting = a.exiting
        /\ x.cached = a.cached /\ x.slot = a.slot /\ x.asking = a.asking \ {c}
        /\ x.renewing = a.renewing /\ x.outbox = a.outbox
    BY <1>0 DEF Agent
  <2> HIDE DEF x
  <2>3. Sound(x) /\ (x.live # {} => x.cached = x.slot) /\ (c # x.slot => Watched(x))
    BY <2>2 DEF Steady, Sound, Shaped, Due, Watched
  <2>4. CASE ok
    <3>1. Steady(b) /\ Keeps(x, b)
      BY <1>0, <1>2, <2>1, <2>3, <2>4, ReadyKeeps
    <3> QED
      BY <2>2, <3>1 DEF Keeps, Falls
  <2>5. CASE ~ok
    <3>1. Steady(b) /\ Falls(x, b)
      BY <1>0, <1>2, <2>1, <2>3, <2>5, ConnectFailedFalls
    <3>2. Falls(a, b)
      BY <2>2, <3>1 DEF Falls, Keeps, Loses
    <3> QED
      BY <2>5, <3>1, <3>2
  <2> QED
    BY <2>4, <2>5
<1> QED
  BY <1>1, <1>2

(* A step's last part: clients nothing refers to are not connected.        *)
LEMMA CollectedSettles ==
  ASSUME NEW a, Steady(a)
  PROVE  Settled(Collected(a)) /\ Keeps(a, Collected(a))
<1> DEFINE b == Collected(a)
<1>0. a \in Agent
  BY DEF Steady, Sound, Shaped
<1>1. /\ b \in Agent
      /\ b.live = a.live /\ b.listening = a.listening /\ b.beating = a.beating
      /\ b.client = a.client /\ b.handle = a.handle
      /\ b.timers = a.timers /\ b.reconnecting = a.reconnecting /\ b.exiting = a.exiting
      /\ b.cached = a.cached /\ b.slot = a.slot /\ b.asking = a.asking
      /\ b.pending = a.pending /\ b.connected = a.connected \ Unused(a)
      /\ b.renewing = a.renewing /\ b.outbox = a.outbox
  BY <1>0 DEF Collected, Agent
<1> HIDE DEF b
<1>2. Unused(b) = Unused(a)
  BY <1>1 DEF Unused
<1>3. Steady(b)
  BY <1>1 DEF Steady, Sound, Shaped, Due, Watched
<1>4. b.connected \cap Unused(b) = {}
  BY <1>1, <1>2
<1> QED
  BY <1>1, <1>3, <1>4 DEF Settled, Keeps, b

LEMMA ConnectFields ==
  ASSUME NEW a \in Agent, NEW c \in Clients
  PROVE  LET b == Connect(a, c) IN
         /\ b \in Agent
         /\ b.live = a.live /\ b.beating = a.beating /\ b.listening = a.listening
         /\ b.client = a.client /\ b.handle = a.handle
         /\ b.timers = a.timers /\ b.reconnecting = a.reconnecting /\ b.exiting = a.exiting
         /\ b.cached = a.cached /\ b.slot = a.slot /\ b.connected = a.connected
         /\ b.asking = IF c \in a.connected THEN a.asking ELSE a.asking \cup {c}
         /\ b.renewing = a.renewing
         /\ b.outbox = a.outbox \/ b.outbox = Append(a.outbox, "connect")
<1> DEFINE x == [a EXCEPT !.asking = @ \cup {c}, !.pending = c]
<1>1. CASE c \in a.connected \cup a.asking
  BY <1>1 DEF Connect
<1>2. CASE c \notin a.connected \cup a.asking
  <2>1. /\ x \in Agent
        /\ x.live = a.live /\ x.beating = a.beating /\ x.listening = a.listening
        /\ x.client = a.client /\ x.handle = a.handle
        /\ x.timers = a.timers /\ x.reconnecting = a.reconnecting /\ x.exiting = a.exiting
        /\ x.cached = a.cached /\ x.slot = a.slot /\ x.connected = a.connected
        /\ x.asking = a.asking \cup {c}
        /\ x.renewing = a.renewing /\ x.outbox = a.outbox
    BY DEF Agent
  <2> DEFINE o == Append(x.outbox, "connect")
             b == Connect(a, c)
  <2>2. b = [x EXCEPT !.outbox = o]
    BY <1>2 DEF Connect, Send
  <2>3. o \in Seq(Requests)
    BY <2>1 DEF Agent, Requests
  <2> HIDE DEF x, o, b
  <2>4. SameLink(x, b) /\ b.renewing = x.renewing /\ b.outbox = o
    BY <2>1, <2>2, <2>3 DEF SameLink, Agent
  <2> QED
    BY <1>2, <2>1, <2>4 DEF SameLink, o, b
<1> QED
  BY <1>1, <1>2

(* A new generation, on the client in use or on a new one.                 *)
LEMMA StartFields ==
  ASSUME NEW a, Shaped(a), Watched(a), a.connected \cap Unused(a) = {},
         a.live = {} => Unused(a) # {}, Free(a) # {}
  PROVE  LET b == StartGrpcStream(a)
             g == CHOOSE g \in Free(a) : TRUE
         IN  /\ Steady(b)
             /\ g \in Generations \ a.live /\ b.live = a.live \cup {g}
             /\ b.handle = a.handle /\ b.timers = a.timers /\ b.exiting = a.exiting
             /\ b.connected = a.connected /\ b.renewing = a.renewing
             /\ b.outbox = a.outbox \/ b.outbox = Append(a.outbox, "connect")
<1> DEFINE c == CHOOSE c \in Unused(a) : TRUE
           d == CreateGrpcClient(a)
           g == CHOOSE g \in Free(a) : TRUE
           x == [d EXCEPT !.reconnecting = FALSE,
                          !.live = @ \cup {g}, !.listening = @ \cup {g},
                          !.client[g] = d.cached]
           b == Connect(x, d.cached)
<1>0. a \in Agent
  BY DEF Shaped
<1>1. StartGrpcStream(a) = b
  BY DEF StartGrpcStream
<1>2. g \in Generations \ a.live
  BY DEF Free
<1>3. a.live = {} => c \in Clients /\ c \notin a.connected
  BY DEF Unused
<1>4. /\ d \in Agent
      /\ d.live = a.live /\ d.listening = a.listening /\ d.beating = a.beating
      /\ d.client = a.client /\ d.handle = a.handle
      /\ d.timers = a.timers /\ d.exiting = a.exiting
      /\ d.slot \in Clients /\ d.cached = d.slot
      /\ a.live # {} => d.slot = a.slot
      /\ a.live = {} => d.slot \notin a.connected
      /\ d.connected = a.connected /\ d.asking = a.asking
      /\ d.renewing = a.renewing /\ d.outbox = a.outbox
  <2>1. CASE a.live = {}
    <3>1. d = [a EXCEPT !.cached = c, !.slot = c]
      BY <2>1 DEF CreateGrpcClient, Shaped
    <3> HIDE DEF c, d
    <3> QED
      BY <1>0, <1>3, <2>1, <3>1 DEF Agent
  <2>2. CASE a.live # {}
    <3>1. a.cached = a.slot /\ a.slot \in Clients
      BY <2>2 DEF Shaped, Watched
    <3>2. d = a
      BY <3>1, NoneAssumption DEF CreateGrpcClient
    <3> QED
      BY <1>0, <2>2, <3>1, <3>2
  <2> QED
    BY <2>1, <2>2
<1> HIDE DEF c, d, g
<1>5. /\ x \in Agent
      /\ x.live = d.live \cup {g} /\ x.listening = d.listening \cup {g}
      /\ x.beating = d.beating
      /\ x.client = [d.client EXCEPT ![g] = d.cached] /\ x.handle = d.handle
      /\ x.timers = d.timers /\ x.reconnecting = FALSE /\ x.exiting = d.exiting
      /\ x.cached = d.cached /\ x.slot = d.slot
      /\ x.connected = d.connected /\ x.asking = d.asking
      /\ x.renewing = d.renewing /\ x.outbox = d.outbox
  BY <1>2, <1>4 DEF Agent
<1> HIDE DEF x
<1>6. /\ b \in Agent
      /\ b.live = x.live /\ b.beating = x.beating /\ b.listening = x.listening
      /\ b.client = x.client /\ b.handle = x.handle
      /\ b.timers = x.timers /\ b.reconnecting = x.reconnecting /\ b.exiting = x.exiting
      /\ b.cached = x.cached /\ b.slot = x.slot /\ b.connected = x.connected
      /\ b.asking = IF d.cached \in x.connected THEN x.asking ELSE x.asking \cup {d.cached}
      /\ b.renewing = x.renewing
      /\ b.outbox = x.outbox \/ b.outbox = Append(x.outbox, "connect")
  BY <1>4, <1>5, ConnectFields
<1> HIDE DEF b
<1>7. \A h \in b.live : b.client[h] = b.slot
  <2>1. d.client \in [Generations -> Clients \cup {None}]
    BY <1>4 DEF Agent
  <2>2. a.live \subseteq Generations
    BY <1>0 DEF Agent
  <2> QED
    BY <1>2, <1>4, <1>5, <1>6, <2>1, <2>2 DEF Shaped
<1>8. Sound(b)
  BY <1>4, <1>5, <1>6, <1>7 DEF Shaped, Sound, Due
<1>9. Watched(b)
  BY <1>4, <1>5, <1>6 DEF Watched
<1> QED
  BY <1>1, <1>2, <1>4, <1>5, <1>6, <1>8, <1>9 DEF Steady, g

LEMMA AppendNoRenew ==
  ASSUME NEW s \in Seq(Requests), NEW t \in Seq(Requests), NoNewRenew(s, t),
         NEW r \in {"connect", "close"}
  PROVE  NoNewRenew(s, Append(t, r))
BY DEF NoNewRenew, Requests

(* The renewal ends the generation of the handle, and no other is alive.   *)
LEMMA StopHandleFields ==
  ASSUME NEW a, Settled(a), a.handle # None, a.live = {a.handle}
  PROVE  LET b == StopHandle(a) IN
         /\ Shaped(b) /\ b.live = {} /\ b.handle = None
         /\ Unused(b) = Unused(a) /\ b.connected \subseteq a.connected
         /\ b.timers = a.timers /\ b.exiting = a.exiting /\ b.renewing = a.renewing
         /\ b.outbox = Append(a.outbox, "close")
<1> DEFINE h == a.handle
           x == Stop(a, {h})
           b == Close(x, a.slot)
<1>0. /\ a \in Agent /\ a.slot \in Clients /\ h \in Generations /\ a.client[h] = a.slot
      /\ a.cached = a.slot /\ a.beating \subseteq {h} /\ a.reconnecting = FALSE
      /\ a.listening = {h}
  BY DEF Settled, Steady, Sound, Shaped, Watched, Agent
<1>1. StopHandle(a) = b
  BY <1>0 DEF StopHandle
<1>2. /\ x \in Agent
      /\ x.live = a.live \ {h} /\ x.beating = a.beating \ {h}
      /\ x.listening = {g \in a.listening : a.client[g] \notin {a.client[k] : k \in {h}}}
      /\ x.client = [g \in Generations |-> IF g \in {h} THEN None ELSE a.client[g]]
      /\ x.handle = IF a.handle \in {h} THEN None ELSE a.handle
      /\ x.timers = a.timers /\ x.reconnecting = a.reconnecting
      /\ x.attempts = a.attempts /\ x.exiting = a.exiting
      /\ x.cached = a.cached /\ x.slot = a.slot /\ x.connected = a.connected
      /\ x.asking = a.asking /\ x.pending = a.pending
      /\ x.renewing = a.renewing /\ x.outbox = a.outbox
  <2>1. {h} \in SUBSET Generations
    BY <1>0
  <2> HIDE DEF h
  <2> QED
    BY <1>0, <2>1, StopFields, Zenon
<1>3. x.live = {} /\ x.beating = {} /\ x.handle = None
  BY <1>0, <1>2
<1>4. x.listening = {}
  BY <1>0, <1>2
<1> HIDE DEF x
<1>5. /\ b \in Agent
      /\ b.live = x.live /\ b.beating = x.beating /\ b.listening = x.listening
      /\ b.client = x.client /\ b.handle = x.handle
      /\ b.timers = x.timers /\ b.reconnecting = x.reconnecting
      /\ b.attempts = x.attempts /\ b.exiting = x.exiting
      /\ b.cached = IF x.cached = a.slot THEN None ELSE x.cached
      /\ b.slot = x.slot /\ b.connected = x.connected \ {a.slot}
      /\ b.asking = x.asking /\ b.pending = x.pending
      /\ b.renewing = x.renewing /\ b.outbox = Append(x.outbox, "close")
  BY <1>0, <1>2, CloseFields
<1> HIDE DEF b
<1>6. Unused(b) = Unused(a)
  BY <1>0, <1>2, <1>3, <1>5, NoneAssumption DEF Unused
<1>7. Shaped(b)
  BY <1>0, <1>2, <1>3, <1>4, <1>5 DEF Shaped
<1> QED
  BY <1>1, <1>2, <1>3, <1>5, <1>6, <1>7

LEMMA RenewedFields ==
  ASSUME NEW a, Settled(a), a.handle = None \/ a.live = {a.handle},
         Unused(a) # {}, Free(a) # {}
  PROVE  LET b == OnRenewed(a) IN
         /\ Steady(b) /\ b.renewing = FALSE
         /\ b.timers = a.timers /\ b.exiting = a.exiting
         /\ b.handle \in Generations /\ (a.handle # None => b.live = {b.handle})
         /\ NoNewRenew(a.outbox, b.outbox)
<1> DEFINE x == [a EXCEPT !.renewing = FALSE]
           y == StopHandle(x)
           g == CHOOSE g \in Free(y) : TRUE
           z == StartGrpcStream(y)
           b == [z EXCEPT !.handle = g]
<1>0. a \in Agent
  BY DEF Settled, Steady, Sound, Shaped
<1>1. OnRenewed(a) = b
  BY DEF OnRenewed
<1>2. /\ x \in Agent
      /\ x.live = a.live /\ x.listening = a.listening /\ x.beating = a.beating
      /\ x.client = a.client /\ x.handle = a.handle
      /\ x.timers = a.timers /\ x.reconnecting = a.reconnecting /\ x.exiting = a.exiting
      /\ x.cached = a.cached /\ x.slot = a.slot /\ x.asking = a.asking
      /\ x.connected = a.connected /\ x.pending = a.pending
      /\ x.renewing = FALSE /\ x.outbox = a.outbox
  BY <1>0 DEF Agent
<1> HIDE DEF x
<1>3. Unused(x) = Unused(a) /\ Free(x) = Free(a)
  BY <1>2 DEF Unused, Free
<1>4. Settled(x)
  BY <1>2, <1>3 DEF Settled, Steady, Sound, Shaped, Watched, Due
<1>5. /\ Shaped(y) /\ Watched(y) /\ y.connected \cap Unused(y) = {}
      /\ Unused(y) # {} /\ Free(y) # {} /\ (a.handle # None => y.live = {})
      /\ y.timers = a.timers /\ y.exiting = a.exiting /\ y.renewing = FALSE
      /\ y.outbox \in Seq(Requests) /\ NoNewRenew(a.outbox, y.outbox)
  <2>1. NoNewRenew(a.outbox, a.outbox)
    BY DEF NoNewRenew
  <2>2. CASE a.handle = None
    <3>1. y = x
      BY <1>2, <2>2 DEF StopHandle
    <3>2. Shaped(x) /\ Watched(x)
      BY <1>4 DEF Settled, Steady, Sound
    <3>3. x.connected \cap Unused(x) = {}
      BY <1>4 DEF Settled
    <3>4. x.outbox \in Seq(Requests)
      BY <1>2 DEF Agent
    <3> HIDE DEF y
    <3> QED
      BY <1>2, <1>3, <2>1, <2>2, <3>1, <3>2, <3>3, <3>4
  <2>3. CASE a.handle # None
    <3>1. /\ Shaped(y) /\ y.live = {}
          /\ Unused(y) = Unused(x) /\ y.connected \subseteq x.connected
          /\ y.timers = x.timers /\ y.exiting = x.exiting /\ y.renewing = x.renewing
          /\ y.outbox = Append(x.outbox, "close")
      BY <1>2, <1>4, <2>3, StopHandleFields
    <3> HIDE DEF y
    <3>2. x.connected \cap Unused(x) = {}
      BY <1>4 DEF Settled
    <3>3. Free(y) # {}
      BY <3>1, FirstAssumption DEF Free
    <3>4. Watched(y)
      BY <3>1 DEF Watched
    <3>5. x.outbox \in Seq(Requests)
      BY <1>2 DEF Agent
    <3>6. y.outbox \in Seq(Requests)
      BY <3>1, <3>5 DEF Requests
    <3>7. NoNewRenew(a.outbox, y.outbox)
      BY <1>2, <2>1, <3>1, <3>5, AppendNoRenew
    <3> QED
      BY <1>2, <1>3, <3>1, <3>2, <3>3, <3>4, <3>6, <3>7
  <2> QED
    BY <2>2, <2>3
<1> HIDE DEF y
<1>6. /\ Steady(z)
      /\ g \in Generations \ y.live /\ z.live = y.live \cup {g}
      /\ z.handle = y.handle /\ z.timers = y.timers /\ z.exiting = y.exiting
      /\ z.renewing = y.renewing
      /\ z.outbox = y.outbox \/ z.outbox = Append(y.outbox, "connect")
  BY <1>5, StartFields
<1> HIDE DEF z, g
<1>7. NoNewRenew(a.outbox, z.outbox)
  <2>1. a.outbox \in Seq(Requests)
    BY <1>0 DEF Agent
  <2> QED
    BY <1>5, <1>6, <2>1, AppendNoRenew
<1>8. z \in Agent
  BY <1>6 DEF Steady, Sound, Shaped
<1>9. /\ b \in Agent
      /\ b.live = z.live /\ b.listening = z.listening /\ b.beating = z.beating
      /\ b.client = z.client /\ b.handle = g
      /\ b.timers = z.timers /\ b.reconnecting = z.reconnecting /\ b.exiting = z.exiting
      /\ b.cached = z.cached /\ b.slot = z.slot /\ b.asking = z.asking
      /\ b.renewing = z.renewing /\ b.outbox = z.outbox
  BY <1>6, <1>8 DEF Agent
<1> HIDE DEF b
<1>10. Steady(b)
  BY <1>6, <1>9 DEF Steady, Sound, Shaped, Watched, Due
<1> QED
  BY <1>1, <1>5, <1>6, <1>7, <1>9, <1>10

LEMMA NewFields ==
  LET b == NewProcess IN
  /\ Settled(b) /\ b.handle \in Generations /\ b.live = {b.handle}
  /\ b.timers = 0 /\ b.exiting = FALSE /\ b.renewing = FALSE
  /\ NoNewRenew(<<>>, b.outbox)
<1> DEFINE z == [live |-> {}, listening |-> {}, beating |-> {},
                 client |-> [g \in Generations |-> None], handle |-> None,
                 timers |-> 0, reconnecting |-> FALSE, attempts |-> 0,
                 exiting |-> FALSE, cached |-> None, slot |-> None,
                 connected |-> {}, emitted |-> {}, asking |-> {},
                 pending |-> None, renewing |-> FALSE, outbox |-> <<>>]
           g == CHOOSE g \in Free(z) : TRUE
           a == StartGrpcStream(z)
           b == [a EXCEPT !.handle = g]
<1>1. /\ z \in Agent /\ z.live = {} /\ z.listening = {} /\ z.beating = {}
      /\ z.handle = None /\ z.timers = 0 /\ z.reconnecting = FALSE
      /\ z.exiting = FALSE /\ z.cached = None /\ z.slot = None /\ z.connected = {}
      /\ z.asking = {} /\ z.pending = None /\ z.renewing = FALSE /\ z.outbox = <<>>
  BY BoundsAssumption DEF Agent
<1>2. NewProcess = [a EXCEPT !.handle = CHOOSE h \in a.live : TRUE]
  BY DEF NewProcess
<1> HIDE DEF z
<1>3. Shaped(z) /\ Watched(z)
  BY <1>1 DEF Shaped, Watched
<1>4. Unused(z) # {} /\ Free(z) # {}
  BY <1>1, FirstAssumption, NoneAssumption DEF Unused, Free
<1>5. /\ Steady(a)
      /\ g \in Generations /\ a.live = {g}
      /\ a.timers = 0 /\ a.exiting = FALSE /\ a.connected = {} /\ a.renewing = FALSE
      /\ a.outbox = <<>> \/ a.outbox = Append(<<>>, "connect")
  BY <1>1, <1>3, <1>4, StartFields
<1>6. NewProcess = b
  BY <1>2, <1>5
<1> HIDE DEF a, g
<1>7. a \in Agent
  BY <1>5 DEF Steady, Sound, Shaped
<1>8. /\ b \in Agent
      /\ b.live = a.live /\ b.listening = a.listening /\ b.beating = a.beating
      /\ b.client = a.client /\ b.handle = g
      /\ b.timers = a.timers /\ b.reconnecting = a.reconnecting /\ b.exiting = a.exiting
      /\ b.cached = a.cached /\ b.slot = a.slot /\ b.asking = a.asking
      /\ b.connected = a.connected /\ b.renewing = a.renewing /\ b.outbox = a.outbox
  BY <1>5, <1>7 DEF Agent
<1> HIDE DEF b
<1>9. Settled(b)
  BY <1>5, <1>8 DEF Settled, Steady, Sound, Shaped, Watched, Due
<1>10. NoNewRenew(<<>>, b.outbox)
  BY <1>5, <1>8 DEF NoNewRenew
<1> QED
  BY <1>5, <1>6, <1>8, <1>9, <1>10

-----------------------------------------------------------------------------
(* The renewal stops the generation of the handle only.  It finds no other *)
(* one, because a generation the handle does not know is one that started  *)
(* after a loss, hence on a bridge that is heard; then its teardown is     *)
(* heard before the answer, and ends that generation.                      *)

Answers == {"renewed", "notRenewed"}

(* One renewal at a time: it is asked for, or answered, once. *)
OneRenewal ==
  /\ \A i \in 1 .. Len(agent.outbox) : agent.outbox[i] = "renew" =>
        /\ agent.renewing
        /\ \A j \in 1 .. Len(agent.outbox) : agent.outbox[j] = "renew" => j = i
        /\ \A j \in 1 .. Len(inbox) : inbox[j] \notin Answers
  /\ \A i \in 1 .. Len(inbox) : inbox[i] \in Answers =>
        /\ agent.renewing
        /\ \A j \in 1 .. Len(inbox) : inbox[j] \in Answers => j = i

(* Nothing but the generation of the handle. *)
Sole(a) == a.live = {a.handle} /\ a.timers = 0

BridgeHears == agent.handle # None /\ ~Sole(agent) => (bridge.up => bridge.heard)

NoTimerRenewing == agent.renewing /\ agent.handle # None => agent.timers = 0

RenewedLater ==
  \A i \in 1 .. Len(inbox) : inbox[i] = "renewed" =>
    /\ bridge.up => bridge.heard
    /\ \/ agent.handle = None \/ Sole(agent)
       \/ \E j \in 1 .. (i - 1) : inbox[j] = "disconnected"

(* OneAttempt, told apart. *)
OneThing ==
  \/ renewed
  \/ \E g \in Generations : agent.live = {g} /\ agent.timers = 0 /\ ~agent.exiting
  \/ agent.live = {} /\ agent.timers = 1 /\ ~agent.exiting
  \/ agent.live = {} /\ agent.timers = 0 /\ agent.exiting

Renewal == OneRenewal /\ BridgeHears /\ NoTimerRenewing /\ RenewedLater

IInv == TypeOK /\ Settled(agent) /\ Renewal /\ OneThing

(* What a generation that falls does to the rest, in the course of a       *)
(* message or of a timer.                                                  *)
LEMMA HandlerKeeps ==
  ASSUME IInv, Settled(agent'), Falls(agent, agent'),
         bridge' = bridge, calm' = calm, renewed' = renewed,
         \/ inbox' = inbox
         \/ /\ inbox # <<>> /\ inbox' = Tail(inbox)
            /\ Head(inbox) = "disconnected" => agent'.live = {}
  PROVE  IInv'
<1> DEFINE k == IF inbox' = inbox THEN 0 ELSE 1
<1>1. /\ inbox \in Seq(Messages) /\ agent \in Agent /\ agent' \in Agent
      /\ agent.timers \in Nat /\ agent.outbox \in Seq(Requests)
      /\ bridge \in [up : BOOLEAN, heard : BOOLEAN]
  BY DEF IInv, TypeOK, Settled, Steady, Sound, Shaped, Agent
<1>2. /\ inbox' \in Seq(Messages)
      /\ k \in {0, 1} /\ Len(inbox') = Len(inbox) - k
      /\ \A i \in 1 .. Len(inbox') : inbox'[i] = inbox[i + k]
      /\ k = 1 => inbox # <<>> /\ (inbox[1] = "disconnected" => agent'.live = {})
  <2>1. CASE inbox' = inbox
    BY <1>1, <2>1
  <2>2. CASE inbox' # inbox
    <3>1. inbox # <<>> /\ inbox' = Tail(inbox) /\ k = 1
      BY <2>2
    <3>2. /\ Tail(inbox) \in Seq(Messages) /\ Len(Tail(inbox)) = Len(inbox) - 1
          /\ \A i \in 1 .. Len(Tail(inbox)) : Tail(inbox)[i] = inbox[i + 1]
          /\ Head(inbox) = inbox[1]
      BY <1>1, <3>1
    <3> HIDE DEF k
    <3> QED
      BY <2>2, <3>1, <3>2
  <2> QED
    BY <2>1, <2>2
<1> HIDE DEF k
<1>3. TypeOK'
  BY <1>1, <1>2 DEF IInv, TypeOK
<1>4. agent'.live = {} => agent'.handle = None
  BY DEF Settled, Steady, Sound, Shaped
<1>5. agent'.renewing = agent.renewing /\ NoNewRenew(agent.outbox, agent'.outbox)
  <2>1. NoNewRenew(agent.outbox, agent.outbox)
    BY DEF NoNewRenew
  <2>2. NoNewRenew(agent.outbox, Append(agent.outbox, "close"))
    BY <1>1, <2>1, AppendNoRenew
  <2> QED
    BY <2>1, <2>2 DEF Falls, Keeps, Loses
<1>6. OneRenewal'
  <2>1. ASSUME NEW i \in 1 .. Len(agent'.outbox), agent'.outbox[i] = "renew"
        PROVE  /\ agent'.renewing
               /\ \A j \in 1 .. Len(agent'.outbox) : agent'.outbox[j] = "renew" => j = i
               /\ \A j \in 1 .. Len(inbox') : inbox'[j] \notin Answers
    <3>1. i \in 1 .. Len(agent.outbox) /\ agent.outbox[i] = "renew"
      BY <1>5, <2>1 DEF NoNewRenew
    <3>2. /\ agent.renewing
          /\ \A j \in 1 .. Len(agent.outbox) : agent.outbox[j] = "renew" => j = i
          /\ \A j \in 1 .. Len(inbox) : inbox[j] \notin Answers
      BY <3>1 DEF IInv, Renewal, OneRenewal
    <3>3. \A j \in 1 .. Len(inbox') : j + k \in 1 .. Len(inbox)
      BY <1>1, <1>2
    <3> QED
      BY <1>2, <1>5, <3>2, <3>3 DEF NoNewRenew
  <2>2. ASSUME NEW i \in 1 .. Len(inbox'), inbox'[i] \in Answers
        PROVE  /\ agent'.renewing
               /\ \A j \in 1 .. Len(inbox') : inbox'[j] \in Answers => j = i
    <3>1. \A j \in 1 .. Len(inbox') : j + k \in 1 .. Len(inbox)
      BY <1>1, <1>2
    <3>2. /\ agent.renewing
          /\ \A j \in 1 .. Len(inbox) : inbox[j] \in Answers => j = i + k
      BY <1>2, <2>2, <3>1 DEF IInv, Renewal, OneRenewal
    <3> QED
      BY <1>1, <1>2, <1>5, <3>1, <3>2
  <2> QED
    BY <2>1, <2>2 DEF OneRenewal
<1>7. CASE Keeps(agent, agent')
  <2>1. Sole(agent') <=> Sole(agent)
    BY <1>7 DEF Keeps, Sole
  <2>2. BridgeHears' /\ NoTimerRenewing'
    BY <1>5, <1>7, <2>1 DEF IInv, Renewal, BridgeHears, NoTimerRenewing, Keeps
  <2>3. ASSUME NEW i \in 1 .. Len(inbox'), inbox'[i] = "renewed"
        PROVE  /\ bridge'.up => bridge'.heard
               /\ \/ agent'.handle = None \/ Sole(agent')
                  \/ \E j \in 1 .. (i - 1) : inbox'[j] = "disconnected"
    <3> DEFINE m == i + k
    <3>0. m \in Int /\ m = i + k
      BY <1>2
    <3>1. m \in 1 .. Len(inbox) /\ inbox[m] = "renewed"
      BY <1>1, <1>2, <2>3
    <3> HIDE DEF m
    <3>2. /\ bridge.up => bridge.heard
          /\ \/ agent.handle = None \/ Sole(agent)
             \/ \E j \in 1 .. (m - 1) : inbox[j] = "disconnected"
      BY <3>1 DEF IInv, Renewal, RenewedLater
    <3>3. CASE agent.handle = None \/ Sole(agent)
      BY <1>7, <2>1, <3>2, <3>3 DEF Keeps
    <3>4. ASSUME NEW j \in 1 .. (m - 1), inbox[j] = "disconnected"
          PROVE  agent'.handle = None \/ \E n \in 1 .. (i - 1) : inbox'[n] = "disconnected"
      <4>1. CASE k = 1 /\ j = 1
        BY <1>2, <1>4, <3>4, <4>1
      <4>2. CASE ~(k = 1 /\ j = 1)
        <5>1. j - k \in 1 .. (i - 1) /\ j - k \in 1 .. Len(inbox') /\ (j - k) + k = j
          BY <1>1, <1>2, <3>0, <4>2
        <5> QED
          BY <1>2, <3>4, <5>1
      <4> QED
        BY <4>1, <4>2
    <3>5. CASE \E j \in 1 .. (m - 1) : inbox[j] = "disconnected"
      <4>1. agent'.handle = None \/ \E n \in 1 .. (i - 1) : inbox'[n] = "disconnected"
        BY <3>4, <3>5
      <4> QED
        BY <3>2, <4>1
    <3> QED
      BY <3>2, <3>3, <3>5
  <2>4. RenewedLater'
    BY <2>3 DEF RenewedLater
  <2>5. OneThing'
    BY <1>7 DEF IInv, OneThing, Keeps
  <2> QED
    BY <1>3, <1>6, <2>2, <2>4, <2>5 DEF IInv, Renewal
<1>8. CASE agent.live # {} /\ Loses(agent, agent')
  <2>1. agent'.handle = None
    BY <1>8 DEF Loses
  <2>2. BridgeHears' /\ NoTimerRenewing'
    BY <2>1 DEF BridgeHears, NoTimerRenewing
  <2>3. RenewedLater'
    <3>1. ASSUME NEW i \in 1 .. Len(inbox'), inbox'[i] = "renewed"
          PROVE  bridge.up => bridge.heard
      <4>1. i + k \in 1 .. Len(inbox) /\ inbox[i + k] = "renewed"
        BY <1>1, <1>2, <3>1
      <4> QED
        BY <4>1 DEF IInv, Renewal, RenewedLater
    <3> QED
      BY <2>1, <3>1 DEF RenewedLater
  <2>4. OneThing'
    BY <1>1, <1>8 DEF IInv, OneThing, Loses
  <2> QED
    BY <1>3, <1>6, <2>2, <2>3, <2>4 DEF IInv, Renewal
<1> QED
  BY <1>7, <1>8 DEF Falls

LEMMA FallsSettle ==
  ASSUME NEW a, NEW b, Steady(b), Falls(a, b)
  PROVE  /\ Settled(Collected(b)) /\ Falls(a, Collected(b))
         /\ Collected(b).live = b.live
<1>1. Settled(Collected(b)) /\ Keeps(b, Collected(b))
  BY CollectedSettles
<1> QED
  BY <1>1 DEF Falls, Keeps, Loses

(* What the link looks like does not depend on the requests.               *)
LEMMA SameLinkSettles ==
  ASSUME NEW a, NEW b, Settled(a), SameLink(a, b)
  PROVE  Settled(b)
<1>1. Unused(b) = Unused(a)
  BY DEF Unused, SameLink
<1> QED
  BY <1>1 DEF SameLink, Settled, Steady, Sound, Shaped, Watched, Due

LEMMA InvFacts ==
  ASSUME IInv
  PROVE  /\ agent \in Agent /\ Steady(agent) /\ Sound(agent) /\ Shaped(agent) /\ Watched(agent)
         /\ agent.slot \in Clients /\ agent.timers \in Nat /\ agent.renewing \in BOOLEAN
         /\ agent.outbox \in Seq(Requests) /\ inbox \in Seq(Messages)
         /\ agent.connected \cap Unused(agent) = {}
         /\ renewed \in BOOLEAN /\ calm \in BOOLEAN /\ bridge \in [up : BOOLEAN, heard : BOOLEAN]
BY DEF IInv, TypeOK, Settled, Steady, Sound, Shaped, Agent

-----------------------------------------------------------------------------
(* The steps.                                                              *)

LEMMA ReceiveNewsKeeps ==
  ASSUME IInv, Receive, Head(inbox) \notin Answers
  PROVE  IInv'
<1> DEFINE m == Head(inbox)
           b == Handled(agent, m)
<1>0. inbox # <<>> /\ inbox' = Tail(inbox) /\ agent' = Collected(b)
  BY DEF Receive
<1>1. m \in {"connected", "disconnected", "serverDisconnect", "ok", "fail"}
  <2>1. m \in Messages
    BY <1>0, InvFacts
  <2> QED
    BY <2>1 DEF Messages, Answers
<1>2. bridge' = bridge /\ calm' = calm /\ renewed' = renewed
  BY <1>1, InvFacts DEF Receive
<1>3. Steady(b) /\ Falls(agent, b) /\ (m = "disconnected" => b.live = {})
  <2>1. CASE m = "connected"
    <3>1. b = OnConnected(agent)
      BY <2>1 DEF Handled
    <3> QED
      BY <2>1, <3>1, InvFacts, ConnectedKeeps DEF Falls
  <2>2. CASE m = "disconnected"
    <3>1. b = OnDisconnected(agent)
      BY <2>2 DEF Handled
    <3> QED
      BY <3>1, InvFacts, DisconnectedFalls
  <2>3. CASE m = "serverDisconnect"
    <3>1. b = Emit(agent, agent.slot)
      BY <2>3 DEF Handled
    <3>2. /\ Sound(b) /\ b.live = {}
          /\ b = agent \/ (agent.live # {} /\ Loses(agent, b))
      BY <3>1, InvFacts, EmitFalls
    <3>3. Falls(agent, b)
      BY <3>2 DEF Falls, Keeps
    <3> QED
      BY <3>2, <3>3 DEF Steady, Watched
  <2>4. CASE m = "ok"
    <3>1. b = OnConnectAnswer(agent, TRUE)
      BY <2>4 DEF Handled
    <3> QED
      BY <2>4, <3>1, InvFacts, AnswerFalls
  <2>5. CASE m = "fail"
    <3>1. b = OnConnectAnswer(agent, FALSE)
      BY <2>5 DEF Handled
    <3> QED
      BY <2>5, <3>1, InvFacts, AnswerFalls
  <2> QED
    BY <1>1, <2>1, <2>2, <2>3, <2>4, <2>5
<1> HIDE DEF b
<1>4. Settled(agent') /\ Falls(agent, agent') /\ agent'.live = b.live
  BY <1>0, <1>3, FallsSettle
<1> QED
  BY <1>0, <1>2, <1>3, <1>4, HandlerKeeps

LEMMA HeartbeatKeeps ==
  ASSUME IInv, NEW g \in Generations, HeartbeatFails(g) \/ WatchdogFires(g)
  PROVE  IInv'
<1> DEFINE b == Emit(agent, agent.client[g])
<1>1. /\ g \in agent.beating /\ agent' = Collected(b)
      /\ UNCHANGED <<inbox, bridge, calm, renewed>>
  BY DEF HeartbeatFails, WatchdogFires
<1>2. agent.client[g] = agent.slot /\ agent.slot \in Clients
  BY <1>1, InvFacts DEF Shaped
<1>3. /\ Sound(b) /\ b.live = {}
      /\ b = agent \/ (agent.live # {} /\ Loses(agent, b))
  BY <1>2, InvFacts, EmitFalls
<1> HIDE DEF b
<1>4. Steady(b) /\ Falls(agent, b)
  BY <1>3 DEF Steady, Watched, Falls, Keeps
<1>5. Settled(agent') /\ Falls(agent, agent')
  BY <1>1, <1>4, FallsSettle
<1> QED
  BY <1>1, <1>5, HandlerKeeps

LEMMA TimeOutKeeps ==
  ASSUME IInv, NEW c \in Clients, ConnectTimesOut(c)
  PROVE  IInv'
<1> DEFINE x == [agent EXCEPT !.pending = None]
           b == OnConnectFailed(x, c)
<1>1. agent' = Collected(b) /\ UNCHANGED <<inbox, bridge, calm, renewed>>
  BY DEF ConnectTimesOut
<1>2. /\ x \in Agent
      /\ x.live = agent.live /\ x.listening = agent.listening /\ x.beating = agent.beating
      /\ x.client = agent.client /\ x.handle = agent.handle
      /\ x.timers = agent.timers /\ x.reconnecting = agent.reconnecting
      /\ x.exiting = agent.exiting
      /\ x.cached = agent.cached /\ x.slot = agent.slot /\ x.asking = agent.asking
      /\ x.renewing = agent.renewing /\ x.outbox = agent.outbox
  BY InvFacts DEF Agent
<1> HIDE DEF x
<1>3. Sound(x) /\ Watched(x) /\ (x.live # {} => x.cached = x.slot)
  BY <1>2, InvFacts DEF Sound, Shaped, Due, Watched
<1>4. Steady(b) /\ Falls(x, b)
  BY <1>3, ConnectFailedFalls
<1> HIDE DEF b
<1>5. Falls(agent, b)
  BY <1>2, <1>4 DEF Falls, Keeps, Loses
<1>6. Settled(agent') /\ Falls(agent, agent')
  BY <1>1, <1>4, <1>5, FallsSettle
<1> QED
  BY <1>1, <1>6, HandlerKeeps

(* The answer was the only one.                                            *)
LEMMA AnswerReceived ==
  ASSUME IInv, inbox # <<>>, Head(inbox) \in Answers, inbox' = Tail(inbox),
         NoNewRenew(agent.outbox, agent'.outbox)
  PROVE  /\ OneRenewal' /\ RenewedLater' /\ inbox' \in Seq(Messages)
<1>1. /\ inbox' \in Seq(Messages) /\ Len(inbox') = Len(inbox) - 1 /\ Len(inbox) \in Nat
      /\ \A i \in 1 .. Len(inbox') : inbox'[i] = inbox[i + 1]
      /\ 1 \in 1 .. Len(inbox) /\ inbox[1] \in Answers
  BY InvFacts
<1>2. \A i \in 1 .. Len(inbox) : inbox[i] \in Answers => i = 1
  BY <1>1 DEF IInv, Renewal, OneRenewal
<1>3. \A i \in 1 .. Len(agent.outbox) : agent.outbox[i] # "renew"
  BY <1>1 DEF IInv, Renewal, OneRenewal
<1>4. \A i \in 1 .. Len(inbox') : inbox'[i] \notin Answers
  <2>1. \A i \in 1 .. Len(inbox') : i + 1 \in 1 .. Len(inbox) /\ i + 1 # 1
    BY <1>1
  <2> QED
    BY <1>1, <1>2, <2>1
<1>5. \A i \in 1 .. Len(agent'.outbox) : agent'.outbox[i] # "renew"
  BY <1>3 DEF NoNewRenew
<1> QED
  BY <1>1, <1>4, <1>5 DEF OneRenewal, RenewedLater, Answers

LEMMA NotRenewedKeeps ==
  ASSUME IInv, Receive, Head(inbox) = "notRenewed"
  PROVE  IInv'
<1> DEFINE b == [agent EXCEPT !.renewing = FALSE]
<1>1. /\ inbox # <<>> /\ inbox' = Tail(inbox) /\ agent' = Collected(b)
      /\ UNCHANGED <<bridge, calm>> /\ renewed' = renewed
  BY InvFacts DEF Receive, Handled
<1>2. /\ Settled(b) /\ b.live = agent.live /\ b.handle = agent.handle
      /\ b.timers = agent.timers /\ b.exiting = agent.exiting
      /\ b.renewing = FALSE /\ b.outbox = agent.outbox
  <2>1. SameLink(agent, b) /\ b.renewing = FALSE /\ b.outbox = agent.outbox
    BY InvFacts DEF SameLink, Agent
  <2> HIDE DEF b
  <2> QED
    BY <2>1, SameLinkSettles DEF SameLink, IInv
<1> HIDE DEF b
<1>3. Settled(agent') /\ Keeps(b, agent')
  BY <1>1, <1>2, CollectedSettles DEF Settled
<1>4. OneRenewal' /\ RenewedLater' /\ inbox' \in Seq(Messages)
  BY <1>1, <1>2, <1>3, AnswerReceived DEF Keeps, NoNewRenew, Answers
<1>5. TypeOK'
  BY <1>1, <1>3, <1>4, InvFacts DEF TypeOK, Settled, Steady, Sound, Shaped
<1>6. BridgeHears' /\ NoTimerRenewing'
  BY <1>1, <1>2, <1>3 DEF IInv, Renewal, BridgeHears, NoTimerRenewing, Keeps, Sole
<1>7. OneThing'
  BY <1>1, <1>2, <1>3 DEF IInv, OneThing, Keeps
<1> QED
  BY <1>3, <1>4, <1>5, <1>6, <1>7 DEF IInv, Renewal

LEMMA RenewedKeeps ==
  ASSUME IInv, Receive, Head(inbox) = "renewed"
  PROVE  IInv'
<1> DEFINE b == OnRenewed(agent)
<1>1. /\ inbox # <<>> /\ inbox' = Tail(inbox) /\ agent' = Collected(b)
      /\ UNCHANGED <<bridge, calm>> /\ renewed'
      /\ Unused(agent) # {} /\ Free(agent) # {}
  BY DEF Receive, Handled, CanStart
<1>2. /\ bridge.up => bridge.heard
      /\ agent.handle = None \/ Sole(agent)
  <2>1. 1 \in 1 .. Len(inbox) /\ inbox[1] = "renewed"
    BY <1>1, InvFacts
  <2> QED
    BY <2>1 DEF IInv, Renewal, RenewedLater
<1>3. /\ Steady(b) /\ b.renewing = FALSE
      /\ b.timers = agent.timers /\ b.exiting = agent.exiting
      /\ b.handle \in Generations /\ (agent.handle # None => b.live = {b.handle})
      /\ NoNewRenew(agent.outbox, b.outbox)
  BY <1>1, <1>2, RenewedFields DEF IInv, Sole
<1> HIDE DEF b
<1>4. Settled(agent') /\ Keeps(b, agent')
  BY <1>1, <1>3, CollectedSettles
<1>5. OneRenewal' /\ RenewedLater' /\ inbox' \in Seq(Messages)
  BY <1>1, <1>3, <1>4, AnswerReceived DEF Keeps, NoNewRenew, Answers
<1>6. TypeOK'
  BY <1>1, <1>4, <1>5, InvFacts DEF TypeOK, Settled, Steady, Sound, Shaped
<1>7. BridgeHears' /\ NoTimerRenewing'
  BY <1>1, <1>2, <1>3, <1>4 DEF BridgeHears, NoTimerRenewing, Keeps, Sole
<1>8. OneThing'
  BY <1>1 DEF OneThing
<1> QED
  BY <1>4, <1>5, <1>6, <1>7, <1>8 DEF IInv, Renewal

(* Any step that leaves the messages and adds no request for a renewal.    *)
LEMMA QuietRenewal ==
  ASSUME IInv, inbox' = inbox, agent'.renewing = agent.renewing,
         NoNewRenew(agent.outbox, agent'.outbox)
  PROVE  OneRenewal'
<1>1. ASSUME NEW i \in 1 .. Len(agent'.outbox), agent'.outbox[i] = "renew"
      PROVE  /\ agent'.renewing
             /\ \A j \in 1 .. Len(agent'.outbox) : agent'.outbox[j] = "renew" => j = i
             /\ \A j \in 1 .. Len(inbox') : inbox'[j] \notin Answers
  BY <1>1 DEF IInv, Renewal, OneRenewal, NoNewRenew
<1>2. ASSUME NEW i \in 1 .. Len(inbox'), inbox'[i] \in Answers
      PROVE  /\ agent'.renewing
             /\ \A j \in 1 .. Len(inbox') : inbox'[j] \in Answers => j = i
  BY <1>2 DEF IInv, Renewal, OneRenewal
<1> QED
  BY <1>1, <1>2 DEF OneRenewal

LEMMA TimerKeeps ==
  ASSUME IInv, ReconnectTimerFires
  PROVE  IInv'
<1> DEFINE x == [agent EXCEPT !.timers = agent.timers - 1]
           b == StartGrpcStream(x)
           g == CHOOSE g \in Free(x) : TRUE
<1>0. agent.timers > 0 /\ agent.timers - 1 \in Nat
  BY InvFacts DEF ReconnectTimerFires
<1>1. /\ agent' = Collected(b) /\ UNCHANGED <<inbox, bridge, calm, renewed>>
      /\ Unused(agent) # {} /\ Free(agent) # {}
  BY InvFacts DEF ReconnectTimerFires, CanStart, Agent
<1>2. /\ x \in Agent
      /\ x.live = agent.live /\ x.listening = agent.listening /\ x.beating = agent.beating
      /\ x.client = agent.client /\ x.handle = agent.handle
      /\ x.timers = agent.timers - 1 /\ x.reconnecting = agent.reconnecting
      /\ x.exiting = agent.exiting
      /\ x.cached = agent.cached /\ x.slot = agent.slot /\ x.asking = agent.asking
      /\ x.connected = agent.connected /\ x.pending = agent.pending
      /\ x.renewing = agent.renewing /\ x.outbox = agent.outbox
  BY <1>0, InvFacts DEF Agent
<1> HIDE DEF x
<1>3. Unused(x) = Unused(agent) /\ Free(x) = Free(agent)
  BY <1>2 DEF Unused, Free
<1>4. Shaped(x) /\ Watched(x)
  BY <1>2, InvFacts DEF Shaped, Watched
<1>5. /\ Steady(b)
      /\ g \in Generations \ x.live /\ b.live = x.live \cup {g}
      /\ b.handle = x.handle /\ b.timers = x.timers /\ b.exiting = x.exiting
      /\ b.connected = x.connected /\ b.renewing = x.renewing
      /\ b.outbox = x.outbox \/ b.outbox = Append(x.outbox, "connect")
  BY <1>1, <1>2, <1>3, <1>4, InvFacts, StartFields
<1> HIDE DEF b, g
<1>6. Settled(agent') /\ Keeps(b, agent')
  BY <1>1, <1>5, CollectedSettles
<1>7. NoNewRenew(agent.outbox, agent'.outbox)
  <2>1. NoNewRenew(agent.outbox, agent.outbox)
    BY DEF NoNewRenew
  <2>2. NoNewRenew(agent.outbox, Append(agent.outbox, "connect"))
    BY <2>1, InvFacts, AppendNoRenew
  <2> QED
    BY <1>2, <1>5, <1>6, <2>1, <2>2 DEF Keeps
<1>8. OneRenewal'
  BY <1>1, <1>2, <1>5, <1>6, <1>7, QuietRenewal DEF Keeps
<1>9. ~Sole(agent)
  BY <1>0 DEF Sole
<1>10. agent.handle # None => ~agent.renewing /\ (bridge.up => bridge.heard)
  BY <1>0, <1>9 DEF IInv, Renewal, BridgeHears, NoTimerRenewing
<1>11. agent'.handle = agent.handle /\ agent'.renewing = agent.renewing
  BY <1>2, <1>5, <1>6 DEF Keeps
<1>12. BridgeHears' /\ NoTimerRenewing'
  BY <1>1, <1>10, <1>11 DEF BridgeHears, NoTimerRenewing
<1>13. RenewedLater'
  <2>1. ASSUME NEW i \in 1 .. Len(inbox), inbox[i] = "renewed"
        PROVE  agent.handle = None /\ (bridge.up => bridge.heard)
    <3>1. agent.renewing
      BY <2>1 DEF IInv, Renewal, OneRenewal, Answers
    <3>2. bridge.up => bridge.heard
      BY <2>1 DEF IInv, Renewal, RenewedLater
    <3> QED
      BY <1>10, <3>1, <3>2
  <2> QED
    BY <1>1, <1>11, <2>1 DEF RenewedLater
<1>14. OneThing'
  BY <1>0, <1>1, <1>2, <1>5, <1>6 DEF IInv, OneThing, Keeps
<1>15. TypeOK'
  BY <1>1, <1>6, InvFacts DEF TypeOK, Settled, Steady, Sound, Shaped
<1> QED
  BY <1>6, <1>8, <1>12, <1>13, <1>14, <1>15 DEF IInv, Renewal

LEMMA AskRenewalKeeps ==
  ASSUME IInv, AskRenewal
  PROVE  IInv'
<1> DEFINE s == Append(agent.outbox, "renew")
<1>1. /\ agent.timers = 0 /\ agent.renewing = FALSE
      /\ UNCHANGED <<inbox, bridge, calm, renewed>>
  BY InvFacts DEF AskRenewal
<1>2. agent' = [agent EXCEPT !.renewing = TRUE, !.outbox = s]
  BY InvFacts DEF AskRenewal, Send, Agent
<1>3. s \in Seq(Requests)
  BY InvFacts DEF Requests
<1> HIDE DEF s
<1>4. /\ Settled(agent')
      /\ agent'.live = agent.live /\ agent'.handle = agent.handle
      /\ agent'.timers = agent.timers /\ agent'.exiting = agent.exiting
      /\ agent'.renewing = TRUE /\ agent'.outbox = s
  <2>1. SameLink(agent, agent') /\ agent'.renewing = TRUE /\ agent'.outbox = s
    BY <1>2, <1>3, InvFacts DEF SameLink, Agent
  <2> QED
    BY <2>1, SameLinkSettles DEF SameLink, IInv
<1>5. TypeOK'
  BY <1>1, <1>4, InvFacts DEF TypeOK, Settled, Steady, Sound, Shaped
<1>6. /\ \A i \in 1 .. Len(agent.outbox) : agent.outbox[i] # "renew"
      /\ \A i \in 1 .. Len(inbox) : inbox[i] \notin Answers
  BY <1>1 DEF IInv, Renewal, OneRenewal
<1>7. \A i \in 1 .. Len(s) : s[i] = "renew" => i = Len(s)
  BY <1>6, InvFacts DEF s
<1>8. OneRenewal'
  BY <1>1, <1>4, <1>6, <1>7 DEF OneRenewal
<1>9. BridgeHears' /\ NoTimerRenewing' /\ OneThing'
  BY <1>1, <1>4 DEF IInv, Renewal, BridgeHears, NoTimerRenewing, OneThing, Sole
<1>10. RenewedLater'
  BY <1>1, <1>6 DEF RenewedLater, Answers
<1> QED
  BY <1>4, <1>5, <1>8, <1>9, <1>10 DEF IInv, Renewal

LEMMA AbandonedBridge ==
  ASSUME bridge \in [up : BOOLEAN, heard : BOOLEAN], NEW b \in Abandoned
  PROVE  b \in [up : BOOLEAN, heard : BOOLEAN]
<1> DEFINE up == {bridge.up} \cup
                   {agent.outbox[i] = "connect" : i \in DOMAIN agent.outbox}
<1>1. up \subseteq BOOLEAN
  OBVIOUS
<1>2. b \in [up : up, heard : {FALSE}]
  BY DEF Abandoned
<1> HIDE DEF up
<1> QED
  BY <1>1, <1>2

LEMMA SocketBreaksKeeps ==
  ASSUME IInv, NEW restart \in BOOLEAN, SocketBreaks(restart)
  PROVE  IInv'
<1> DEFINE x == [agent EXCEPT !.outbox = <<>>, !.renewing = FALSE]
           y == OnDisconnected(x)
           z == OnConnectAnswer(y, FALSE)
<1>1. /\ agent' = Collected(z) /\ inbox' = <<>> /\ UNCHANGED <<calm, renewed>>
      /\ bridge' \in IF restart THEN {[up |-> FALSE, heard |-> FALSE]} ELSE Abandoned
  BY DEF SocketBreaks
<1>2. SameLink(agent, x) /\ x.renewing = FALSE /\ x.outbox = <<>>
  <2>1. <<>> \in Seq(Requests)
    OBVIOUS
  <2> QED
    BY <2>1, InvFacts DEF SameLink, Agent
<1> HIDE DEF x
<1>3. Settled(x)
  BY <1>2, SameLinkSettles DEF IInv
<1>4. Steady(y) /\ Falls(x, y) /\ y.live = {}
  BY <1>3, DisconnectedFalls DEF Settled, Steady
<1> HIDE DEF y
<1>5. Steady(z) /\ Falls(y, z)
  BY <1>4, AnswerFalls
<1> HIDE DEF z
<1>6. Settled(agent') /\ Keeps(z, agent')
  BY <1>1, <1>5, CollectedSettles
<1>7. Falls(x, agent') /\ agent'.live = {}
  BY <1>4, <1>5, <1>6 DEF Falls, Keeps, Loses
<1>8. agent'.handle = None
  BY <1>6, <1>7 DEF Settled, Steady, Sound, Shaped
<1>9. bridge' \in [up : BOOLEAN, heard : BOOLEAN]
  <2>1. [up |-> FALSE, heard |-> FALSE] \in [up : BOOLEAN, heard : BOOLEAN]
    OBVIOUS
  <2> QED
    BY <1>1, <2>1, InvFacts, AbandonedBridge
<1>10. TypeOK'
  BY <1>1, <1>6, <1>9, InvFacts DEF TypeOK, Settled, Steady, Sound, Shaped
<1>11. OneRenewal'
  <2>1. agent'.outbox = <<>> \/ agent'.outbox = Append(<<>>, "close")
    BY <1>2, <1>7 DEF Falls, Keeps, Loses
  <2>2. \A i \in 1 .. Len(agent'.outbox) : agent'.outbox[i] # "renew"
    BY <2>1
  <2> QED
    BY <1>1, <2>2 DEF OneRenewal
<1>12. BridgeHears' /\ NoTimerRenewing'
  BY <1>8 DEF BridgeHears, NoTimerRenewing
<1>13. RenewedLater'
  BY <1>1 DEF RenewedLater
<1>14. OneThing'
  <2>1. CASE Keeps(x, agent')
    BY <1>1, <1>2, <2>1 DEF IInv, OneThing, Keeps, SameLink
  <2>2. CASE agent.live # {} /\ Loses(x, agent')
    BY <1>1, <1>2, <2>2 DEF IInv, OneThing, Loses, SameLink
  <2> QED
    BY <1>2, <1>7, <2>1, <2>2 DEF Falls, SameLink
<1> QED
  BY <1>6, <1>10, <1>11, <1>12, <1>13, <1>14 DEF IInv, Renewal

(* A new process is by itself, whatever the bridge is like.                *)
LEMMA NewProcessStarts ==
  ASSUME agent = NewProcess, inbox = <<>>, renewed = FALSE,
         calm \in BOOLEAN, bridge \in [up : BOOLEAN, heard : BOOLEAN]
  PROVE  IInv
<1>1. /\ Settled(agent) /\ agent.handle \in Generations /\ agent.live = {agent.handle}
      /\ agent.timers = 0 /\ agent.exiting = FALSE /\ agent.renewing = FALSE
      /\ NoNewRenew(<<>>, agent.outbox)
  BY NewFields
<1>2. TypeOK
  <2>1. agent \in Agent
    BY <1>1 DEF Settled, Steady, Sound, Shaped
  <2>2. <<>> \in Seq(Messages)
    OBVIOUS
  <2> QED
    BY <2>1, <2>2 DEF TypeOK
<1>3. OneRenewal
  BY <1>1 DEF OneRenewal, NoNewRenew
<1>4. BridgeHears /\ NoTimerRenewing
  BY <1>1 DEF BridgeHears, NoTimerRenewing, Sole
<1>5. RenewedLater
  BY DEF RenewedLater
<1>6. OneThing
  BY <1>1 DEF OneThing
<1> QED
  BY <1>1, <1>2, <1>3, <1>4, <1>5, <1>6 DEF IInv, Renewal

LEMMA RestartKeeps ==
  ASSUME IInv, ProcessDies \/ Terminate
  PROVE  IInv'
<1>1. /\ agent' = NewProcess /\ inbox' = <<>> /\ renewed' = FALSE /\ calm' = calm
      /\ bridge' \in Abandoned \cup {[up |-> FALSE, heard |-> FALSE]}
  BY DEF ProcessDies, Terminate, Restarted
<1>2. bridge' \in [up : BOOLEAN, heard : BOOLEAN]
  <2>1. [up |-> FALSE, heard |-> FALSE] \in [up : BOOLEAN, heard : BOOLEAN]
    OBVIOUS
  <2> QED
    BY <1>1, <2>1, InvFacts, AbandonedBridge
<1>3. calm' \in BOOLEAN
  BY <1>1, InvFacts
<1>4. (agent = NewProcess /\ inbox = <<>> /\ renewed = FALSE
         /\ calm \in BOOLEAN /\ bridge \in [up : BOOLEAN, heard : BOOLEAN])'
  BY <1>1, <1>2, <1>3
<1> QED
  BY <1>4, NewProcessStarts, PTL

(* What PrivSvc does: it takes a request, and pushes or answers t.         *)
LEMMA BridgeKeeps ==
  ASSUME IInv, SameLink(agent, agent'), agent'.renewing = agent.renewing,
         calm' \in BOOLEAN, renewed' = renewed,
         bridge' \in [up : BOOLEAN, heard : BOOLEAN],
         (bridge'.up => bridge'.heard) \/ bridge' = bridge,
         NEW t \in Seq(Messages), inbox' = inbox \o t,
         \/ agent'.outbox = agent.outbox
         \/ agent.outbox # <<>> /\ agent'.outbox = Tail(agent.outbox),
         \A i \in 1 .. Len(t) : t[i] \in Answers =>
           /\ i = Len(t)
           /\ agent.outbox # <<>> /\ Head(agent.outbox) = "renew"
           /\ agent'.outbox = Tail(agent.outbox),
         \A i \in 1 .. Len(t) : t[i] = "renewed" =>
           /\ bridge.up /\ ~bridge'.up
           /\ bridge.heard => i > 1 /\ t[1] = "disconnected"
  PROVE  IInv'
<1> DEFINE o == agent.outbox
           n == Len(inbox)
<1>1. /\ inbox' \in Seq(Messages) /\ n \in Nat /\ Len(t) \in Nat /\ Len(inbox') = n + Len(t)
      /\ \A i \in 1 .. n : inbox'[i] = inbox[i]
      /\ \A i \in (n + 1) .. (n + Len(t)) : inbox'[i] = t[i - n]
  BY InvFacts
<1>2. Settled(agent')
  BY SameLinkSettles DEF IInv
<1>3. /\ agent'.handle = agent.handle /\ agent'.timers = agent.timers
      /\ agent'.live = agent.live /\ agent'.exiting = agent.exiting
      /\ Sole(agent') <=> Sole(agent)
  BY DEF SameLink, Sole
<1>4. TypeOK'
  BY <1>1, <1>2, InvFacts DEF TypeOK, Settled, Steady, Sound, Shaped
<1>5. BridgeHears' /\ NoTimerRenewing' /\ OneThing'
  BY <1>3 DEF IInv, Renewal, BridgeHears, NoTimerRenewing, OneThing
<1>6. OneRenewal'
  <2> DEFINE k == IF agent'.outbox = o THEN 0 ELSE 1
  <2>1. /\ k \in {0, 1} /\ Len(o) \in Nat /\ Len(agent'.outbox) = Len(o) - k
        /\ \A i \in 1 .. Len(agent'.outbox) : agent'.outbox[i] = o[i + k]
    <3>1. o \in Seq(Requests)
      BY InvFacts
    <3>2. CASE agent'.outbox = o
      BY <3>1, <3>2
    <3>3. CASE agent'.outbox # o
      <4>1. o # <<>> /\ agent'.outbox = Tail(o) /\ k = 1
        BY <3>3
      <4>2. /\ Len(o) \in Nat /\ Len(Tail(o)) = Len(o) - 1
            /\ \A i \in 1 .. Len(Tail(o)) : Tail(o)[i] = o[i + 1]
        BY <3>1, <4>1
      <4> HIDE DEF k, o
      <4> QED
        BY <4>1, <4>2
    <3> QED
      BY <3>2, <3>3
  <2>2. \A i \in 1 .. Len(t) : t[i] \in Answers =>
          k = 1 /\ 1 \in 1 .. Len(o) /\ o[1] = "renew"
    <3>1. o \in Seq(Requests)
      BY InvFacts
    <3>2. Tail(o) # o \/ o = <<>>
      <4>1. o # <<>> => Len(Tail(o)) = Len(o) - 1 /\ Len(o) \in Nat
        BY <3>1
      <4>2. o # <<>> => Len(Tail(o)) # Len(o)
        BY <4>1
      <4> HIDE DEF o
      <4> QED
        BY <4>2
    <3>3. o # <<>> => 1 \in 1 .. Len(o) /\ Head(o) = o[1]
      BY <3>1
    <3> QED
      BY <3>2, <3>3
  <2> HIDE DEF k, n, o
  <2>3. o = agent.outbox /\ n = Len(inbox)
    BY DEF o, n
  <2>4. ASSUME NEW i \in 1 .. Len(agent'.outbox), agent'.outbox[i] = "renew"
        PROVE  /\ agent'.renewing
               /\ \A j \in 1 .. Len(agent'.outbox) : agent'.outbox[j] = "renew" => j = i
               /\ \A j \in 1 .. Len(inbox') : inbox'[j] \notin Answers
    <3>1. \A j \in 1 .. Len(agent'.outbox) : j + k \in 1 .. Len(o)
      BY <2>1
    <3>2. o[i + k] = "renew" /\ i + k \in 1 .. Len(o)
      BY <2>1, <2>4, <3>1
    <3>3. /\ agent.renewing
          /\ \A j \in 1 .. Len(o) : o[j] = "renew" => j = i + k
          /\ \A j \in 1 .. n : inbox[j] \notin Answers
      BY <2>3, <3>2 DEF IInv, Renewal, OneRenewal
    <3>4. \A j \in 1 .. Len(agent'.outbox) : agent'.outbox[j] = "renew" => j = i
      BY <2>1, <3>1, <3>3
    <3>5. \A j \in 1 .. Len(t) : t[j] \notin Answers
      BY <2>1, <2>2, <3>3
    <3>6. \A j \in 1 .. Len(inbox') : inbox'[j] \notin Answers
      BY <1>1, <3>3, <3>5
    <3> QED
      BY <3>3, <3>4, <3>6
  <2>5. ASSUME NEW i \in 1 .. Len(inbox'), inbox'[i] \in Answers
        PROVE  /\ agent'.renewing
               /\ \A j \in 1 .. Len(inbox') : inbox'[j] \in Answers => j = i
    <3>1. CASE \A j \in 1 .. Len(t) : t[j] \notin Answers
      <4>1. \A j \in 1 .. Len(inbox') : inbox'[j] \in Answers =>
              j \in 1 .. n /\ inbox[j] \in Answers
        <5>1. ASSUME NEW j \in 1 .. Len(inbox'), j \notin 1 .. n
              PROVE  inbox'[j] \notin Answers
          <6>1. j \in (n + 1) .. (n + Len(t)) /\ j - n \in 1 .. Len(t)
            BY <1>1, <5>1
          <6> QED
            BY <1>1, <3>1, <6>1
        <5>2. \A j \in 1 .. n : inbox'[j] = inbox[j]
          BY <1>1
        <5> QED
          BY <5>1, <5>2
      <4> QED
        BY <2>3, <2>5, <4>1 DEF IInv, Renewal, OneRenewal
    <3>2. CASE \E j \in 1 .. Len(t) : t[j] \in Answers
      <4>1. 1 \in 1 .. Len(o) /\ o[1] = "renew"
        BY <2>2, <3>2
      <4>2. agent.renewing /\ \A j \in 1 .. n : inbox[j] \notin Answers
        BY <2>3, <4>1 DEF IInv, Renewal, OneRenewal
      <4>3. ASSUME NEW j \in 1 .. Len(inbox'), inbox'[j] \in Answers
            PROVE  j = n + Len(t)
        <5>1. j \notin 1 .. n
          BY <1>1, <4>2, <4>3
        <5>2. j - n \in 1 .. Len(t) /\ inbox'[j] = t[j - n]
          BY <1>1, <5>1
        <5>3. j - n = Len(t)
          BY <4>3, <5>2
        <5> QED
          BY <1>1, <5>2, <5>3
      <4> QED
        BY <2>5, <4>2, <4>3
    <3> QED
      BY <3>1, <3>2
  <2> QED
    BY <2>4, <2>5 DEF OneRenewal
<1>7. RenewedLater'
  <2>1. ASSUME NEW i \in 1 .. Len(inbox'), inbox'[i] = "renewed"
        PROVE  /\ bridge'.up => bridge'.heard
               /\ \/ agent.handle = None \/ Sole(agent)
                  \/ \E j \in 1 .. (i - 1) : inbox'[j] = "disconnected"
    <3>1. CASE i \in 1 .. n
      <4>1. /\ bridge.up => bridge.heard
            /\ \/ agent.handle = None \/ Sole(agent)
               \/ \E j \in 1 .. (i - 1) : inbox[j] = "disconnected"
        BY <1>1, <2>1, <3>1 DEF IInv, Renewal, RenewedLater
      <4>2. \A j \in 1 .. (i - 1) : inbox'[j] = inbox[j]
        BY <1>1, <3>1
      <4> QED
        BY <4>1, <4>2
    <3>2. CASE i \notin 1 .. n
      <4>1. i - n \in 1 .. Len(t) /\ t[i - n] = "renewed"
        BY <1>1, <2>1, <3>2
      <4>2. bridge.up /\ ~bridge'.up /\ (bridge.heard => i - n > 1 /\ t[1] = "disconnected")
        BY <4>1
      <4>3. CASE bridge.heard
        <5>1. n + 1 \in 1 .. (i - 1) /\ inbox'[n + 1] = "disconnected"
          BY <1>1, <4>1, <4>2, <4>3
        <5> QED
          BY <4>2, <5>1
      <4>4. CASE ~bridge.heard
        BY <4>2, <4>4 DEF IInv, Renewal, BridgeHears
      <4> QED
        BY <4>3, <4>4
    <3> QED
      BY <3>1, <3>2
  <2> QED
    BY <1>3, <2>1 DEF RenewedLater
<1> QED
  BY <1>2, <1>4, <1>5, <1>6, <1>7 DEF IInv, Renewal

LEMMA Pushes ==
  ASSUME NEW x \in Messages, NEW y \in Messages
  PROVE  /\ <<>> \in Seq(Messages) /\ <<x>> \in Seq(Messages) /\ <<x, y>> \in Seq(Messages)
         /\ <<x>> \o <<y>> = <<x, y>> /\ <<x>> \o <<>> = <<x>> /\ <<>> \o <<>> = <<>>
         /\ Pushed(<<x>>) \in {<<>>, <<x>>}
<1>1. <<x>> \in Seq(Messages) /\ <<x, y>> \in Seq(Messages)
  OBVIOUS
<1>2. <<>> \in Seq(Messages)
  OBVIOUS
<1>3. <<x>> \o <<y>> = <<x, y>>
  <2> DEFINE a == <<x>>
             b == <<y>>
             c == <<x, y>>
  <2>1. /\ a \in Seq(Messages) /\ Len(a) = 1 /\ a[1] = x
        /\ b \in Seq(Messages) /\ Len(b) = 1 /\ b[1] = y
        /\ c \in Seq(Messages) /\ Len(c) = 2 /\ c[1] = x /\ c[2] = y
    OBVIOUS
  <2> HIDE DEF a, b, c
  <2>2. a \o b \in Seq(Messages) /\ Len(a \o b) = 2
    BY <2>1, ConcatProperties
  <2>3. \A i \in 1 .. 2 : (a \o b)[i] = c[i]
    BY <2>1, ConcatProperties
  <2>4. a \o b = c
    BY <2>1, <2>2, <2>3, SeqEqual
  <2> QED
    BY <2>4 DEF a, b, c
<1>4. <<x>> \o <<>> = <<x>> /\ <<>> \o <<>> = <<>>
  BY <1>1, <1>2, ConcatEmptySeq
<1>5. Pushed(<<x>>) \in {<<>>, <<x>>}
  BY Zenon DEF Pushed
<1> QED
  BY <1>1, <1>2, <1>3, <1>4, <1>5

(* The teardown is pushed before the answer, if anybody hears the bridge.  *)
LEMMA TeardownNews ==
  ASSUME IInv, NEW m \in Seq(Messages), TeardownBridge(m)
  PROVE  /\ ~bridge'.up /\ bridge' \in [up : BOOLEAN, heard : BOOLEAN]
         /\ inbox' = inbox \o (IF bridge.up /\ bridge.heard
                              THEN <<"disconnected">> \o m ELSE m)
<1> DEFINE p == Pushed(<<"disconnected">>)
<1>1. "disconnected" \in Messages
  BY DEF Messages
<1>2. p \in Seq(Messages) /\ inbox \in Seq(Messages)
  BY <1>1, Pushes, InvFacts
<1>3. inbox' = inbox \o (p \o m)
  <2>1. inbox' = (inbox \o p) \o m
    BY DEF TeardownBridge
  <2> HIDE DEF p
  <2> QED
    BY <1>2, <2>1, ConcatAssociative
<1>4. <<>> \o m = m
  BY ConcatEmptySeq
<1>5. ~bridge'.up /\ bridge' \in [up : BOOLEAN, heard : BOOLEAN]
  BY InvFacts DEF TeardownBridge
<1> QED
  BY <1>3, <1>4, <1>5, Zenon DEF Pushed

LEMMA StreamFailsKeeps ==
  ASSUME IInv, NEW error \in BOOLEAN, StreamFails(error)
  PROVE  IInv'
<1> DEFINE m == IF error THEN Pushed(<<"disconnected">>) ELSE <<>>
           t == IF bridge.up /\ bridge.heard THEN <<"disconnected">> \o m ELSE m
<1>1. TeardownBridge(m) /\ UNCHANGED <<agent, calm, renewed>>
  BY DEF StreamFails
<1>0. "disconnected" \in Messages
  BY DEF Messages
<1>2. m \in {<<>>, <<"disconnected">>} /\ m \in Seq(Messages)
  <2>1. Pushed(<<"disconnected">>) \in {<<>>, <<"disconnected">>}
    BY <1>0, Pushes
  <2>2. m \in {<<>>, <<"disconnected">>}
    BY <2>1
  <2> HIDE DEF m
  <2> QED
    BY <1>0, <2>2, Pushes
<1> HIDE DEF m
<1>3. t \in {<<>>, <<"disconnected">>, <<"disconnected", "disconnected">>}
  <2>1. <<"disconnected">> \o m \in {<<"disconnected">>, <<"disconnected", "disconnected">>}
    BY <1>0, <1>2, Pushes
  <2> QED
    BY <1>2, <2>1
<1>4. t \in Seq(Messages) /\ \A i \in 1 .. Len(t) : t[i] = "disconnected"
  <2> HIDE DEF t
  <2>1. t \in Seq(Messages)
    BY <1>0, <1>3, Pushes
  <2>2. \A i \in 1 .. Len(t) : t[i] = "disconnected"
    BY <1>3
  <2> QED
    BY <2>1, <2>2
<1>5. /\ ~bridge'.up /\ bridge' \in [up : BOOLEAN, heard : BOOLEAN]
      /\ inbox' = inbox \o t
  BY <1>1, <1>2, TeardownNews
<1> HIDE DEF t
<1>6. SameLink(agent, agent')
  BY <1>1, InvFacts DEF SameLink
<1> QED
  BY <1>1, <1>4, <1>5, <1>6, InvFacts, BridgeKeeps DEF Answers

LEMMA ServerDisconnectsKeeps ==
  ASSUME IInv, ServerDisconnects
  PROVE  IInv'
<1> DEFINE t == Pushed(<<"serverDisconnect">>)
<1>1. inbox' = inbox \o t /\ UNCHANGED <<agent, bridge, calm, renewed>>
  BY DEF ServerDisconnects
<1>0. "serverDisconnect" \in Messages
  BY DEF Messages
<1>2. t \in Seq(Messages) /\ \A i \in 1 .. Len(t) : t[i] = "serverDisconnect"
  <2>1. t \in {<<>>, <<"serverDisconnect">>}
    BY <1>0, Pushes
  <2> HIDE DEF t
  <2>2. t \in Seq(Messages)
    BY <1>0, <2>1, Pushes
  <2> QED
    BY <2>1, <2>2
<1> HIDE DEF t
<1>3. SameLink(agent, agent')
  BY <1>1, InvFacts DEF SameLink
<1> QED
  BY <1>1, <1>2, <1>3, InvFacts, BridgeKeeps DEF Answers

LEMMA ServeKeeps ==
  ASSUME IInv, ServeRequest
  PROVE  IInv'
<1> DEFINE r == Head(agent.outbox)
           P == bridge.up /\ bridge.heard
<1>0. agent.outbox # <<>> /\ agent.outbox \in Seq(Requests) /\ r \in Requests
  BY InvFacts DEF ServeRequest
<1>1. /\ SameLink(agent, agent') /\ agent'.renewing = agent.renewing
      /\ agent'.outbox = Tail(agent.outbox)
  <2>1. Tail(agent.outbox) \in Seq(Requests)
    BY <1>0
  <2>2. agent' = [agent EXCEPT !.outbox = Tail(agent.outbox)]
    BY InvFacts DEF ServeRequest, Agent
  <2> QED
    BY <2>1, <2>2, InvFacts DEF SameLink, Agent
<1>2. calm' \in BOOLEAN /\ renewed' = renewed
  BY InvFacts DEF ServeRequest
(* The news carries no answer to a renewal. *)
<1>3. ASSUME NEW t \in Seq(Messages), inbox' = inbox \o t,
             \A i \in 1 .. Len(t) : t[i] \notin Answers,
             bridge' \in [up : BOOLEAN, heard : BOOLEAN],
             (bridge'.up => bridge'.heard) \/ bridge' = bridge
      PROVE  IInv'
  <2>1. \A i \in 1 .. Len(t) : t[i] # "renewed"
    BY <1>3 DEF Answers
  <2> QED
    BY <1>0, <1>1, <1>2, <1>3, <2>1, BridgeKeeps
<1>4. CASE r = "connect"
  <2>1. BridgeConnect
    BY <1>0, <1>4 DEF ServeRequest
  <2>2. CASE bridge.up /\ inbox' = Append(inbox, "ok") /\ UNCHANGED bridge
    <3> DEFINE t == <<"ok">>
    <3>1. t \in Seq(Messages) /\ \A i \in 1 .. Len(t) : t[i] \notin Answers
      BY DEF Messages, Answers
    <3>2. inbox' = inbox \o t
      BY <2>2, InvFacts
    <3> HIDE DEF t
    <3> QED
      BY <1>3, <2>2, <3>1, <3>2, InvFacts
  <2>3. CASE /\ bridge' = [up |-> TRUE, heard |-> TRUE]
             /\ inbox' = inbox \o <<"connected", "ok">>
    <3> DEFINE t == <<"connected", "ok">>
    <3>1. t \in Seq(Messages) /\ \A i \in 1 .. Len(t) : t[i] \notin Answers
      BY DEF Messages, Answers
    <3>2. bridge' \in [up : BOOLEAN, heard : BOOLEAN] /\ bridge'.heard
      BY <2>3
    <3>3. inbox' = inbox \o t
      BY <2>3
    <3> HIDE DEF t
    <3> QED
      BY <1>3, <3>1, <3>2, <3>3
  <2>4. CASE inbox' = Append(inbox, "fail") /\ UNCHANGED bridge
    <3> DEFINE t == <<"fail">>
    <3>1. t \in Seq(Messages) /\ \A i \in 1 .. Len(t) : t[i] \notin Answers
      BY DEF Messages, Answers
    <3>2. inbox' = inbox \o t
      BY <2>4, InvFacts
    <3> HIDE DEF t
    <3> QED
      BY <1>3, <2>4, <3>1, <3>2, InvFacts
  <2> QED
    BY <2>1, <2>2, <2>3, <2>4 DEF BridgeConnect
<1>5. CASE r = "close"
  <2> DEFINE m == <<>>
             t == IF P THEN <<"disconnected">> \o m ELSE m
  <2>0. "disconnected" \in Messages
    BY DEF Messages
  <2>1. TeardownBridge(m) /\ m \in Seq(Messages)
    <3>1. TeardownBridge(<<>>)
      BY <1>0, <1>5 DEF ServeRequest
    <3> QED
      BY <2>0, <3>1, Pushes
  <2>2. t \in {<<>>, <<"disconnected">>}
    BY <2>0, Pushes
  <2>3. t \in Seq(Messages) /\ \A i \in 1 .. Len(t) : t[i] \notin Answers
    <3> HIDE DEF t, m
    <3>1. t \in Seq(Messages)
      BY <2>0, <2>2, Pushes
    <3>2. \A i \in 1 .. Len(t) : t[i] \notin Answers
      BY <2>2 DEF Answers
    <3> QED
      BY <3>1, <3>2
  <2>4. /\ ~bridge'.up /\ bridge' \in [up : BOOLEAN, heard : BOOLEAN]
        /\ inbox' = inbox \o t
    <3> HIDE DEF m
    <3> QED
      BY <2>1, TeardownNews
  <2> HIDE DEF t
  <2> QED
    BY <1>3, <2>3, <2>4
<1>6. CASE r = "renew"
  <2>1. BridgeRenew
    BY <1>0, <1>6 DEF ServeRequest
  <2>2. CASE bridge.up /\ TeardownBridge(<<"renewed">>)
    <3> DEFINE m == <<"renewed">>
               t == IF P THEN <<"disconnected">> \o m ELSE m
    <3>1. m \in Seq(Messages)
      BY DEF Messages
    <3>2. t = IF P THEN <<"disconnected", "renewed">> ELSE <<"renewed">>
      <4>1. "disconnected" \in Messages /\ "renewed" \in Messages
        BY DEF Messages
      <4>2. <<"disconnected">> \o <<"renewed">> = <<"disconnected", "renewed">>
        BY <4>1, Pushes
      <4> QED
        BY <4>2
    <3>3. /\ t \in Seq(Messages)
          /\ \A i \in 1 .. Len(t) : t[i] \in Answers => i = Len(t)
          /\ \A i \in 1 .. Len(t) : t[i] = "renewed" => (P => i > 1 /\ t[1] = "disconnected")
      BY <3>2 DEF Messages, Answers
    <3>4. /\ ~bridge'.up /\ bridge' \in [up : BOOLEAN, heard : BOOLEAN]
          /\ inbox' = inbox \o t
      <4> HIDE DEF m
      <4> QED
        BY <2>2, <3>1, TeardownNews DEF m
    <3> HIDE DEF t
    <3> QED
      BY <1>0, <1>1, <1>2, <1>6, <2>2, <3>3, <3>4, BridgeKeeps
  <2>3. CASE inbox' = Append(inbox, "notRenewed") /\ UNCHANGED bridge
    <3> DEFINE t == <<"notRenewed">>
    <3>1. t \in Seq(Messages) /\ Len(t) = 1 /\ t[1] = "notRenewed"
      BY DEF Messages
    <3>2. inbox' = inbox \o t
      BY <2>3, InvFacts
    <3> HIDE DEF t
    <3>3. \A i \in 1 .. Len(t) : i = Len(t) /\ t[i] # "renewed"
      BY <3>1
    <3> QED
      BY <1>0, <1>1, <1>2, <1>6, <2>3, <3>1, <3>2, <3>3, InvFacts, BridgeKeeps
  <2> QED
    BY <2>1, <2>2, <2>3 DEF BridgeRenew
<1> QED
  BY <1>0, <1>4, <1>5, <1>6 DEF Requests

(* Nothing but the calm has changed. *)
LEMMA CalmKeeps ==
  ASSUME IInv, UNCHANGED <<agent, inbox, bridge, renewed>>, calm' \in BOOLEAN
  PROVE  IInv'
BY DEF IInv, TypeOK, Renewal, OneRenewal, BridgeHears, NoTimerRenewing, RenewedLater, OneThing

-----------------------------------------------------------------------------
LEMMA InvInit == ASSUME Init PROVE IInv
<1>1. bridge \in [up : BOOLEAN, heard : BOOLEAN]
  BY DEF Init
<1> QED
  BY <1>1, NewProcessStarts DEF Init

LEMMA InvNext == ASSUME IInv, [Next]_vars PROVE IInv'
<1>1. CASE Receive
  BY <1>1, ReceiveNewsKeeps, NotRenewedKeeps, RenewedKeeps DEF Answers
<1>2. CASE ReconnectTimerFires
  BY <1>2, TimerKeeps
<1>3. CASE \E g \in Generations : HeartbeatFails(g) \/ WatchdogFires(g)
  BY <1>3, HeartbeatKeeps
<1>4. CASE \E c \in Clients : ConnectTimesOut(c)
  BY <1>4, TimeOutKeeps
<1>5. CASE AskRenewal
  BY <1>5, AskRenewalKeeps
<1>6. CASE \E restart \in BOOLEAN : SocketBreaks(restart)
  BY <1>6, SocketBreaksKeeps
<1>7. CASE ProcessDies \/ Terminate
  BY <1>7, RestartKeeps
<1>8. CASE ServeRequest
  BY <1>8, ServeKeeps
<1>9. CASE \E error \in BOOLEAN : StreamFails(error)
  BY <1>9, StreamFailsKeeps
<1>10. CASE ServerDisconnects
  BY <1>10, ServerDisconnectsKeeps
<1>11. CASE CalmsDown
  BY <1>11, CalmKeeps DEF CalmsDown
<1>12. CASE UNCHANGED vars
  BY <1>12, CalmKeeps, InvFacts DEF vars
<1> QED
  BY <1>1, <1>2, <1>3, <1>4, <1>5, <1>6, <1>7, <1>8, <1>9, <1>10, <1>11, <1>12 DEF Next

LEMMA InvAlways == Spec => []IInv
<1>1. Init => IInv
  BY InvInit
<1>2. IInv /\ [Next]_vars => IInv'
  BY InvNext
<1> QED
  BY <1>1, <1>2, PTL DEF Spec

-----------------------------------------------------------------------------
(* The agent's record, the messages and the bridge keep their types; the   *)
(* breaker's counter never passes its limit (grpc-stream.ts:2416).         *)
THEOREM TypeCorrect == Spec => []TypeOK
<1>1. IInv => TypeOK
  BY DEF IInv
<1> QED
  BY <1>1, InvAlways, PTL

(* No generation waits for the events of a client that pushes do not reach *)
(* or that the next attempt would not use.                                 *)
THEOREM ListenersAreHeard == Spec => []ListenersHear
<1>1. IInv => ListenersHear
  BY DEF IInv, Settled, Steady, Sound, Shaped, Watched, ListenersHear
<1> QED
  BY <1>1, InvAlways, PTL

(* Whatever is live listens: it can be stopped by the stream's events.     *)
THEOREM NobodyIsOrphaned == Spec => []NoOrphans
<1>1. IInv => NoOrphans
  BY DEF IInv, Settled, Steady, Sound, Shaped, NoOrphans
<1> QED
  BY <1>1, InvAlways, PTL

(* Until a certificate is renewed there is one generation, or one          *)
(* reconnect that is due, or the exit.                                     *)
THEOREM AttemptsAreSingle == Spec => []OneAttempt
<1>1. IInv => OneAttempt
  <2> SUFFICES ASSUME IInv, ~renewed
               PROVE  Cardinality(agent.live) + agent.timers
                        + (IF agent.exiting THEN 1 ELSE 0) = 1
    BY DEF OneAttempt
  <2>1. CASE \E g \in Generations :
               agent.live = {g} /\ agent.timers = 0 /\ ~agent.exiting
    BY <2>1, FS_Singleton
  <2>2. CASE agent.live = {} /\ agent.timers = 1 /\ ~agent.exiting
    BY <2>2, FS_EmptySet
  <2>3. CASE agent.live = {} /\ agent.timers = 0 /\ agent.exiting
    BY <2>3, FS_EmptySet
  <2> QED
    BY <2>1, <2>2, <2>3 DEF IInv, OneThing
<1> QED
  BY <1>1, InvAlways, PTL

(* The reconnecting flag, which keeps further losses from scheduling a     *)
(* reconnect, is up only while one is scheduled or the process exits.      *)
THEOREM ReconnectsAreScheduled == Spec => []ReconnectingIsScheduled
<1>1. IInv => ReconnectingIsScheduled
  BY DEF IInv, Settled, Steady, Sound, Shaped, Due, ReconnectingIsScheduled
<1> QED
  BY <1>1, InvAlways, PTL

(* There is always somebody who will notice that the stream is gone.       *)
THEOREM SomebodyNotices == Spec => []NeverAbandoned
<1>1. IInv => NeverAbandoned
  <2> SUFFICES ASSUME IInv PROVE NeverAbandoned
    OBVIOUS
  <2>1. CASE agent.live = {}
    BY <2>1 DEF IInv, Settled, Steady, Sound, Due, NeverAbandoned
  <2>2. CASE agent.live # {}
    BY <2>2 DEF IInv, Settled, Steady, Sound, Shaped, Watched, NeverAbandoned
  <2> QED
    BY <2>1, <2>2
<1> QED
  BY <1>1, InvAlways, PTL
==============================================================================
