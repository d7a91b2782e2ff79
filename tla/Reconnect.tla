------------------------------ MODULE Reconnect ------------------------------
(***************************************************************************)
(* How the agent keeps one stream to the control plane.  PrivSvc owns the  *)
(* connection (the bridge); the agent has a client object for it and, per  *)
(* attempt, a generation of listeners and timers around that client.       *)
(*   src/src/transport/grpc-stream.ts (startGrpcStream and its closures)   *)
(*   src/src/transport/grpc-client.ts (createGrpcClient)                   *)
(*   src/src/priv/privsvc-client-linux.ts (calls by id, socket loss)       *)
(*   src/src/core/service.ts (the stop handle, certificate renewal)        *)
(*   src/privsvc/linux/src/grpc-bridge.ts, router.ts (macOS has the same)  *)
(*                                                                         *)
(* The agent is one record, because its handlers call each other in the    *)
(* same turn of the event loop: each handler is an operator from a record  *)
(* to a record, and an action applies one.  Requests to PrivSvc and what   *)
(* comes back are two sequences, as on the socket.  Pushes carry no        *)
(* identity: they reach the client whose callback is in the slot, and all  *)
(* connect calls share one request id.                                     *)
(***************************************************************************)
EXTENDS Integers, Sequences, FiniteSets

CONSTANTS Clients,       \* objects createGrpcClient builds, used again when
                         \* nothing refers to them any more
          Generations,   \* the same for startGrpcStream
          None,
          MaxAttempts,   \* MAX_CONSECUTIVE_RECONNECT_ATTEMPTS, 30 in the code
          MaxQueue       \* bound: messages on the socket in each direction

ASSUME NoneAssumption == None \notin Clients \cup Generations
ASSUME BoundsAssumption == MaxAttempts \in Nat \ {0} /\ MaxQueue \in Nat
(* A process can build its first client and its first generation.          *)
ASSUME FirstAssumption == Clients # {} /\ Generations # {}

VARIABLES agent,    \* the process: see Agent
          inbox,    \* pushes and answers on their way to the agent
          bridge,   \* up: it has a stream; heard: its push sink is a live socket
          calm,     \* history: nothing disturbs the link any more
          renewed   \* history: a certificate has been renewed in this process

vars == <<agent, inbox, bridge, calm, renewed>>

Requests == {"connect", "close", "renew"}
Messages == {"connected", "disconnected", "serverDisconnect",
             "ok", "fail", "renewed", "notRenewed"}

Agent ==
  [live : SUBSET Generations,          \* not stopped
   listening : SUBSET Generations,     \* its listeners are on its stream
   beating : SUBSET Generations,       \* heartbeat and watchdog are armed
   client : [Generations -> Clients \cup {None}],
   handle : Generations \cup {None},   \* stopGrpcStream, None once it is stopped
   timers : Nat,                       \* reconnect timers that have not fired
   reconnecting : BOOLEAN,
   attempts : 0 .. MaxAttempts,
   exiting : BOOLEAN,                  \* the breaker has asked for the exit
   cached : Clients \cup {None},       \* ctx.__grpcClientInstance
   slot : Clients \cup {None},         \* priv.__currentPushCallback
   connected : SUBSET Clients,
   emitted : SUBSET Clients,           \* connectedEmitted
   asking : SUBSET Clients,            \* grpc.connect is being awaited
   pending : Clients \cup {None},      \* who is registered under "grpc-connect"
   renewing : BOOLEAN,                 \* certRenewalRunning
   outbox : Seq(Requests)]             \* written to the socket, not yet read

(* Type invariant. *)
TypeOK ==
  /\ agent \in Agent
  /\ inbox \in Seq(Messages)
  /\ bridge \in [up : BOOLEAN, heard : BOOLEAN]
  /\ calm \in BOOLEAN /\ renewed \in BOOLEAN

-----------------------------------------------------------------------------
(* The client (grpc-client.ts).                                            *)

Unused(a) ==
  Clients \ ({a.cached, a.slot, a.pending} \cup a.asking \cup
             {a.client[g] : g \in a.live})
Free(a) == Generations \ a.live
Send(a, request) == [a EXCEPT !.outbox = Append(@, request)]
ListenersOf(a, c) == {g \in a.listening : a.client[g] = c}

(* What a client that nothing refers to has in its closure is of no        *)
(* consequence.                                                            *)
Collected(a) ==
  [a EXCEPT !.connected = @ \ Unused(a), !.emitted = @ \ Unused(a)]

InvalidateCachedClient(a, c) ==
  [a EXCEPT !.cached = IF @ = c THEN None ELSE @]

(* Mutant: the first callback keeps the slot. *)
FirstKeepsSlot(a) ==
  IF a.cached # None THEN a
  ELSE LET c == CHOOSE c \in Unused(a) : TRUE
       IN  [a EXCEPT !.cached = c, !.slot = IF @ = None THEN c ELSE @]

(* The cached client, or a new one, whose callback takes over the slot. *)
CreateGrpcClient(a) ==
  IF a.cached # None THEN a
  ELSE LET c == CHOOSE c \in Unused(a) : TRUE
       IN  [a EXCEPT !.cached = c, !.slot = c]

(* Connect() and the ensureConnected it starts. *)
Connect(a, c) ==
  IF c \in a.connected \cup a.asking THEN a
  ELSE Send([a EXCEPT !.asking = @ \cup {c}, !.pending = c], "connect")

(* close(), that is stream.end(): nobody is listening any more when it     *)
(* emits "end".                                                            *)
Close(a, c) ==
  Send([InvalidateCachedClient(a, c) EXCEPT !.connected = @ \ {c}], "close")

-----------------------------------------------------------------------------
(* A generation (startGrpcStream).                                         *)

(* Mutant: the flag is left up. *)
FlagStaysUp(a) ==
  LET b == CreateGrpcClient(a)
      g == CHOOSE g \in Free(a) : TRUE
  IN  Connect([b EXCEPT !.live = @ \cup {g}, !.listening = @ \cup {g},
                        !.client[g] = b.cached], b.cached)

StartGrpcStream(a) ==
  LET b == CreateGrpcClient(a)
      g == CHOOSE g \in Free(a) : TRUE
  IN  Connect([b EXCEPT !.reconnecting = FALSE,
                        !.live = @ \cup {g}, !.listening = @ \cup {g},
                        !.client[g] = b.cached], b.cached)

(* stop() of each of gs.  removeAllListeners also removes the listeners of *)
(* any other generation on the same stream.                                *)
Stop(a, gs) ==
  LET streams == {a.client[g] : g \in gs}
  IN  [a EXCEPT !.live = @ \ gs, !.beating = @ \ gs,
                !.listening = {g \in @ : a.client[g] \notin streams},
                !.client = [g \in Generations |->
                              IF g \in gs THEN None ELSE @[g]],
                !.handle = IF @ \in gs THEN None ELSE @]

(* Mutants: the client stays cached; no return after the breaker; the      *)
(* breaker one attempt late.                                               *)
ClientNotClosed(a, c) ==
  IF a.reconnecting THEN a
  ELSE LET b == [a EXCEPT !.reconnecting = TRUE,
                       !.attempts = IF @ < MaxAttempts THEN @ + 1 ELSE @]
       IN  IF b.attempts = MaxAttempts
           THEN [b EXCEPT !.exiting = TRUE]
           ELSE [b EXCEPT !.timers = @ + 1]

NoReturnAfterBreaker(a, c) ==
  IF a.reconnecting THEN a
  ELSE LET b == [Close(a, c) EXCEPT !.reconnecting = TRUE,
                       !.attempts = IF @ < MaxAttempts THEN @ + 1 ELSE @]
       IN  [b EXCEPT !.exiting = @ \/ b.attempts = MaxAttempts,
                     !.timers = @ + 1]

BreakerOneLate(a, c) ==
  IF a.reconnecting THEN a
  ELSE LET b == [Close(a, c) EXCEPT !.reconnecting = TRUE, !.attempts = @ + 1]
       IN  IF b.attempts > MaxAttempts
           THEN [b EXCEPT !.exiting = TRUE]
           ELSE [b EXCEPT !.timers = @ + 1]

ScheduleReconnect(a, c) ==
  IF a.reconnecting THEN a
  ELSE LET b == [Close(a, c) EXCEPT !.reconnecting = TRUE,
                       !.attempts = IF @ < MaxAttempts THEN @ + 1 ELSE @]
       IN  IF b.attempts = MaxAttempts
           THEN [b EXCEPT !.exiting = TRUE]
           ELSE [b EXCEPT !.timers = @ + 1]

(* "error" or "end" on the stream of c.  The listeners of an event are     *)
(* fixed when it is emitted: all of them run, and without any it is lost.  *)
Emit(a, c) ==
  LET gs == ListenersOf(a, c)
  IN  IF gs = {} THEN a ELSE ScheduleReconnect(Stop(a, gs), c)

(* READY: connected, and the listeners hear of it. *)
Ready(a, c) ==
  LET gs == ListenersOf(a, c)
  IN  [a EXCEPT !.connected = @ \cup {c}, !.beating = @ \cup gs,
                !.attempts = IF gs = {} THEN @ ELSE 0]

-----------------------------------------------------------------------------
(* What the agent does with a message.                                     *)

OnConnected(a) ==
  IF a.slot \in a.emitted THEN a
  ELSE Ready([a EXCEPT !.emitted = @ \cup {a.slot}], a.slot)

OnDisconnected(a) ==
  Emit(InvalidateCachedClient([a EXCEPT !.connected = @ \ {a.slot}], a.slot),
       a.slot)

(* Mutant: a failed connect is not reported. *)
FailsSilently(a, c) ==
  [a EXCEPT !.asking = @ \ {c}, !.connected = @ \ {c}]

(* grpc.connect of c has failed. *)
OnConnectFailed(a, c) ==
  Emit([a EXCEPT !.asking = @ \ {c}, !.connected = @ \ {c}], c)

(* An answer finds whoever is registered under the id now, if anybody. *)
OnConnectAnswer(a, ok) ==
  LET c == a.pending
      b == [a EXCEPT !.pending = None, !.asking = @ \ {c}]
  IN  IF c = None THEN a
      ELSE IF ok THEN Ready(b, c) ELSE OnConnectFailed(b, c)

(* The renewal restarts the stream through the handle the service keeps,   *)
(* which is that of the generation the service started itself.             *)
StopHandle(a) ==
  IF a.handle = None THEN a ELSE Close(Stop(a, {a.handle}), a.client[a.handle])

OnRenewed(a) ==
  LET b == StopHandle([a EXCEPT !.renewing = FALSE])
      g == CHOOSE g \in Free(b) : TRUE
  IN  [StartGrpcStream(b) EXCEPT !.handle = g]

Handled(a, message) ==
  CASE message = "connected" -> OnConnected(a)
    [] message = "disconnected" -> OnDisconnected(a)
    [] message = "serverDisconnect" -> Emit(a, a.slot)
    [] message = "ok" -> OnConnectAnswer(a, TRUE)
    [] message = "fail" -> OnConnectAnswer(a, FALSE)
    [] message = "renewed" -> OnRenewed(a)
    [] message = "notRenewed" -> [a EXCEPT !.renewing = FALSE]

-----------------------------------------------------------------------------
(* The steps of the agent.                                                 *)

CanStart == Unused(agent) # {} /\ Free(agent) # {}

Receive ==
  /\ inbox # <<>>
  /\ Head(inbox) = "renewed" => CanStart
  /\ agent' = Collected(Handled(agent, Head(inbox)))
  /\ inbox' = Tail(inbox)
  /\ renewed' = (renewed \/ Head(inbox) = "renewed")
  /\ UNCHANGED <<bridge, calm>>

(* Part of being calm is that PrivSvc answers sooner than the shortest     *)
(* back-off: 2 seconds, RECONNECT_BASE_MS.                                 *)
ReconnectTimerFires ==
  /\ agent.timers > 0 /\ CanStart /\ Len(agent.outbox) < MaxQueue
  /\ calm => agent.outbox = <<>> /\ inbox = <<>>
  /\ agent' = Collected(StartGrpcStream([agent EXCEPT !.timers = @ - 1]))
  /\ UNCHANGED <<inbox, bridge, calm, renewed>>

(* A heartbeat finds the client not connected, or PrivSvc refuses it. *)
HeartbeatFails(g) ==
  /\ g \in agent.beating
  /\ agent.client[g] \notin agent.connected \/ ~bridge.up
  /\ agent' = Collected(Emit(agent, agent.client[g]))
  /\ UNCHANGED <<inbox, bridge, calm, renewed>>

(* The machine slept: both clocks are old, whatever the stream is like.    *)
(* The watchdog of a client that is no longer the current one gives up.    *)
WatchdogFires(g) ==
  /\ ~calm
  /\ g \in agent.beating
  /\ agent.cached \in {None, agent.client[g]}
  /\ agent' = Collected(Emit(agent, agent.client[g]))
  /\ UNCHANGED <<inbox, bridge, calm, renewed>>

(* The timer of one call also deletes what a later call has registered     *)
(* under the same id.                                                      *)
AnswerMayCome(c) ==
  /\ c = agent.pending
  /\ \/ \E i \in DOMAIN agent.outbox : agent.outbox[i] = "connect"
     \/ \E i \in DOMAIN inbox : inbox[i] \in {"ok", "fail"}

ConnectTimesOut(c) ==
  /\ c \in agent.asking
  /\ calm => ~AnswerMayCome(c)
  /\ agent' = Collected(OnConnectFailed([agent EXCEPT !.pending = None], c))
  /\ UNCHANGED <<inbox, bridge, calm, renewed>>

(* runCertRenewal, by the clock or at the control plane's request. *)
AskRenewal ==
  /\ ~calm /\ ~agent.renewing
  /\ agent.timers = 0 /\ Len(agent.outbox) < MaxQueue   \* bounds
  /\ agent' = Send([agent EXCEPT !.renewing = TRUE], "renew")
  /\ UNCHANGED <<inbox, bridge, calm, renewed>>

(* What is left of the bridge when the socket is gone: PrivSvc may still   *)
(* read requests written to it.                                            *)
Abandoned ==
  LET up == {bridge.up} \cup
              {agent.outbox[i] = "connect" : i \in DOMAIN agent.outbox}
  IN  [up : up, heard : {FALSE}]

(* The socket breaks, because PrivSvc restarts or by itself.  The client   *)
(* library reports a disconnect and then rejects the calls.                *)
SocketBreaks(restart) ==
  /\ ~calm
  /\ agent' = Collected(OnConnectAnswer(OnDisconnected(
                [agent EXCEPT !.outbox = <<>>, !.renewing = FALSE]), FALSE))
  /\ inbox' = <<>>
  /\ bridge' \in IF restart THEN {[up |-> FALSE, heard |-> FALSE]} ELSE Abandoned
  /\ UNCHANGED <<calm, renewed>>

-----------------------------------------------------------------------------
(* The process.                                                            *)

NewProcess ==
  LET a == StartGrpcStream(
             [live |-> {}, listening |-> {}, beating |-> {},
              client |-> [g \in Generations |-> None], handle |-> None,
              timers |-> 0, reconnecting |-> FALSE, attempts |-> 0,
              exiting |-> FALSE, cached |-> None, slot |-> None,
              connected |-> {}, emitted |-> {}, asking |-> {},
              pending |-> None, renewing |-> FALSE, outbox |-> <<>>])
  IN  [a EXCEPT !.handle = CHOOSE g \in a.live : TRUE]

Restarted ==
  /\ agent' = NewProcess
  /\ inbox' = <<>> /\ renewed' = FALSE
  /\ UNCHANGED calm

(* A crash, or the exit of the circuit breaker or of the connectivity      *)
(* supervisor: PrivSvc is not told.                                        *)
ProcessDies ==
  /\ ~calm \/ agent.exiting
  /\ Restarted
  /\ bridge' \in Abandoned

(* SIGTERM: the handle's stop closes the bridge, unless that generation    *)
(* has been stopped before.                                                *)
Terminate ==
  /\ ~calm
  /\ Restarted
  /\ bridge' \in IF agent.handle = None
                 THEN Abandoned ELSE {[up |-> FALSE, heard |-> FALSE]}

-----------------------------------------------------------------------------
(* PrivSvc (the bridge).                                                   *)

Pushed(messages) == IF bridge.up /\ bridge.heard THEN messages ELSE <<>>

(* startConnection returns at once when there is a stream, and then leaves *)
(* the push sink as it is; otherwise it pushes before it answers.          *)
BridgeConnect ==
  \/ bridge.up /\ inbox' = Append(inbox, "ok") /\ UNCHANGED bridge
  \/ /\ ~bridge.up
     /\ bridge' = [up |-> TRUE, heard |-> TRUE]
     /\ inbox' = inbox \o <<"connected", "ok">>
  \/ ~bridge.up /\ ~calm /\ inbox' = Append(inbox, "fail") /\ UNCHANGED bridge

TeardownBridge(answer) ==
  /\ bridge' = [bridge EXCEPT !.up = FALSE]
  /\ inbox' = inbox \o Pushed(<<"disconnected">>) \o answer

(* Mutant: the bridge outlives the renewal. *)
BridgeOutlivesRenewal ==
  \/ bridge.up /\ inbox' = Append(inbox, "renewed") /\ UNCHANGED bridge
  \/ inbox' = Append(inbox, "notRenewed") /\ UNCHANGED bridge

(* A renewal goes over the stream.  The bridge is torn down before the     *)
(* answer, so that the stream that the agent starts next presents the new  *)
(* certificate.                                                            *)
BridgeRenew ==
  \/ bridge.up /\ TeardownBridge(<<"renewed">>)
  \/ inbox' = Append(inbox, "notRenewed") /\ UNCHANGED bridge

ServeRequest ==
  /\ agent.outbox # <<>> /\ Len(inbox) < MaxQueue
  /\ CASE Head(agent.outbox) = "connect" -> BridgeConnect
       [] Head(agent.outbox) = "close" -> TeardownBridge(<<>>)
       [] Head(agent.outbox) = "renew" -> BridgeRenew
  /\ agent' = [agent EXCEPT !.outbox = Tail(@)]
  /\ UNCHANGED <<calm, renewed>>

(* The stream fails: an error pushes twice, an end or a watchdog once. *)
StreamFails(error) ==
  /\ ~calm /\ bridge.up /\ Len(inbox) < MaxQueue
  /\ TeardownBridge(IF error THEN Pushed(<<"disconnected">>) ELSE <<>>)
  /\ UNCHANGED <<agent, calm, renewed>>

ServerDisconnects ==
  /\ ~calm /\ bridge.up /\ Len(inbox) < MaxQueue
  /\ inbox' = inbox \o Pushed(<<"serverDisconnect">>)
  /\ UNCHANGED <<agent, bridge, calm, renewed>>

CalmsDown == ~calm /\ calm' = TRUE /\ UNCHANGED <<agent, inbox, bridge, renewed>>

-----------------------------------------------------------------------------
Init ==
  /\ agent = NewProcess
  /\ inbox = <<>>
  /\ bridge \in [up : BOOLEAN, heard : {FALSE}]
  /\ calm = FALSE /\ renewed = FALSE

Next ==
  \/ Receive
  \/ ReconnectTimerFires
  \/ \E g \in Generations : HeartbeatFails(g)
  \/ \E g \in Generations : WatchdogFires(g)
  \/ \E c \in Clients : ConnectTimesOut(c)
  \/ AskRenewal
  \/ \E restart \in BOOLEAN : SocketBreaks(restart)
  \/ ProcessDies
  \/ Terminate
  \/ ServeRequest
  \/ \E error \in BOOLEAN : StreamFails(error)
  \/ ServerDisconnects
  \/ CalmsDown

Spec == Init /\ [][Next]_vars

(* Node runs its timers and callbacks, PrivSvc reads its socket, and a     *)
(* process that is to exit does.                                           *)
Fairness ==
  /\ WF_vars(Receive) /\ WF_vars(ReconnectTimerFires) /\ WF_vars(ServeRequest)
  /\ \A g \in Generations : WF_vars(HeartbeatFails(g))
  /\ \A c \in Clients : WF_vars(ConnectTimesOut(c))
  /\ WF_vars(agent.exiting /\ ProcessDies)

FairSpec == Spec /\ Fairness

-----------------------------------------------------------------------------
(* Properties.                                                             *)

(* Whoever listens, listens to the client that pushes reach and that the   *)
(* next attempt would reuse: no generation waits for events of a stream    *)
(* nobody writes to (attachPrivPushHandler, grpc-client.ts:89).            *)
ListenersHear ==
  \A g \in agent.listening : agent.client[g] = agent.cached /\ agent.client[g] = agent.slot

(* No generation is left with timers but without listeners: it could never *)
(* be stopped, and its watchdog would look at a dead stream                *)
(* (the orphan check, grpc-stream.ts:2235).                                *)
NoOrphans == agent.live = agent.listening

(* Unless a certificate was renewed there is one generation, or one        *)
(* reconnect that is due, or the exit (scheduleReconnect's guard,          *)
(* grpc-stream.ts:2416).                                                   *)
OneAttempt ==
  renewed \/ Cardinality(agent.live) + agent.timers
               + (IF agent.exiting THEN 1 ELSE 0) = 1

(* The reconnecting flag is up only while something will take it down      *)
(* (the catch in scheduleReconnect, grpc-stream.ts:2466).                  *)
ReconnectingIsScheduled ==
  agent.reconnecting => agent.timers > 0 \/ agent.exiting

(* There is always somebody who will notice: a pending reconnect or exit,  *)
(* a call that will be answered or time out, or a heartbeat.               *)
NeverAbandoned ==
  \/ agent.exiting \/ agent.timers > 0
  \/ \E g \in agent.listening : agent.client[g] \in agent.asking \/ g \in agent.beating

(* At most one generation at a time, whatever happens: each one handles    *)
(* every job (grpc-stream.ts:2412, "spawn two concurrent startGrpcStream   *)
(* calls").                                                                *)
OneGeneration == Cardinality(agent.live) <= 1

Online ==
  bridge.up /\ \E g \in agent.beating : agent.client[g] \in agent.connected

(* Once the link is left alone the agent comes online, and stays.          *)
LinkReturns == <>[]calm => <>[]Online
=============================================================================
