------------------------------ MODULE Transport ------------------------------
(***************************************************************************)
(* The client's end of the connection to a room:                           *)
(* createWebSocketCollaborationTransport and its SocketHealth.  It opens a *)
(* WebSocket, waits for the room's "ready", pings a silent connection,     *)
(* gives up one that does not answer and opens another after a delay that  *)
(* doubles until the room is reached again.                                *)
(*                                                                         *)
(* Time is discrete and timers fire when they are due: Tick waits for      *)
(* them.  The network is the environment: a prompt connection answers      *)
(* within RoundTrip, one that is not may answer at any time or never, and  *)
(* says nothing when it is cut.  The slots of Connections are taken again  *)
(* once the browser has done with a socket.                                *)
(***************************************************************************)
EXTENDS Naturals

CONSTANTS
  Connections,            \* slots for WebSocket objects
  HandshakeTimeout,       \* SOCKET_HANDSHAKE_TIMEOUT_MS
  HeartbeatInterval,      \* SOCKET_HEARTBEAT_INTERVAL_MS
  HeartbeatTimeout,       \* SOCKET_HEARTBEAT_TIMEOUT_MS
  InitialReconnectDelay,  \* INITIAL_RECONNECT_DELAY
  MaxReconnectDelay,      \* MAX_RECONNECT_DELAY
  RoundTrip               \* a prompt connection answers within this time

NoConnection == "none"

ASSUME TransportAssumption ==
  /\ NoConnection \notin Connections
  /\ HandshakeTimeout \in Nat /\ HeartbeatInterval \in Nat /\ HeartbeatTimeout \in Nat
  /\ InitialReconnectDelay \in Nat \ {0}
  /\ MaxReconnectDelay \in Nat /\ MaxReconnectDelay >= InitialReconnectDelay
  /\ RoundTrip \in Nat /\ RoundTrip < HeartbeatTimeout /\ RoundTrip < HandshakeTimeout

VARIABLES
  status,     \* what the session is told: "connecting", "connected", "disconnected"
  socket,     \* the current connection
  wire,       \* readyState of each: "free", "opening", "open" or "closing"
  listening,  \* connections whose listeners are attached
  health,     \* the one timer of each connection's SocketHealth
  reconnect,  \* the reconnection timer
  delay,      \* the delay the next reconnection will wait
  closed,     \* the session has closed the transport
  prompt,     \* connections that answer within RoundTrip
  answer,     \* time left for the answer a connection owes, if it owes one
  calm,       \* from now on the network does no harm
  silence     \* auxiliary: time since the current connection was last heard

timerVars == <<health, reconnect, delay>>
networkVars == <<prompt, answer, calm>>
transportVars == <<status, socket, wire, listening, timerVars, closed, networkVars, silence>>

Longest == HeartbeatInterval + HeartbeatTimeout
Smaller(a, b) == IF a < b THEN a ELSE b

\* Timers: what they were started for and the time they have left.
NotArmed == [for |-> "nothing", left |-> 0]
Armed(timer) == timer.for # "nothing"
Due(timer) == Armed(timer) /\ timer.left = 0
Start(purpose, time) == [for |-> purpose, left |-> time]
Elapsed(timer) == IF Armed(timer) THEN [timer EXCEPT !.left = @ - 1] ELSE timer

Handshake == Start("handshake", HandshakeTimeout)
Quiet == Start("quiet", HeartbeatInterval)
Pinged == Start("pinged", HeartbeatTimeout)
Owed == Start("answer", RoundTrip)

-----------------------------------------------------------------------------
\* connect(): the socket, its health timer, its listeners.  A connection
\* opened in bad weather need not be a prompt one.
Connect(c) ==
  /\ wire[c] = "free"
  /\ status' = "connecting"
  /\ socket' = c
  /\ wire' = [wire EXCEPT ![c] = "opening"]
  /\ listening' = listening \cup {c}
  /\ health' = [health EXCEPT ![c] = Handshake]
  /\ answer' = [answer EXCEPT ![c] = Owed]
  /\ prompt' \in {prompt \cup {c}} \cup (IF calm THEN {} ELSE {prompt \ {c}})
  /\ silence' = 0

Init ==
  /\ \E c \in Connections :
       /\ socket = c
       /\ wire = [d \in Connections |-> IF d = c THEN "opening" ELSE "free"]
       /\ listening = {c}
       /\ health = [d \in Connections |-> IF d = c THEN Handshake ELSE NotArmed]
       /\ answer = [d \in Connections |-> IF d = c THEN Owed ELSE NotArmed]
       /\ prompt \in {{}, {c}}
  /\ status = "connecting"
  /\ reconnect = NotArmed
  /\ delay = InitialReconnectDelay
  /\ closed = FALSE
  /\ calm = FALSE
  /\ silence = 0

\* mutant: a connection that is lost is not replaced
ScheduleNothing == UNCHANGED <<reconnect, delay>>

\* scheduleReconnect()
ScheduleReconnect ==
  IF closed \/ Armed(reconnect)
  THEN UNCHANGED <<reconnect, delay>>
  ELSE /\ reconnect' = Start("reconnect", delay)
       /\ delay' = Smaller(2 * delay, MaxReconnectDelay)

Superseded(c) == socket # c

\* disconnect(): the listeners go in any case; only the current connection's
\* end is a disconnection.  `state` is what becomes of the socket.
Disconnect(c, state) ==
  /\ listening' = listening \ {c}
  /\ health' = [health EXCEPT ![c] = NotArmed]
  /\ answer' = [answer EXCEPT ![c] = NotArmed]
  /\ IF closed \/ Superseded(c)
     THEN UNCHANGED <<status, socket, wire, reconnect, delay>>
     ELSE /\ socket' = NoConnection
          /\ wire' = [wire EXCEPT ![c] = state]
          /\ status' = "disconnected"
          /\ ScheduleReconnect
  /\ prompt' = prompt \ {c}
  /\ UNCHANGED <<closed, calm, silence>>

\* SocketHealth.received()
Received(c) == health' = [health EXCEPT ![c] = Quiet]

\* onMessage for the room's first message.
ReceiveReady(c) ==
  /\ c \in listening
  /\ socket = c
  /\ wire[c] = "opening"
  /\ Received(c)
  /\ wire' = [wire EXCEPT ![c] = "open"]
  /\ answer' = [answer EXCEPT ![c] = NotArmed]
  /\ delay' = InitialReconnectDelay
  /\ status' = "connected"
  /\ silence' = 0
  /\ UNCHANGED <<socket, listening, reconnect, closed, prompt, calm>>

\* mutant: a message leaves the deadlines as they are
HearUnnoticed(c) ==
  /\ c \in listening
  /\ socket = c
  /\ wire[c] = "open"
  /\ silence' = 0
  /\ UNCHANGED <<status, socket, wire, listening, timerVars, closed, prompt, calm>>

\* onMessage for anything later: a frame of the room, or the answer to a ping.
Hear(c) ==
  /\ c \in listening
  /\ socket = c
  /\ wire[c] = "open"
  /\ IF status = "connected" THEN Received(c) ELSE UNCHANGED health
  /\ silence' = 0
  /\ UNCHANGED <<status, socket, wire, listening, reconnect, delay, closed, prompt, calm>>

ReceiveFrame(c) == Hear(c) /\ UNCHANGED answer

ReceivePong(c) ==
  /\ Armed(answer[c])
  /\ Hear(c)
  /\ answer' = [answer EXCEPT ![c] = NotArmed]

\* mutant: the ping is sent with no deadline for its answer
PingWithoutDeadline(c) ==
  /\ Due(health[c])
  /\ health[c].for = "quiet"
  /\ health' = [health EXCEPT ![c] = Quiet]
  /\ answer' = [answer EXCEPT ![c] = IF Armed(@) THEN @ ELSE Owed]
  /\ UNCHANGED <<status, socket, wire, listening, reconnect, delay, closed, prompt, calm, silence>>

\* The timer of received(): a second deadline is set, then the ping is sent.
Ping(c) ==
  /\ Due(health[c])
  /\ health[c].for = "quiet"
  /\ health' = [health EXCEPT ![c] = Pinged]
  /\ answer' = [answer EXCEPT ![c] = IF Armed(@) THEN @ ELSE Owed]
  /\ UNCHANGED <<status, socket, wire, listening, reconnect, delay, closed, prompt, calm, silence>>

\* The ping throws: a broken connection.
PingThrows(c) ==
  /\ Due(health[c])
  /\ health[c].for = "quiet"
  /\ c \notin prompt
  /\ Disconnect(c, "closing")

\* No "ready" after the handshake timeout, or nothing at all after a ping.
Lost(c) ==
  /\ Due(health[c])
  /\ health[c].for \in {"handshake", "pinged"}
  /\ Disconnect(c, "closing")

ReconnectTimer ==
  /\ Due(reconnect)
  /\ reconnect' = NotArmed
  /\ \E c \in Connections : Connect(c)
  /\ UNCHANGED <<delay, closed, calm>>

\* mutant: close() forgets the reconnection timer
CloseLeavesTimer ==
  /\ ~closed
  /\ closed' = TRUE
  /\ listening' = listening \ {socket}
  /\ health' = [c \in Connections |-> IF c = socket THEN NotArmed ELSE health[c]]
  /\ answer' = [c \in Connections |-> IF c = socket THEN NotArmed ELSE answer[c]]
  /\ wire' = [c \in Connections |-> IF c = socket THEN "closing" ELSE wire[c]]
  /\ status' = "disconnected"
  /\ prompt' = prompt \ {socket}
  /\ UNCHANGED <<socket, reconnect, delay, calm, silence>>

\* close(), by the session.
Close ==
  /\ ~closed
  /\ closed' = TRUE
  /\ reconnect' = NotArmed
  /\ listening' = listening \ {socket}
  /\ health' = [c \in Connections |-> IF c = socket THEN NotArmed ELSE health[c]]
  /\ answer' = [c \in Connections |-> IF c = socket THEN NotArmed ELSE answer[c]]
  /\ wire' = [c \in Connections |-> IF c = socket THEN "closing" ELSE wire[c]]
  /\ status' = "disconnected"
  /\ prompt' = prompt \ {socket}
  /\ UNCHANGED <<socket, delay, calm, silence>>

\* send() of a frame: only what throws changes anything here.
SendThrows(c) ==
  /\ status = "connected"
  /\ socket = c
  /\ wire[c] = "open"
  /\ c \notin prompt
  /\ wire' = [wire EXCEPT ![c] = "closing"]
  /\ UNCHANGED <<status, socket, listening, timerVars, closed, networkVars, silence>>

-----------------------------------------------------------------------------
\* The environment.

\* The close event: the room or the network ends the connection, an opening
\* one fails (the room is full), or the browser has closed it.
CloseEvent(c) ==
  /\ c \in listening
  /\ wire[c] = "closing" \/ (wire[c] # "free" /\ ~calm)
  /\ Disconnect(c, "free")

\* A socket nobody listens to any more is gone.
Gone(c) ==
  /\ wire[c] = "closing"
  /\ c \notin listening
  /\ wire' = [wire EXCEPT ![c] = "free"]
  /\ UNCHANGED <<status, socket, listening, timerVars, closed, networkVars, silence>>

\* The network falls silent under a connection, without a close event.
Cut(c) ==
  /\ ~calm
  /\ c \in prompt
  /\ socket = c
  /\ prompt' = prompt \ {c}
  /\ UNCHANGED <<status, socket, wire, listening, timerVars, closed, answer, calm, silence>>

Calm ==
  /\ ~calm
  /\ calm' = TRUE
  /\ UNCHANGED <<status, socket, wire, listening, timerVars, closed, prompt, answer, silence>>

NothingDue ==
  /\ ~Due(reconnect)
  /\ \A c \in Connections : ~Due(health[c])
  /\ \A c \in prompt : ~Due(answer[c])

Tick ==
  /\ NothingDue
  /\ health' = [c \in Connections |-> Elapsed(health[c])]
  /\ reconnect' = Elapsed(reconnect)
  /\ answer' = [c \in Connections |-> IF c \in prompt THEN Elapsed(answer[c]) ELSE answer[c]]
  /\ silence' = IF silence > Longest THEN silence ELSE silence + 1
  /\ UNCHANGED <<status, socket, wire, listening, delay, closed, prompt, calm>>

Messages(c) == ReceiveReady(c) \/ ReceiveFrame(c) \/ ReceivePong(c)
Timers(c) == Ping(c) \/ PingThrows(c) \/ Lost(c)
Ends(c) == SendThrows(c) \/ CloseEvent(c)
Weather(c) == Gone(c) \/ Cut(c)

TransportNext ==
  \/ \E c \in Connections : Messages(c) \/ Timers(c) \/ Ends(c) \/ Weather(c)
  \/ ReconnectTimer
  \/ Close
  \/ Calm
  \/ Tick

TransportSpec == Init /\ [][TransportNext]_transportVars

-----------------------------------------------------------------------------
\* The state space.
TransportTypeOK ==
  /\ status \in {"connecting", "connected", "disconnected"}
  /\ socket \in Connections \cup {NoConnection}
  /\ wire \in [Connections -> {"free", "opening", "open", "closing"}]
  /\ listening \subseteq Connections
  /\ health \in [Connections -> [for : {"nothing", "handshake", "quiet", "pinged"}, left : Nat]]
  /\ reconnect \in [for : {"nothing", "reconnect"}, left : Nat]
  /\ delay \in InitialReconnectDelay..MaxReconnectDelay
  /\ closed \in BOOLEAN
  /\ prompt \subseteq Connections
  /\ answer \in [Connections -> [for : {"nothing", "answer"}, left : Nat]]
  /\ calm \in BOOLEAN
  /\ silence \in Nat

(* Until the session closes it, the transport has either a connection or a  *)
(* reconnection timer and never both: it neither opens a second connection  *)
(* beside a live one nor waits for nothing.  A connection that is not the   *)
(* current one has no listener and no deadline left that could end its      *)
(* successor, and nothing at all outlives close().                          *)
OneWayBack ==
  /\ \A c \in Connections :
       c \in listening \/ Armed(health[c]) => socket = c /\ ~closed /\ wire[c] # "free"
  /\ Armed(reconnect) => ~closed
  /\ ~closed => (socket = NoConnection) = Armed(reconnect)
  /\ ~closed /\ socket # NoConnection => socket \in listening /\ Armed(health[socket])
  /\ Armed(reconnect) \/ closed <=> status = "disconnected"

(* "A silent open socket must not indefinitely masquerade as a live         *)
(* connection": a transport that says it is connected has heard from the    *)
(* room within one heartbeat and its answer.                                *)
SilentIsNotLive == status = "connected" => silence <= Longest

(* The heartbeat never ends a connection whose room answers in time: the    *)
(* deadline of an earlier silence is gone when the answer arrives.          *)
HealthyIsKept ==
  [][\A c \in prompt :
       socket = c /\ wire'[c] = "closing" /\ wire[c] # "closing" => closed']_transportVars

(* Once the network behaves, a transport its session has not closed is      *)
(* connected again, whatever was lost, cut or refused before.               *)
ComesBack == calm ~> (status = "connected" \/ closed)
=============================================================================
