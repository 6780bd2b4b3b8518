------------------------- MODULE ReconnectionProofs -------------------------
(***************************************************************************)
(* Proofs about the connection of a participant, for every deadline, every *)
(* delay and every size of the refusal budget.                             *)
(***************************************************************************)
EXTENDS Reconnection, TLAPS

\* A connected transport heard from the room when its current deadline was
\* started, so the deadline bounds the silence.
Heard ==
  status = "connected" =>
    /\ socket \in Connections
    /\ \/ /\ health[socket].for = "quiet"
          /\ silence + health[socket].left <= HeartbeatInterval
       \/ /\ health[socket].for = "pinged"
          /\ silence + health[socket].left <= Longest

\* A prompt connection that has a deadline for its answer owes the answer,
\* and owes it sooner.
InTime ==
  \A c \in prompt :
    /\ socket = c
    /\ wire[c] \in {"opening", "open"}
    /\ wire[c] = "open" => status = "connected"
    /\ Armed(answer[c]) => answer[c].left <= RoundTrip
    /\ health[c].for \in {"handshake", "pinged"} =>
         Armed(answer[c]) /\ answer[c].left < health[c].left

TransportInv == TransportTypeOK /\ OneWayBack /\ Heard /\ InTime

\* The tokens a refill would find never exceed the place left in a bucket
\* that leaks all the time.
BudgetInv == BudgetTypeOK /\ Refilled + poured <= Full

\* The room's first message.
LEMMA ReadyStep ==
  ASSUME TransportInv, NEW c \in Connections, ReceiveReady(c)
  PROVE  TransportInv'
<1> USE TransportAssumption DEF TransportInv, Armed, NotArmed, ReceiveReady, Received, Quiet, Start
<1>1. TransportTypeOK'
  BY DEF TransportTypeOK, Smaller, Longest
<1>2. OneWayBack'
  BY DEF TransportTypeOK, OneWayBack
<1>3. Heard'
  BY DEF TransportTypeOK, OneWayBack, Heard, Longest
<1>4. InTime'
  BY DEF TransportTypeOK, OneWayBack, Heard, InTime
<1>5. QED  BY <1>1, <1>2, <1>3, <1>4

\* A frame of the room, which leaves what is owed alone.
LEMMA HearStep ==
  ASSUME TransportInv, NEW c \in Connections, ReceiveFrame(c)
  PROVE  TransportInv'
<1> USE TransportAssumption DEF TransportInv, Armed, NotArmed, ReceiveFrame, Hear, Received, Quiet, Start
<1>1. TransportTypeOK'
  BY DEF TransportTypeOK, Smaller, Longest
<1>2. OneWayBack'
  BY DEF TransportTypeOK, OneWayBack
<1>3. Heard'
  BY DEF TransportTypeOK, OneWayBack, Heard, Longest
<1>4. InTime'
  <2>1. \A d \in prompt : d = c /\ d \in Connections
    BY DEF TransportTypeOK, InTime
  <2>2. CASE status = "connected"
    <3>1. health'[c].for = "quiet"
      BY <2>2 DEF TransportTypeOK
    <3>2. QED  BY <2>1, <3>1 DEF TransportTypeOK, InTime
  <2>3. CASE status # "connected"
    BY <2>3 DEF TransportTypeOK, InTime
  <2>4. QED  BY <2>2, <2>3
<1>5. QED  BY <1>1, <1>2, <1>3, <1>4

\* The answer to a ping.
LEMMA PongStep ==
  ASSUME TransportInv, NEW c \in Connections, ReceivePong(c)
  PROVE  TransportInv'
<1> USE TransportAssumption DEF TransportInv, Armed, NotArmed, ReceivePong, Hear, Received, Quiet, Start
<1> DEFINE quiet == [for |-> "quiet", left |-> HeartbeatInterval]
<1>0. /\ health' = IF status = "connected" THEN [health EXCEPT ![c] = quiet] ELSE health
      /\ answer' = [answer EXCEPT ![c] = [for |-> "nothing", left |-> 0]]
  OBVIOUS
<1>1. TransportTypeOK'
  BY <1>0 DEF TransportTypeOK
<1>2. OneWayBack'
  BY <1>0 DEF TransportTypeOK, OneWayBack
<1>3. Heard'
  BY <1>0 DEF TransportTypeOK, OneWayBack, Heard, Longest
<1>4. InTime'
  <2>1. \A d \in prompt : d = c /\ d \in Connections
    BY DEF TransportTypeOK, InTime
  <2>2. CASE status = "connected"
    <3>1. health'[c].for = "quiet" /\ ~Armed(answer'[c])
      BY <2>2 DEF TransportTypeOK
    <3>2. QED  BY <2>1, <3>1 DEF TransportTypeOK, InTime
  <2>3. CASE status # "connected"
    <3>1. health'[c] = health[c] /\ ~Armed(answer'[c])
      BY <2>3 DEF TransportTypeOK
    <3>2. QED  BY <2>1, <2>3, <3>1 DEF TransportTypeOK, InTime
  <2>4. QED  BY <2>2, <2>3
<1>5. QED  BY <1>1, <1>2, <1>3, <1>4

\* A quiet connection is pinged.
LEMMA PingStep ==
  ASSUME TransportInv, NEW c \in Connections, Ping(c)
  PROVE  TransportInv'
<1> USE TransportAssumption DEF TransportInv, Armed, NotArmed, Ping, Due, Pinged, Owed, Start
<1>1. TransportTypeOK'
  BY DEF TransportTypeOK, Smaller, Longest
<1>2. OneWayBack'
  BY DEF TransportTypeOK, OneWayBack
<1>3. Heard'
  BY DEF TransportTypeOK, OneWayBack, Heard, Longest
<1>4. InTime'
  BY DEF TransportTypeOK, OneWayBack, Heard, InTime
<1>5. QED  BY <1>1, <1>2, <1>3, <1>4

\* A connection is given up or closed.
LEMMA DisconnectStep ==
  ASSUME TransportInv, NEW c \in Connections, c \in listening, NEW state \in {"closing", "free"}, Disconnect(c, state)
  PROVE  TransportInv'
<1> USE TransportAssumption DEF TransportInv, Armed, NotArmed, Disconnect, ScheduleReconnect, Superseded, Start
<1>1. TransportTypeOK'
  BY DEF TransportTypeOK, Smaller, Longest
<1>2. OneWayBack'
  BY DEF TransportTypeOK, OneWayBack
<1>3. Heard'
  BY DEF TransportTypeOK, OneWayBack, Heard, Longest
<1>4. InTime'
  BY DEF TransportTypeOK, OneWayBack, Heard, InTime
<1>5. QED  BY <1>1, <1>2, <1>3, <1>4

\* The reconnection timer opens another connection.
LEMMA ReconnectStep ==
  ASSUME TransportInv, ReconnectTimer
  PROVE  TransportInv'
<1> USE TransportAssumption DEF TransportInv, Armed, NotArmed, ReconnectTimer, Connect, Due, Handshake, Owed, Start
<1>1. TransportTypeOK'
  BY DEF TransportTypeOK, Smaller, Longest
<1>2. OneWayBack'
  BY DEF TransportTypeOK, OneWayBack
<1>3. Heard'
  BY DEF TransportTypeOK, OneWayBack, Heard, Longest
<1>4. InTime'
  BY DEF TransportTypeOK, OneWayBack, Heard, InTime
<1>5. QED  BY <1>1, <1>2, <1>3, <1>4

\* The session closes the transport.
LEMMA CloseStep ==
  ASSUME TransportInv, Close
  PROVE  TransportInv'
<1> USE TransportAssumption DEF TransportInv, Armed, NotArmed, Close
<1>1. TransportTypeOK'
  BY DEF TransportTypeOK, Smaller, Longest
<1>2. OneWayBack'
  BY DEF TransportTypeOK, OneWayBack
<1>3. Heard'
  BY DEF TransportTypeOK, OneWayBack, Heard, Longest
<1>4. InTime'
  BY DEF TransportTypeOK, OneWayBack, Heard, InTime
<1>5. QED  BY <1>1, <1>2, <1>3, <1>4

\* A frame cannot be sent.
LEMMA SendThrowsStep ==
  ASSUME TransportInv, NEW c \in Connections, SendThrows(c)
  PROVE  TransportInv'
<1> USE TransportAssumption DEF TransportInv, Armed, NotArmed, SendThrows, timerVars, networkVars
<1>1. TransportTypeOK'
  BY DEF TransportTypeOK, Smaller, Longest
<1>2. OneWayBack'
  BY DEF TransportTypeOK, OneWayBack
<1>3. Heard'
  BY DEF TransportTypeOK, OneWayBack, Heard, Longest
<1>4. InTime'
  BY DEF TransportTypeOK, OneWayBack, Heard, InTime
<1>5. QED  BY <1>1, <1>2, <1>3, <1>4

\* A socket nobody listens to is gone.
LEMMA GoneStep ==
  ASSUME TransportInv, NEW c \in Connections, Gone(c)
  PROVE  TransportInv'
<1> USE TransportAssumption DEF TransportInv, Armed, NotArmed, Gone, timerVars, networkVars
<1>1. TransportTypeOK'
  BY DEF TransportTypeOK, Smaller, Longest
<1>2. OneWayBack'
  BY DEF TransportTypeOK, OneWayBack
<1>3. Heard'
  BY DEF TransportTypeOK, OneWayBack, Heard, Longest
<1>4. InTime'
  BY DEF TransportTypeOK, OneWayBack, Heard, InTime
<1>5. QED  BY <1>1, <1>2, <1>3, <1>4

\* The network falls silent.
LEMMA CutStep ==
  ASSUME TransportInv, NEW c \in Connections, Cut(c)
  PROVE  TransportInv'
<1> USE TransportAssumption DEF TransportInv, Armed, NotArmed, Cut, timerVars
<1>1. TransportTypeOK'
  BY DEF TransportTypeOK, Smaller, Longest
<1>2. OneWayBack'
  BY DEF TransportTypeOK, OneWayBack
<1>3. Heard'
  BY DEF TransportTypeOK, OneWayBack, Heard, Longest
<1>4. InTime'
  BY DEF TransportTypeOK, OneWayBack, Heard, InTime
<1>5. QED  BY <1>1, <1>2, <1>3, <1>4

\* The network settles.
LEMMA CalmStep ==
  ASSUME TransportInv, Calm
  PROVE  TransportInv'
<1> USE TransportAssumption DEF TransportInv, Armed, NotArmed, Calm, timerVars
<1>1. TransportTypeOK'
  BY DEF TransportTypeOK, Smaller, Longest
<1>2. OneWayBack'
  BY DEF TransportTypeOK, OneWayBack
<1>3. Heard'
  BY DEF TransportTypeOK, OneWayBack, Heard, Longest
<1>4. InTime'
  BY DEF TransportTypeOK, OneWayBack, Heard, InTime
<1>5. QED  BY <1>1, <1>2, <1>3, <1>4

\* A timer that is not due loses a unit of time and nothing else.
LEMMA HealthTimer ==
  ASSUME NEW timer \in [for : {"nothing", "handshake", "quiet", "pinged"}, left : Nat], ~Due(timer)
  PROVE  /\ Elapsed(timer) \in [for : {"nothing", "handshake", "quiet", "pinged"}, left : Nat]
         /\ Elapsed(timer).for = timer.for
         /\ Armed(timer) => timer.left > 0 /\ Elapsed(timer).left = timer.left - 1
  BY DEF Due, Elapsed, Armed

\* The same of the answer a connection owes.
LEMMA AnswerTimer ==
  ASSUME NEW timer \in [for : {"nothing", "answer"}, left : Nat], ~Due(timer)
  PROVE  /\ Elapsed(timer) \in [for : {"nothing", "answer"}, left : Nat]
         /\ Elapsed(timer).for = timer.for
         /\ Armed(timer) => timer.left > 0 /\ Elapsed(timer).left = timer.left - 1
  BY DEF Due, Elapsed, Armed

\* And of the reconnection timer.
LEMMA ReconnectionTimer ==
  ASSUME NEW timer \in [for : {"nothing", "reconnect"}, left : Nat], ~Due(timer)
  PROVE  /\ Elapsed(timer) \in [for : {"nothing", "reconnect"}, left : Nat]
         /\ Elapsed(timer).for = timer.for
         /\ Armed(timer) => timer.left > 0 /\ Elapsed(timer).left = timer.left - 1
  BY DEF Due, Elapsed, Armed

\* Time passes.
LEMMA TickStep ==
  ASSUME TransportInv, Tick
  PROVE  TransportInv'
<1> USE TransportAssumption DEF TransportInv
<1>1. \A c \in Connections :
        /\ ~Due(health[c])
        /\ health'[c] = Elapsed(health[c])
        /\ health[c] \in [for : {"nothing", "handshake", "quiet", "pinged"}, left : Nat]
        /\ answer[c] \in [for : {"nothing", "answer"}, left : Nat]
        /\ c \in prompt => ~Due(answer[c]) /\ answer'[c] = Elapsed(answer[c])
        /\ c \notin prompt => answer'[c] = answer[c]
  BY DEF Tick, NothingDue, TransportTypeOK
<1>2. \A c \in Connections :
        /\ health'[c] \in [for : {"nothing", "handshake", "quiet", "pinged"}, left : Nat]
        /\ answer'[c] \in [for : {"nothing", "answer"}, left : Nat]
        /\ health'[c].for = health[c].for /\ answer'[c].for = answer[c].for
        /\ Armed(health[c]) => health[c].left > 0 /\ health'[c].left = health[c].left - 1
        /\ Armed(answer[c]) /\ c \in prompt =>
             answer[c].left > 0 /\ answer'[c].left = answer[c].left - 1
  <2> TAKE c \in Connections
  <2>1. /\ health'[c] \in [for : {"nothing", "handshake", "quiet", "pinged"}, left : Nat]
        /\ health'[c].for = health[c].for
        /\ Armed(health[c]) => health[c].left > 0 /\ health'[c].left = health[c].left - 1
    BY <1>1, HealthTimer
  <2>2. CASE c \in prompt
    <3>1. /\ answer'[c] \in [for : {"nothing", "answer"}, left : Nat]
          /\ answer'[c].for = answer[c].for
          /\ Armed(answer[c]) => answer[c].left > 0 /\ answer'[c].left = answer[c].left - 1
      BY <1>1, <2>2, AnswerTimer
    <3>2. QED  BY <2>1, <3>1
  <2>3. CASE c \notin prompt
    BY <1>1, <2>1, <2>3
  <2>4. QED  BY <2>2, <2>3
<1>3. reconnect' \in [for : {"nothing", "reconnect"}, left : Nat]
  BY ReconnectionTimer DEF Tick, NothingDue, TransportTypeOK
<1>4. TransportTypeOK'
  BY <1>2, <1>3 DEF Tick, TransportTypeOK, Longest
<1>5. OneWayBack'
  <2>1. ~Due(reconnect) /\ reconnect \in [for : {"nothing", "reconnect"}, left : Nat]
    BY DEF Tick, NothingDue, TransportTypeOK
  <2>2. Armed(reconnect') = Armed(reconnect)
    BY <2>1 DEF Tick, Elapsed, Armed, NotArmed, Due, TransportTypeOK
  <2>3. \A c \in Connections : Armed(health'[c]) = Armed(health[c])
    BY <1>2 DEF Armed
  <2>4. QED  BY <2>2, <2>3 DEF Tick, OneWayBack, TransportTypeOK
<1>6. Heard'
  <2> SUFFICES ASSUME status = "connected"
               PROVE  Heard'
    BY DEF Tick, Heard
  <2>1. socket \in Connections /\ Armed(health[socket]) /\ socket' = socket /\ status' = status
    BY DEF Heard, OneWayBack, Tick, Armed, NotArmed
  <2>2. health'[socket].for = health[socket].for /\ health'[socket].left = health[socket].left - 1
    BY <1>2, <2>1 DEF Armed
  <2>3. silence' <= silence + 1 /\ silence \in Nat /\ health[socket].left \in Nat
    BY <1>1, <2>1 DEF Tick, TransportTypeOK
  <2>4. QED  BY <2>1, <2>2, <2>3, <1>4 DEF Heard, Longest, TransportTypeOK
<1>7. InTime'
  <2> SUFFICES ASSUME NEW c \in prompt
               PROVE  /\ socket = c
                      /\ wire[c] \in {"opening", "open"}
                      /\ wire[c] = "open" => status = "connected"
                      /\ Armed(answer'[c]) => answer'[c].left <= RoundTrip
                      /\ health'[c].for \in {"handshake", "pinged"} =>
                           Armed(answer'[c]) /\ answer'[c].left < health'[c].left
    BY DEF Tick, InTime
  <2>1. c \in Connections
    BY DEF TransportTypeOK
  <2>2. socket = c /\ wire[c] \in {"opening", "open"} /\ (wire[c] = "open" => status = "connected")
    BY DEF InTime
  <2>3. Armed(answer'[c]) => answer'[c].left <= RoundTrip
    BY <1>1, <1>2, <2>1 DEF Armed, InTime
  <2>4. ASSUME health'[c].for \in {"handshake", "pinged"}
        PROVE  Armed(answer'[c]) /\ answer'[c].left < health'[c].left
    <3>1. health[c].for \in {"handshake", "pinged"}
      BY <1>2, <2>1, <2>4
    <3>2. Armed(answer[c]) /\ answer[c].left < health[c].left /\ Armed(health[c])
      BY <3>1 DEF InTime, Armed
    <3>3. QED  BY <1>1, <1>2, <2>1, <3>2 DEF Armed
  <2>5. QED  BY <2>2, <2>3, <2>4
<1>8. QED  BY <1>4, <1>5, <1>6, <1>7

\* The page is opened again.
LEMMA ReopenStep ==
  ASSUME TransportInv, Reopen
  PROVE  TransportInv'
<1> USE TransportAssumption
    DEF TransportInv, Armed, NotArmed, Reopen, Handshake, Owed, Start
<1>1. PICK c \in Connections :
        /\ socket' = c
        /\ status' = "connecting"
        /\ wire' = [wire EXCEPT ![c] = "opening"]
        /\ listening' = {c}
        /\ health' = [health EXCEPT ![c] = Handshake]
        /\ answer' = [answer EXCEPT ![c] = Owed]
        /\ prompt' = {c}
  OBVIOUS
<1>2. \A d \in Connections : ~Armed(health[d])
  BY DEF OneWayBack
<1>3. TransportTypeOK'
  <2>1. /\ wire' \in [Connections -> {"free", "opening", "open", "closing"}]
        /\ health' \in [Connections -> [for : {"nothing", "handshake", "quiet", "pinged"}, left : Nat]]
        /\ answer' \in [Connections -> [for : {"nothing", "answer"}, left : Nat]]
    BY <1>1 DEF TransportTypeOK
  <2>2. delay' \in InitialReconnectDelay..MaxReconnectDelay /\ silence' \in Nat
    OBVIOUS
  <2>3. reconnect' \in [for : {"nothing", "reconnect"}, left : Nat]
    OBVIOUS
  <2>4. closed' \in BOOLEAN /\ calm' \in BOOLEAN
    BY DEF TransportTypeOK
  <2>5. QED  BY <1>1, <2>1, <2>2, <2>3, <2>4 DEF TransportTypeOK
<1>4. OneWayBack'
  BY <1>1, <1>2 DEF TransportTypeOK, OneWayBack
<1>5. Heard'
  BY <1>1 DEF Heard
<1>6. InTime'
  BY <1>1 DEF TransportTypeOK, InTime
<1>7. QED  BY <1>3, <1>4, <1>5, <1>6

\* The transport's invariant holds at first and survives every step.
LEMMA TransportInvInit == Init => TransportInv
<1> SUFFICES ASSUME Init  PROVE TransportInv
  OBVIOUS
<1> USE TransportAssumption DEF Armed, NotArmed, Handshake, Owed, Start
<1>1. PICK c \in Connections :
        /\ socket = c
        /\ wire = [d \in Connections |-> IF d = c THEN "opening" ELSE "free"]
        /\ listening = {c}
        /\ health = [d \in Connections |-> IF d = c THEN Handshake ELSE NotArmed]
        /\ answer = [d \in Connections |-> IF d = c THEN Owed ELSE NotArmed]
        /\ prompt \in {{}, {c}}
  BY DEF Init
<1>2. TransportTypeOK
  <2>1. /\ wire \in [Connections -> {"free", "opening", "open", "closing"}]
        /\ health \in [Connections -> [for : {"nothing", "handshake", "quiet", "pinged"}, left : Nat]]
        /\ answer \in [Connections -> [for : {"nothing", "answer"}, left : Nat]]
    BY <1>1
  <2>2. delay \in InitialReconnectDelay..MaxReconnectDelay /\ silence \in Nat
    BY DEF Init
  <2>3. reconnect \in [for : {"nothing", "reconnect"}, left : Nat]
    BY DEF Init
  <2>4. closed \in BOOLEAN /\ calm \in BOOLEAN
    BY DEF Init
  <2>5. QED  BY <1>1, <2>1, <2>2, <2>3, <2>4 DEF Init, TransportTypeOK
<1>3. OneWayBack
  BY <1>1 DEF Init, OneWayBack
<1>4. Heard /\ InTime
  <2>1. Heard
    BY DEF Init, Heard
  <2>2. InTime
    BY <1>1 DEF InTime
  <2>3. QED  BY <2>1, <2>2
<1>5. QED  BY <1>2, <1>3, <1>4 DEF TransportInv

LEMMA TransportInvStep ==
  ASSUME TransportInv, [ReconnectionNext]_vars
  PROVE  TransportInv'
<1>1. ASSUME NEW c \in Connections, Messages(c)  PROVE TransportInv'
  BY <1>1, ReadyStep, HearStep, PongStep DEF Messages
<1>2. ASSUME NEW c \in Connections, Timers(c)  PROVE TransportInv'
  <2>1. health[c].for # "nothing" => c \in listening
    BY TransportAssumption DEF TransportInv, OneWayBack, Armed
  <2>2. QED  BY <1>2, <2>1, PingStep, DisconnectStep DEF Timers, PingThrows, Lost
<1>3. ASSUME NEW c \in Connections, Ends(c)  PROVE TransportInv'
  BY <1>3, SendThrowsStep, DisconnectStep DEF Ends, CloseEvent
<1>4. CASE AtTheClient
  BY <1>1, <1>2, <1>3, <1>4, CutStep, CloseStep, CalmStep DEF AtTheClient
<1>5. ASSUME NEW c \in Connections, NEW p \in ProposalIds, Refused(c, p) \/ Rejected(c, p)
      PROVE  TransportInv'
  BY <1>5, HearStep, CloseStep, DisconnectStep DEF Refused, Rejected
<1>6. CASE Evicted \/ ClockSetBack \/ UNCHANGED vars
  BY <1>6 DEF Evicted, ClockSetBack, vars, transportVars, timerVars, networkVars, TransportInv,
     TransportTypeOK, OneWayBack, Heard, InTime
<1>7. QED
  BY <1>4, <1>5, <1>6, GoneStep, ReconnectStep, ReopenStep, TickStep
  DEF ReconnectionNext, Forgotten, Reconnects, TimePasses

LEMMA TransportInvariant == ReconnectionSpec => []TransportInv
<1>1. ReconnectionInit => TransportInv
  BY TransportInvInit DEF ReconnectionInit
<1>2. TransportInv /\ [ReconnectionNext]_vars => TransportInv'
  BY TransportInvStep
<1>3. QED  BY <1>1, <1>2, PTL DEF ReconnectionSpec

(* Type correctness of the transport, whatever its deadlines and delays.    *)
THEOREM TransportTypes == ReconnectionSpec => []TransportTypeOK
  BY TransportInvariant, PTL DEF TransportInv

(* One connection or one timer: the transport never has two connections     *)
(* alive, never waits for nothing and leaves nothing behind when closed.    *)
THEOREM OneConnection == ReconnectionSpec => []OneWayBack
  BY TransportInvariant, PTL DEF TransportInv

(* The transport does not say it is connected after a longer silence than a *)
(* heartbeat and the time its answer is given.                              *)
THEOREM SilenceIsBounded == ReconnectionSpec => []SilentIsNotLive
<1>1. TransportInv => SilentIsNotLive
  BY TransportAssumption
  DEF TransportInv, TransportTypeOK, Heard, SilentIsNotLive, Longest
<1>2. QED  BY <1>1, TransportInvariant, PTL

(* A connection that answers within RoundTrip is closed by nobody but the   *)
(* session: no deadline of an earlier silence is left to end it.            *)
THEOREM HeartbeatIsFair == ReconnectionSpec => HealthyIsKept
<1> DEFINE Kept == \A c \in prompt :
             socket = c /\ wire'[c] = "closing" /\ wire[c] # "closing" => closed'
<1>1. ASSUME TransportInv, [ReconnectionNext]_vars  PROVE Kept
  <2> USE <1>1 DEF TransportInv
  <2> SUFFICES ASSUME NEW c \in prompt, socket = c, wire'[c] = "closing", wire[c] # "closing"
               PROVE  closed'
    OBVIOUS
  <2>1. /\ c \in Connections /\ wire \in [Connections -> {"free", "opening", "open", "closing"}]
        /\ health[c].for \in {"handshake", "pinged"} => health[c].left > 0
        /\ answer[c].left \in Nat /\ health[c].left \in Nat
    BY DEF TransportTypeOK, InTime
  <2>2. \A d \in Connections : ~Lost(d) \/ d # c
    BY <2>1 DEF Lost, Due
  <2>3. ASSUME NEW d \in Connections, NEW state, Disconnect(d, state), d # c \/ state # "closing"
        PROVE  FALSE
    BY <2>1, <2>3 DEF Disconnect, Superseded, ScheduleReconnect
  <2>4. ASSUME NEW d \in Connections, Timers(d)  PROVE FALSE
    BY <2>1, <2>2, <2>3, <2>4 DEF Timers, Ping, PingThrows, Lost
  <2>5. ASSUME NEW d \in Connections, Messages(d) \/ Ends(d) \/ Cut(d)  PROVE FALSE
    <3>1. ~Messages(d)
      BY <2>1 DEF Messages, ReceiveReady, ReceiveFrame, ReceivePong, Hear
    <3>2. ~Ends(d)
      BY <2>1, <2>3 DEF Ends, SendThrows, CloseEvent
    <3>3. ~Cut(d)
      BY <2>1 DEF Cut
    <3>4. QED  BY <2>5, <3>1, <3>2, <3>3
  <2>6. ASSUME NEW d \in Connections, Forgotten(d)  PROVE FALSE
    BY <2>1, <2>6 DEF Forgotten, Gone
  <2>7. ~Reconnects
    BY <2>1 DEF Reconnects, ReconnectTimer, Connect
  <2>8. ~Reopen
    BY <2>1 DEF Reopen
  <2>9. ASSUME NEW d \in Connections, NEW p \in ProposalIds, Refused(d, p)  PROVE FALSE
    BY <2>1, <2>9 DEF Refused, ReceiveFrame, Hear
  <2>10. ASSUME NEW d \in Connections, NEW p \in ProposalIds, Rejected(d, p)  PROVE closed'
    BY <2>3, <2>10 DEF Rejected, Close
  <2>11. ~UNCHANGED wire
    BY <2>1
  <2>12. QED
    BY <2>4, <2>5, <2>6, <2>7, <2>8, <2>9, <2>10, <2>11
    DEF ReconnectionNext, AtTheClient, Close, Calm, Evicted, ClockSetBack, TimePasses, Tick,
        vars, transportVars
<1>2. UNCHANGED transportVars /\ TransportInv => Kept
  BY DEF transportVars
<1>3. TransportInv /\ [ReconnectionNext]_vars => [Kept]_transportVars
  BY <1>1
<1>4. QED  BY <1>3, TransportInvariant, PTL DEF ReconnectionSpec, HealthyIsKept

-----------------------------------------------------------------------------
\* The refusal budget.

LEMMA FullIsNat == Full \in Nat
  BY BudgetAssumption DEF Full

\* A step of the budget keeps the bucket's bound, and is a step of the bucket.
LEMMA BudgetStep ==
  ASSUME BudgetInv, [BudgetNext]_budgetVars
  PROVE  BudgetInv' /\ [Bucket!Next]_poured
<1> USE FullIsNat, BudgetAssumption DEF BudgetInv
<1>1. ASSUME NEW s \in Sockets, NEW p \in ProposalIds, Allowed(s, p)
      PROVE  BudgetInv' /\ Bucket!Pour
  <2>1. BudgetTypeOK'
    BY <1>1 DEF BudgetTypeOK, Allowed, Exhausted, Refilled, AtMost, AtLeast
  <2>2. Refilled' + poured' <= Full
    BY <1>1 DEF BudgetTypeOK, Allowed, Refilled, AtMost, AtLeast
  <2>3. Bucket!Pour
    BY <1>1 DEF BudgetTypeOK, Allowed, Bucket!Pour, Refilled, AtMost, AtLeast
  <2>4. QED  BY <2>1, <2>2, <2>3
<1>2. ASSUME NEW s \in Sockets, NEW p \in ProposalIds, Denied(s, p)
      PROVE  BudgetInv' /\ UNCHANGED poured
  BY <1>2 DEF BudgetTypeOK, Denied, Refilled, AtMost, AtLeast
<1>3. ASSUME NEW s \in Sockets, NewSocket(s)
      PROVE  BudgetInv' /\ UNCHANGED poured
  BY <1>3 DEF BudgetTypeOK, NewSocket, NewBudget, Refilled, AtMost, AtLeast, bucketVars
<1>4. CASE Restart
  BY <1>4 DEF BudgetTypeOK, Restart, NewBudget, Refilled, AtMost, AtLeast, Bucket!Next,
     Bucket!Renew
<1>5. CASE Passes
  BY <1>5 DEF BudgetTypeOK, Passes, Refilled, AtMost, AtLeast, Bucket!Next, Bucket!Leak
<1>6. CASE SetBack
  BY <1>6 DEF BudgetTypeOK, SetBack, Refilled, AtMost, AtLeast
<1>7. CASE UNCHANGED budgetVars
  BY <1>7 DEF BudgetTypeOK, Refilled, AtMost, AtLeast, budgetVars, bucketVars
<1>8. QED
  BY <1>1, <1>2, <1>3, <1>4, <1>5, <1>6, <1>7 DEF BudgetNext, Bucket!Next

\* Whatever the two ends of the connection do together, the budget takes a
\* step of its own or none.
LEMMA ComposedBudgetStep ==
  ASSUME TransportInv, [ReconnectionNext]_vars
  PROVE  [BudgetNext]_budgetVars
<1>1. Reconnects => socket' \in Connections
  BY DEF Reconnects, ReconnectTimer, Connect
<1>2. QED
  BY <1>1, SocketsAreConnections
  DEF ReconnectionNext, BudgetNext, AtTheClient, Forgotten, Reconnects, Refused, Rejected,
      Reopen, Evicted, ClockSetBack, TimePasses, vars

LEMMA BudgetInvariant == ReconnectionSpec => []BudgetInv
<1>1. ReconnectionInit => BudgetInv
  BY FullIsNat, BudgetAssumption
  DEF ReconnectionInit, BudgetInit, BudgetInv, BudgetTypeOK, NewBudget, Refilled, AtMost, AtLeast
<1>2. BudgetInv /\ TransportInv /\ [ReconnectionNext]_vars => BudgetInv'
  BY BudgetStep, ComposedBudgetStep
<1>3. QED  BY <1>1, <1>2, TransportInvariant, PTL DEF ReconnectionSpec

(* However often a participant connects again, and although every socket    *)
(* has a budget of its own, the refusals the room answers fit a bucket of   *)
(* its tokens that leaks one token a RefillTime: the lazily refilled tokens *)
(* implement the leaky bucket, whatever the sizes and even when the clock   *)
(* is set back.                                                             *)
THEOREM Churn == ReconnectionSpec => ChurnIsBounded
<1>1. ReconnectionInit => Bucket!Init
  BY DEF ReconnectionInit, BudgetInit, Bucket!Init
<1>2. BudgetInv /\ TransportInv /\ [ReconnectionNext]_vars => [Bucket!Next]_poured
  BY BudgetStep, ComposedBudgetStep
<1>3. QED
  BY <1>1, <1>2, BudgetInvariant, TransportInvariant, PTL
  DEF ReconnectionSpec, ChurnIsBounded, Bucket!Spec
=============================================================================
