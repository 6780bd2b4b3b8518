---------------------------- MODULE Reconnection ----------------------------
(***************************************************************************)
(* Both ends of a participant's connection on one clock: the transport,    *)
(* which opens one WebSocket after another, and the room's refusal budget, *)
(* which knows a participant by nothing but its WebSocket.  A participant  *)
(* whose proposals are refused too often is rejected and its socket closed *)
(* (refuseTextTarget, authorizeCommands, handleRoomFailure).  The session  *)
(* then closes its transport; when the rejection is lost, or the page is   *)
(* opened again, the next socket has a new budget.                         *)
(***************************************************************************)
EXTENDS Transport, RefusalBudget

ASSUME SocketsAreConnections == Sockets = Connections

vars == <<transportVars, budgetVars>>

ReconnectionInit == Init /\ BudgetInit

\* What the transport does and the budget does not see.
AtTheClient ==
  /\ \/ \E c \in Connections :
          \/ Messages(c) \/ Timers(c) \/ Ends(c)
          \/ Cut(c)
     \/ Close
     \/ Calm
  /\ UNCHANGED budgetVars

\* The socket of the slot is gone, and with it its entry in the WeakMap.
Forgotten(c) == Gone(c) /\ NewSocket(c)

\* The room accepts a new WebSocket.
Reconnects ==
  /\ ReconnectTimer
  /\ NewSocket(socket')

\* The room refuses a proposal: a Conflict comes back.
Refused(c, p) ==
  /\ Allowed(c, p)
  /\ ReceiveFrame(c)

\* It refuses one too many: a Reject comes, on which the session closes the
\* transport; only the close event arrives when that message is lost.
Rejected(c, p) ==
  /\ socket = c
  /\ wire[c] = "open"
  /\ status = "connected"
  /\ Denied(c, p)
  /\ \/ Close
     \/ c \in listening /\ Disconnect(c, "free")

\* The page is opened again: another transport.
Reopen ==
  /\ closed
  /\ \A c \in Connections : wire[c] = "free"
  /\ \E c \in Connections :
       /\ socket' = c
       /\ status' = "connecting"
       /\ wire' = [wire EXCEPT ![c] = "opening"]
       /\ listening' = {c}
       /\ health' = [health EXCEPT ![c] = Handshake]
       /\ answer' = [answer EXCEPT ![c] = Owed]
       /\ prompt' = {c}
  /\ reconnect' = NotArmed
  /\ delay' = InitialReconnectDelay
  /\ closed' = FALSE
  /\ silence' = 0
  /\ UNCHANGED calm
  /\ NewSocket(socket')

Evicted == Restart /\ UNCHANGED transportVars
ClockSetBack == SetBack /\ UNCHANGED transportVars
TimePasses == Tick /\ Passes

ReconnectionNext ==
  \/ AtTheClient
  \/ \E c \in Connections : Forgotten(c)
  \/ Reconnects
  \/ \E c \in Connections, p \in ProposalIds : Refused(c, p) \/ Rejected(c, p)
  \/ Reopen
  \/ Evicted
  \/ ClockSetBack
  \/ TimePasses

ReconnectionSpec == ReconnectionInit /\ [][ReconnectionNext]_vars

(* Time passes; timers that are due fire; a prompt connection answers; a    *)
(* socket that is closing ends in its close event, or is simply gone.       *)
Fairness ==
  /\ WF_vars(TimePasses)
  /\ WF_vars(Reconnects)
  /\ \A c \in Connections :
       /\ WF_vars(Timers(c) /\ UNCHANGED budgetVars)
       /\ WF_vars(c \in prompt /\ (ReceiveReady(c) \/ ReceivePong(c)) /\ UNCHANGED budgetVars)
       /\ WF_vars(Forgotten(c))

FairReconnectionSpec == ReconnectionSpec /\ Fairness
=============================================================================
