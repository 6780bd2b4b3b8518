SPECIFICATION FairReconnectionSpec
CONSTANTS
  Connections = {k1, k2}
  Sockets = {k1, k2}
  ProposalIds = {p1, p2}
  HandshakeTimeout = 2
  HeartbeatInterval = 3
  HeartbeatTimeout = 2
  InitialReconnectDelay = 1
  MaxReconnectDelay = 4
  RoundTrip = 1
  MaxProposalRefusals = 1
  MaxSocketRefusals = 2
  RoomTokens = 2
  RefillTime = 2
  MaxSetback = 1
INVARIANTS OneWayBack SilentIsNotLive
PROPERTIES HealthyIsKept ChurnIsBounded ComesBack
CHECK_DEADLOCK FALSE
