SPECIFICATION FairSpec
CONSTANTS
  update = update
  ping = ping
  coverage = coverage
  Kinds = {update, ping, coverage}
  Size <- MCSize
  Pings = {ping}
  Unknown = {coverage}
  HeaderLength = 2
  MaxCommands = 3
  MaxLogs = 2
  MaxConnections = 2
INVARIANTS TypeOK CompleteIsDelivered OnceUnlessSplit LogsInOrder
PROPERTIES LogsArrive ImplementsStream
CHECK_DEADLOCK FALSE
