SPECIFICATION Spec
CONSTANTS
  gateway = gateway
  host = host
  google = google
  Neighbours <- MCNeighbours
  Remote <- MCRemote
  net_gateway = gateway
  Us = us
  DnsServer = google
  CacheSize = 1
  MaxHandlers = 2
  Attempts = 2
  ArpWait = 2
  CmdWait = 2
  Pings = 2
  RingSize = 2
  MaxExtra = 2
  MaxOwed = 1
  Targets <- MCTargets
  DnsMessages <- MCMessages
  Payloads <- MCPayloads
INVARIANTS ArpCurrent RepliesCounted NothingBound AnswerIsFirstAddress ChecksumsVerify
PROPERTIES OwnPacketsRouted CommandsReturn
