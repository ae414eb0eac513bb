SPECIFICATION FairSpec
CONSTANTS
  s = s  a = a  b = b  c = c  e = e
  h1 = h1  h2 = h2  noHost = noHost
  daemon = daemon  caller = caller
  Hosts = {h1, h2, noHost}
  Placeholder = {}
  ExecFailStrategy = "fail_fast"
  Tickers = {daemon}
  Wrapped = {daemon}
  Anonymous = {daemon}
  Nodes <- LoopNodes
  NodeType <- LoopType
  Edges <- LoopEdges
  HostsOf <- LoopHosts
  NodeFailStrategy <- LoopUnset
  MaxRetries <- LoopZero
  LoopItems <- LoopTwo
  Outcomes <- LoopOutcomes
  Env = {"E4402"}
INVARIANTS HonestResult LoopVerdict
PROPERTIES KeepsLife Terminates
CHECK_DEADLOCK FALSE
