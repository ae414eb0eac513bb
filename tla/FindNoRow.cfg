SPECIFICATION FairSpec
CONSTANTS
  s = s  a = a  b = b  c = c  e = e
  h1 = h1  h2 = h2  noHost = noHost
  daemon = daemon  caller = caller
  Hosts = {h1, h2, noHost}
  Placeholder = {}
  ExecFailStrategy = "continue"
  Tickers = {daemon}
  Wrapped = {daemon}
  Anonymous = {daemon}
  Nodes <- ChainNodes
  NodeType <- ChainType
  Edges <- ChainEdges
  HostsOf <- ChainHosts
  NodeFailStrategy <- LoopUnset
  MaxRetries <- LoopZero
  LoopItems <- LoopZero
  Outcomes <- ChainOutcomes
  Env = {"sync", "job_timeout"}
PROPERTIES EveryNodeGetsRow
CHECK_DEADLOCK FALSE
