SPECIFICATION Spec
CONSTANTS
  s = s  a = a  b = b  c = c  e = e
  h1 = h1  h2 = h2  noHost = noHost
  daemon = daemon  caller = caller
  Hosts = {h1, h2, noHost}
  Placeholder = {}
  ExecFailStrategy = "continue"
  Tickers = {daemon, caller}
  Wrapped = {daemon}
  Anonymous = {daemon}
  Nodes <- ForkNodes
  NodeType <- ForkType
  Edges <- ForkEdges
  HostsOf <- OneHost
  NodeFailStrategy <- BranchUnset
  MaxRetries <- BranchZero
  LoopItems <- BranchZero
  Outcomes <- ForkOutcomes
  Env = {"push", "crash"}
INVARIANTS Lineage
PROPERTIES NoRedispatch
CHECK_DEADLOCK FALSE
