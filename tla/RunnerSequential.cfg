SPECIFICATION FairSpec
CONSTANTS
  s = s  a = a  b = b  c = c  e = e
  h1 = h1  h2 = h2  noHost = noHost
  daemon = daemon  caller = caller
  Hosts = {h1, h2, noHost}
  Placeholder = {}
  ExecFailStrategy = "continue"
  Tickers = {daemon}
  Wrapped = {daemon}
  Anonymous = {daemon}
  Nodes <- BranchNodes
  NodeType <- BranchType
  Edges <- BranchEdges
  HostsOf <- BranchHosts
  NodeFailStrategy <- BranchUnset
  MaxRetries <- BranchZero
  LoopItems <- BranchZero
  Outcomes <- BranchAny
  Env = {"E4402"}
INVARIANTS DispatchOnce JobsAccountedFor HonestResult
PROPERTIES TerminalStable StartsAfterUpstream KeepsLife Terminates
CHECK_DEADLOCK FALSE
