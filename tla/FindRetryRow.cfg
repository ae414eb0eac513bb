SPECIFICATION FairSpec
CONSTANTS
  s = s  a = a  b = b  c = c  e = e
  h1 = h1  h2 = h2  noHost = noHost
  daemon = daemon  caller = caller
  Hosts = {h1, h2, noHost}
  Placeholder = {}
  ExecFailStrategy = "continue"
  Tickers = {daemon}
  Wrapped = {daemon}
  Anonymous = {daemon}
  Nodes <- BranchNodes
  NodeType <- BranchType
  Edges <- BranchEdges
  HostsOf <- OneHost
  NodeFailStrategy <- BranchUnset
  MaxRetries <- RetryA
  LoopItems <- BranchZero
  Outcomes <- OneHostAsync
  Env = {"E4402"}
PROPERTIES PendingIsDispatched
CHECK_DEADLOCK FALSE
