SPECIFICATION Spec
CONSTANTS
  s = s  a = a  b = b  c = c  e = e
  h1 = h1  h2 = h2  noHost = noHost
  daemon = daemon  caller = caller
  Hosts = {h1, h2, noHost}
  Placeholder = {c}
  ExecFailStrategy = "continue"
  Tickers = {daemon}
  Wrapped = {daemon}
  Anonymous = {daemon}
  Nodes <- BranchNodes
  NodeType <- ApprovalA
  Edges <- BranchEdges
  HostsOf <- OneHost
  NodeFailStrategy <- BranchUnset
  MaxRetries <- RetryA
  LoopItems <- BranchZero
  Outcomes <- UserOutcomes
  Env = {"cancel", "cancel_workflow", "retry_node", "skip_node", "approve_node", "rerun", "push", "sync", "E4401", "E4402", "E3111", "job_timeout"}
INVARIANTS TypeOK UpstreamFirst Lineage
PROPERTIES NoRedispatch
CHECK_DEADLOCK FALSE
