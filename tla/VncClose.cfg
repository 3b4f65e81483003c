SPECIFICATION MCSpec
CONSTANTS
  Trees <- MCTrees
  Sources = {"openssh", "client", "server"}
  Transports = {"pipe", "stream"}
  NewName = "t"
  Kinds = {"vncproxy"}
  MaxSent = 2
  Forwarders = {"simplessh.LocalForward", "simplessh.RemoteForward", "sshclient.LocalForward", "sshclient.RemoteForward", "TCPIPForwardRequest"}
  Conns = {c1, c2}
  Viewers = {v1, v2}
  v1 = v1
  v2 = v2
  ViewerPlans <- MCViewerPlans
  Palette <- MCPalette
  ConnsCap = 1
  FeedCap = 1
  FbupcCap = 1
  EventCap = 1
  Wire = 1
  Parts = {"relay"}
INVARIANT PeerCloseClosesBoth
CHECK_DEADLOCK FALSE
