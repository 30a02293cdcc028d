CONSTANTS
  h1 = h1
  h2 = h2
  h3 = h3
  Loopback = Loopback
  Lan = Lan
  Hosts <- MCHosts
  Family <- MCFamily
  Ports <- MCPorts
  DhcpPorts <- MCDhcpPorts
  BlockedChoices <- MCBlockedChoices
  ConnectingChoices <- MCConnectingChoices
  ConnectedChoices <- MCConnectedChoices
  Timeouts <- MCTimeoutsLarge

SPECIFICATION Spec

INVARIANT SessionTimeoutAsRequested
