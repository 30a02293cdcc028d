------------------------------ MODULE MC_WinFw ------------------------------
(***************************************************************************)
(* Model of winfw for TLC: three internet hosts (two IPv4, one IPv6), the  *)
(* DNS port, a DHCP port and a WireGuard port, and a handful of policy     *)
(* calls chosen so that each interesting case of the composition occurs:   *)
(* a relay on the DNS port, three IPv4 and three IPv6 relays (one more     *)
(* than each pool holds), five IPv4 allowed endpoints (one more than the   *)
(* endpoint pool holds), each AllowedTunnelTraffic selector, tunnel and    *)
(* non-tunnel DNS servers with and without an exit tunnel alias, and a    *)
(* DNS resolver on the LAN with LAN access open.                          *)
(***************************************************************************)
EXTENDS WinFw

CONSTANTS h1, h2, h3

MCHosts == {h1, h2, h3}
MCFamily == [h \in MCHosts |-> IF h = h3 THEN "v6" ELSE "v4"]
MCPorts == {53, 67, 51820}
MCDhcpPorts == {67}

EP(h, port) == [host |-> h, port |-> port]
Sel(type, eps) == [type |-> type, eps |-> eps]
Closed == [dhcp |-> FALSE, lan |-> FALSE]
Open == [dhcp |-> TRUE, lan |-> TRUE]

MCBlockedChoices ==
  { [NoParams EXCEPT !.settings = Open, !.allowed = <<EP(h2, 51820)>>],
    NoParams,
    \* five IPv4 allowed endpoints: one past the endpoint pool
    [NoParams EXCEPT !.allowed = <<EP(h1, 51820), EP(h2, 51820), EP(h1, 67),
                                   EP(h2, 67), EP(h2, 51820)>>] }

\* An allowed endpoint on the DNS port (for instance an API host reached
\* on port 53), next to one on another port.
MCBlockedChoicesDnsEndpoint ==
  { [NoParams EXCEPT !.allowed = <<EP(h1, 53), EP(h2, 51820)>>] }

MCConnectingChoices ==
  { \* relay on the DNS port, entry tunnel pinned to one endpoint
    [NoParams EXCEPT !.relays = <<EP(h1, 53)>>, !.entry = TRUE,
       !.esel = Sel("One", <<EP(h2, 51820)>>), !.exit = TRUE,
       !.xsel = Sel("None", << >>), !.ndns = {h3}],
    \* three IPv4 relays: one past the relay pool
    [NoParams EXCEPT !.settings = Open,
       !.relays = <<EP(h1, 51820), EP(h2, 51820), EP(h2, 53)>>],
    \* entry tunnel open, exit tunnel pinned to two endpoints
    [NoParams EXCEPT !.relays = <<EP(h1, 51820), EP(h3, 51820)>>,
       !.allowed = <<EP(h2, 51820)>>, !.entry = TRUE, !.esel = Sel("All", << >>),
       !.exit = TRUE, !.xsel = Sel("Two", <<EP(h2, 51820), EP(h3, 53)>>)],
    \* three IPv6 relays: one past the IPv6 relay pool, whose one-past-end
    \* read may alias the IPv4 relay slot the first relay took
    [NoParams EXCEPT !.relays = <<EP(h1, 51820), EP(h3, 51820), EP(h3, 53),
                                  EP(h3, 51820)>>] }

MCConnectedChoices ==
  { [NoParams EXCEPT !.relays = <<EP(h1, 51820)>>, !.allowed = <<EP(h2, 51820)>>,
       !.entry = TRUE, !.exit = TRUE, !.tdns = {h2}, !.ndns = {h3}],
    \* no exit alias: non-tunnel DNS servers get no rule
    [NoParams EXCEPT !.settings = Open, !.relays = <<EP(h1, 53)>>, !.ndns = {h3}],
    \* LAN access open with a resolver on the LAN, and an IPv6 allowed endpoint
    [NoParams EXCEPT !.settings = Open, !.relays = <<EP(h1, 51820)>>,
       !.allowed = <<EP(h3, 51820)>>, !.exit = TRUE, !.ndns = {Lan}] }

\* A timeout of a few seconds, as the daemon passes.
MCTimeouts == {5}

\* Also a timeout whose millisecond value exceeds 2^32 - 1.
MCTimeoutsLarge == {5, 4294968}

=============================================================================
