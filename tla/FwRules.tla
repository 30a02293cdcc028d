------------------------------ MODULE FwRules ------------------------------
(***************************************************************************)
(* The policy-composition layer of winfw: the firewall rules, the          *)
(* rulesets FwContext composes from them for each policy, the identifier   *)
(* registry, and the way the filtering engine arbitrates a connection      *)
(* against the installed filters.  Everything here is a pure operator;     *)
(* the state machine that installs rulesets is in WinFw.tla.               *)
(*                                                                         *)
(* A filter is abstracted to its identity (the GUID, as a tuple naming the *)
(* rule and its slot), its sublayer, its action and the connections it     *)
(* matches: a set of remote hosts, remote ports and interfaces.  IPv4 and  *)
(* IPv6 twins of a filter are one filter, except in the pooled rules       *)
(* (PermitVpnRelay, PermitEndpoint) whose slots are per address family.   *)
(* Application and protocol conditions are not modelled.                   *)
(***************************************************************************)
EXTENDS Naturals, Sequences, FiniteSets, Functions

CONSTANTS
  Hosts,      \* remote internet hosts (model values)
  Loopback,   \* the loopback address
  Lan,        \* a host on the local network
  Ports,      \* remote ports; contains DNS_SERVER_PORT
  DhcpPorts,  \* the DHCP ports among Ports
  Family      \* Family[h] \in {"v4", "v6"}: the address family of a host

ASSUME DhcpPorts \subseteq Ports
ASSUME Family \in [Hosts -> {"v4", "v6"}]

\* rules/ports.h
DNS_SERVER_PORT == 53
ASSUME DNS_SERVER_PORT \in Ports

AllHosts  == Hosts \cup {Loopback, Lan}
Ifaces    == {"Phys", "Entry", "Exit"}
Sublayers == {"Baseline", "Dns", "Persistent"}
Families  == {"v4", "v6"}

\* A connection attempt the filters are asked about.
Conns == [host : AllHosts, port : Ports, iface : Ifaces]

\* Pool sizes of the pooled rules (MAX_ALLOWED_ENDPOINTS in each .cpp).
RELAY_MAX    == 2
ENDPOINT_MAX == 4

Flt(id, sub, act, hosts, ports, ifaces) ==
  [id |-> id, sub |-> sub, act |-> act, hosts |-> hosts, ports |-> ports,
   ifaces |-> ifaces]

(***************************************************************************)
(* Rules.  A rule is a record of uniform shape; kind names the IFirewallRule *)
(* variant, the other fields carry its configuration snapshot.            *)
(***************************************************************************)
Rule(kind) ==
  [kind |-> kind, iface |-> "none", eps |-> << >>, all |-> TRUE,
   servers |-> {}, alias |-> FALSE]

\* The filters of the rules whose bodies take no configuration.  Inbound
\* and ICMPv6 filters match no outbound connection of Conns (hosts {}).
StaticFilters(kind) ==
  CASE kind = "BlockAll" ->
         {Flt(<<kind>>, "Baseline", "block", AllHosts, Ports, Ifaces)}
    [] kind = "PermitLoopback" ->
         {Flt(<<kind>>, "Baseline", "permit", {Loopback}, Ports, Ifaces)}
    [] kind = "PermitDhcp" ->
         {Flt(<<kind>>, "Baseline", "permit", AllHosts, DhcpPorts, Ifaces)}
    [] kind = "PermitNdp" ->
         {Flt(<<kind>>, "Baseline", "permit", {}, Ports, Ifaces)}
    [] kind = "PermitLan" ->
         {Flt(<<kind>>, "Baseline", "permit", {Lan}, Ports, Ifaces)}
    [] kind = "PermitLanService" ->
         {Flt(<<kind>>, "Baseline", "permit", {}, Ports, Ifaces)}
    [] kind = "PermitDhcpServer" ->
         {Flt(<<kind>>, "Baseline", "permit", {}, Ports, Ifaces)}
    [] kind = "PermitDns" ->
         {Flt(<<kind>>, "Baseline", "permit", AllHosts, {DNS_SERVER_PORT}, Ifaces)}
    [] kind = "DnsPermitLoopback" ->
         {Flt(<<kind>>, "Dns", "permit", {Loopback}, {DNS_SERVER_PORT}, Ifaces)}
    [] kind = "DnsBlockAll" ->
         {Flt(<<kind>>, "Dns", "block", AllHosts, {DNS_SERVER_PORT}, Ifaces)}
    [] kind = "PersistentBlockAll" ->
         {Flt(<<kind>>, "Persistent", "block", AllHosts, Ports, Ifaces)}

StaticKinds ==
  {"BlockAll", "PermitLoopback", "PermitDhcp", "PermitNdp", "PermitLan",
   "PermitLanService", "PermitDhcpServer", "PermitDns", "DnsPermitLoopback",
   "DnsBlockAll", "PersistentBlockAll"}

\* dns::PermitTunnel / dns::PermitNonTunnel: DNS to the given servers, on
\* the exit tunnel only, or (when an exit alias is given) on any other one.
DnsServerFilters(r) ==
  IF r.kind = "DnsPermitTunnel"
  THEN {Flt(<<r.kind>>, "Dns", "permit", r.servers, {DNS_SERVER_PORT}, {"Exit"})}
  ELSE {Flt(<<r.kind>>, "Dns", "permit", r.servers, {DNS_SERVER_PORT},
            IF r.alias THEN Ifaces \ {"Exit"} ELSE Ifaces)}

\* PermitVpnTunnel(Service): everything on the tunnel interface, or only
\* the endpoint(s) named, slot n for the n-th endpoint.
TunnelFilters(r) ==
  IF r.all
  THEN {Flt(<<r.kind, r.iface, 1>>, "Baseline", "permit", AllHosts, Ports, {r.iface})}
  ELSE {Flt(<<r.kind, r.iface, n>>, "Baseline", "permit", {r.eps[n].host},
            {r.eps[n].port}, {r.iface}) : n \in DOMAIN r.eps}

(***************************************************************************)
(* The pooled rules, PermitVpnRelay::apply and PermitEndpoint::apply.  For *)
(* each endpoint the filter is added under the GUID at index count[family] *)
(* of the pool, and only then is the count compared with the pool size.   *)
(* When count = MAX the index is one past the end of the static array: the *)
(* GUID read is whatever the build placed there, modelled as an id outside *)
(* the registry or the first slot of the other family's array.            *)
(***************************************************************************)
PoolMax(kind) == IF kind = "PermitVpnRelay" THEN RELAY_MAX ELSE ENDPOINT_MAX

OtherFamily(f) == IF f = "v4" THEN "v6" ELSE "v4"

\* Mutant: the array is indexed with count + 1, skipping the first slot.
PoolIdsSkipFirst(kind, f, c) ==
  IF c + 1 < PoolMax(kind) THEN {<<kind, f, c + 2>>}
  ELSE {<<kind, f, c + 2>>, <<kind, OtherFamily(f), 1>>}

\* The GUID array entry read at index c of the family's pool.
PoolIds(kind, f, c) ==
  IF c < PoolMax(kind) THEN {<<kind, f, c + 1>>}
  ELSE {<<kind, f, c + 1>>, <<kind, OtherFamily(f), 1>>}

\* Mutant: the bound compared with `>`, one more endpoint before the throw.
PoolExceededLate(c, max) == c > max

\* `ipv4Count++ == MAX_ALLOWED_ENDPOINTS`: the check after the add.
PoolExceeded(c, max) == c = max

PoolFilter(kind, id, e) ==
  Flt(id, e.sub, "permit", {e.host}, {e.port}, Ifaces)

\* The outcomes of applying the endpoints eps[i..] given the ids already in
\* the transaction: "ok" with the filters added, "false" (an addFilter
\* failed, a duplicate key included) or "throw".
RECURSIVE PoolApply(_, _, _, _, _, _)
PoolApply(kind, eps, i, cnt, acc, present) ==
  IF i > Len(eps) THEN {[res |-> "ok", fs |-> acc]}
  ELSE
    LET e == eps[i]
        f == Family[e.host]
        c == cnt[f]
    IN UNION {
         IF id \in present \cup {g.id : g \in acc}
         THEN {[res |-> "false", fs |-> {}]}
         ELSE {[res |-> "false", fs |-> {}]} \cup
              (IF PoolExceeded(c, PoolMax(kind))
               THEN {[res |-> "throw", fs |-> {}]}
               ELSE PoolApply(kind, eps, i + 1, [cnt EXCEPT ![f] = c + 1],
                              acc \cup {PoolFilter(kind, id, e)}, present))
         : id \in PoolIds(kind, f, c)}

\* The filters of a rule without an endpoint pool.
FixedRuleFilters(r) ==
  CASE r.kind \in StaticKinds -> StaticFilters(r.kind)
    [] r.kind \in {"DnsPermitTunnel", "DnsPermitNonTunnel"} -> DnsServerFilters(r)
    [] OTHER -> TunnelFilters(r)

\* The outcomes of rule r's apply() against a transaction holding the
\* filter ids present: every addFilter may fail, and adding an id already
\* present fails.
RuleOutcomes(r, present) ==
  IF r.kind \in {"PermitVpnRelay", "PermitEndpoint"}
  THEN PoolApply(r.kind, r.eps, 1, [f \in Families |-> 0], {}, present)
  ELSE LET fs == FixedRuleFilters(r)
       IN IF \E g \in fs : g.id \in present
          THEN {[res |-> "false", fs |-> {}]}
          ELSE {[res |-> "ok", fs |-> fs], [res |-> "false", fs |-> {}]}

(***************************************************************************)
(* Reference definition of the pooled rules: the i-th endpoint of a family *)
(* takes slot i of that family's pool, and a list fits when no family has *)
(* more endpoints than the pool has slots.                                *)
(***************************************************************************)
PoolSlot(eps, i) ==
  Cardinality({j \in 1..i : Family[eps[j].host] = Family[eps[i].host]})

PoolFits(kind, eps) == \A i \in DOMAIN eps : PoolSlot(eps, i) <= PoolMax(kind)

PoolReference(kind, eps) ==
  {PoolFilter(kind, <<kind, Family[eps[i].host], PoolSlot(eps, i)>>, eps[i])
     : i \in DOMAIN eps}

\* The filters a rule promises to install, and whether it can.
RuleFilters(r) ==
  IF r.kind \in {"PermitVpnRelay", "PermitEndpoint"}
  THEN PoolReference(r.kind, r.eps) ELSE FixedRuleFilters(r)

RuleFits(r) ==
  r.kind \in {"PermitVpnRelay", "PermitEndpoint"} => PoolFits(r.kind, r.eps)

RulesetFilters(rs) == UNION {RuleFilters(rs[i]) : i \in DOMAIN rs}

RulesetFits(rs) == \A i \in DOMAIN rs : RuleFits(rs[i])

(***************************************************************************)
(* Identifier registry: MullvadGuids::DetailedRegistry(IncludeAll).        *)
(***************************************************************************)
PoolRegistry(kind) ==
  {<<kind, f, n>> : f \in Families, n \in 1..PoolMax(kind)}

\* The getters of the persistent and baseline filters, IPv4 and IPv6 twins
\* and both directions as one id.
BaselineRegistry ==
  {<<k>> : k \in {"PersistentBlockAll", "BlockAll", "PermitLan", "PermitLanService",
                  "PermitLoopback", "PermitDhcp", "PermitDhcpServer"}}

\* The tunnel getters: two slots per rule and interface.
TunnelRegistry ==
  {<<k, i, n>> : k \in {"PermitVpnTunnel", "PermitVpnTunnelService"},
                 i \in {"Entry", "Exit"}, n \in 1..2}

\* The getters of the NDP, PermitDns and DNS-sublayer filters.
NdpDnsRegistry ==
  {<<k>> : k \in {"PermitNdp", "PermitDns", "DnsBlockAll", "DnsPermitNonTunnel",
                  "DnsPermitTunnel", "DnsPermitLoopback"}}

Registry ==
  BaselineRegistry \cup NdpDnsRegistry \cup TunnelRegistry
  \cup PoolRegistry("PermitVpnRelay") \cup PoolRegistry("PermitEndpoint")

\* Every rule kind's filter has an id in the registry.
ASSUME {<<k>> : k \in StaticKinds} \subseteq Registry

StructuralObjects ==
  {"Provider", "SublayerBaseline", "SublayerDns",
   "ProviderPersistent", "SublayerPersistent"}
PersistentObjects == {"ProviderPersistent", "SublayerPersistent"}

(***************************************************************************)
(* Ruleset composition (fwcontext.cpp).  Params of a policy call:          *)
(*   settings   [dhcp, lan]                                                *)
(*   relays     sequence of [host, port]                                   *)
(*   allowed    sequence of [host, port]; << >> is the nullopt that        *)
(*              MakeOptionalVector makes of an empty list                  *)
(*   entry/exit whether the tunnel interface alias is set                  *)
(*   esel/xsel  AllowedTunnelTraffic [type, eps]                           *)
(*   tdns/ndns  tunnel / non-tunnel DNS servers                            *)
(***************************************************************************)
\* The params of a context with no policy applied.
NoParams ==
  [settings |-> [dhcp |-> FALSE, lan |-> FALSE], relays |-> << >>,
   allowed |-> << >>, entry |-> FALSE, exit |-> FALSE,
   esel |-> [type |-> "None", eps |-> << >>],
   xsel |-> [type |-> "None", eps |-> << >>], tdns |-> {}, ndns |-> {}]

AppendNetBlockedRules == <<Rule("BlockAll"), Rule("PermitLoopback")>>

\* Mutant: the DNS sublayer's block-all rule is not appended.
AppendSettingsRulesNoDnsBlock(settings) ==
  (IF settings.dhcp THEN <<Rule("PermitDhcp"), Rule("PermitNdp")>> ELSE << >>)
  \o (IF settings.lan
      THEN <<Rule("PermitLan"), Rule("PermitLanService"), Rule("PermitDhcpServer")>>
      ELSE << >>)
  \o <<Rule("PermitDns"), Rule("DnsPermitLoopback")>>

AppendSettingsRules(settings) ==
  (IF settings.dhcp THEN <<Rule("PermitDhcp"), Rule("PermitNdp")>> ELSE << >>)
  \o (IF settings.lan
      THEN <<Rule("PermitLan"), Rule("PermitLanService"), Rule("PermitDhcpServer")>>
      ELSE << >>)
  \o <<Rule("PermitDns"), Rule("DnsPermitLoopback"), Rule("DnsBlockAll")>>

\* Mutant: every relay goes to the baseline sublayer.
RelaySublayerBaselineOnly(port) == "Baseline"

\* A relay on the DNS port is permitted in the DNS sublayer.
RelaySublayer(port) == IF port = DNS_SERVER_PORT THEN "Dns" ELSE "Baseline"

\* TranslateSublayer: the sublayer object a filter is added to.
SublayerObject(s) ==
  CASE s = "Baseline" -> "SublayerBaseline"
    [] s = "Dns"      -> "SublayerDns"
    [] OTHER          -> "SublayerPersistent"

\* PermitVpnRelay::Endpoint: address, port and sublayer (the protocol and
\* client applications are not modelled).
RelayEndpoint(e, sub) == [host |-> e.host, port |-> e.port, sub |-> sub]

\* PermitEndpoint::Endpoint: its filters always go to the baseline sublayer.
AllowedEndpoint(e) == RelayEndpoint(e, "Baseline")

AppendRelayRules(relays) ==
  << [Rule("PermitVpnRelay") EXCEPT !.eps =
        [i \in DOMAIN relays |-> RelayEndpoint(relays[i], RelaySublayer(relays[i].port))]] >>

AppendAllowedEndpointRules(endpoints) ==
  << [Rule("PermitEndpoint") EXCEPT !.eps =
        [i \in DOMAIN endpoints |-> AllowedEndpoint(endpoints[i])]] >>

OptionalAllowedRules(allowed) ==
  IF Len(allowed) > 0 THEN AppendAllowedEndpointRules(allowed) ELSE << >>

TunnelRule(kind, iface, eps) ==
  [Rule(kind) EXCEPT !.iface = iface, !.all = (eps = << >>), !.eps = eps]

\* The twin PermitVpnTunnel / PermitVpnTunnelService rules for one
\* interface and AllowedTunnelTraffic selector; "None" adds nothing.
TunnelRules(iface, sel) ==
  IF sel.type = "None" THEN << >>
  ELSE LET eps == IF sel.type = "All" THEN << >> ELSE sel.eps
       IN <<TunnelRule("PermitVpnTunnel", iface, eps),
            TunnelRule("PermitVpnTunnelService", iface, eps)>>

DnsRule(kind, servers, alias) ==
  [Rule(kind) EXCEPT !.servers = servers, !.alias = alias]

AllTraffic == [type |-> "All", eps |-> << >>]

ComposePolicyBlocked(settings, allowed) ==
  AppendNetBlockedRules \o AppendSettingsRules(settings) \o OptionalAllowedRules(allowed)

ComposePolicyConnecting(p) ==
  AppendNetBlockedRules \o AppendSettingsRules(p.settings)
  \o AppendRelayRules(p.relays) \o OptionalAllowedRules(p.allowed)
  \o (IF p.ndns # {} THEN <<DnsRule("DnsPermitNonTunnel", p.ndns, p.exit)>> ELSE << >>)
  \o (IF p.entry THEN TunnelRules("Entry", p.esel) ELSE << >>)
  \o (IF p.exit THEN TunnelRules("Exit", p.xsel) ELSE << >>)

\* Mutant: the non-tunnel DNS rule is added only when there are no tunnel
\* DNS servers (an else-if where the code has two separate ifs).
ComposePolicyConnectedElseIf(p) ==
  AppendNetBlockedRules \o AppendSettingsRules(p.settings)
  \o AppendRelayRules(p.relays) \o OptionalAllowedRules(p.allowed)
  \o (IF p.exit
      THEN (IF p.tdns # {} THEN <<DnsRule("DnsPermitTunnel", p.tdns, TRUE)>>
            ELSE IF p.ndns # {} THEN <<DnsRule("DnsPermitNonTunnel", p.ndns, TRUE)>>
            ELSE << >>)
           \o TunnelRules("Exit", AllTraffic)
      ELSE << >>)
  \o (IF p.entry THEN TunnelRules("Entry", AllTraffic) ELSE << >>)

ComposePolicyConnected(p) ==
  AppendNetBlockedRules \o AppendSettingsRules(p.settings)
  \o AppendRelayRules(p.relays) \o OptionalAllowedRules(p.allowed)
  \o (IF p.exit
      THEN (IF p.tdns # {} THEN <<DnsRule("DnsPermitTunnel", p.tdns, TRUE)>> ELSE << >>)
           \o (IF p.ndns # {} THEN <<DnsRule("DnsPermitNonTunnel", p.ndns, TRUE)>> ELSE << >>)
           \o TunnelRules("Exit", AllTraffic)
      ELSE << >>)
  \o (IF p.entry THEN TunnelRules("Entry", AllTraffic) ELSE << >>)

(***************************************************************************)
(* Filter arbitration in the filtering engine.  Within a sublayer a        *)
(* matching permit outweighs a matching block (every permit filter of      *)
(* winfw has a higher weight than the block-all filters of its sublayer);  *)
(* a connection is permitted when no sublayer blocks it.                   *)
(***************************************************************************)
Matches(f, c) == c.host \in f.hosts /\ c.port \in f.ports /\ c.iface \in f.ifaces

SublayerBlocks(F, s, c) ==
  /\ \E f \in F : f.sub = s /\ f.act = "block" /\ Matches(f, c)
  /\ ~\E f \in F : f.sub = s /\ f.act = "permit" /\ Matches(f, c)

Permitted(F, c) == \A s \in Sublayers : ~SublayerBlocks(F, s, c)

=============================================================================
