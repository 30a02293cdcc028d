---------------------------- MODULE MC_PoolCheck ----------------------------
(***************************************************************************)
(* Checks PoolApply, the translation of PermitVpnRelay::apply and           *)
(* PermitEndpoint::apply, against the reference definition PoolReference   *)
(* over every endpoint list of up to MaxLen entries drawn from two IPv4    *)
(* hosts and one IPv6 host.  The state is the input list; the steps grow   *)
(* it at the back and shrink it at the front.                              *)
(***************************************************************************)
EXTENDS FwRules

CONSTANTS h1, h2, h3

MCHosts == {h1, h2, h3}
MCFamily == [h \in MCHosts |-> IF h = h3 THEN "v6" ELSE "v4"]
MCPorts == {53, 51820}
MCDhcpPorts == {}

\* One more than the larger pool, so both pools overflow.
MaxLen == ENDPOINT_MAX + 1

VARIABLE eps

Init == eps = << >>

Grow ==
  /\ Len(eps) < MaxLen
  /\ \E h \in Hosts : eps' = Append(eps, [host |-> h, port |-> 51820, sub |-> "Baseline"])

Shrink ==
  /\ eps # << >>
  /\ eps' = Tail(eps)

Next == Grow \/ Shrink

Spec == Init /\ [][Next]_eps

PoolKinds == {"PermitVpnRelay", "PermitEndpoint"}

Outcomes(kind) == PoolApply(kind, eps, 1, [f \in Families |-> 0], {}, {})

\* Applied to an empty transaction, a pooled rule installs exactly one
\* filter per endpoint, the n-th endpoint of a family under the n-th GUID of
\* that family's pool, when every family fits its pool; when one does not,
\* apply never succeeds and throws "Exceeded max allowed endpoints".
PoolMatchesReference ==
  \A kind \in PoolKinds :
    /\ {o.fs : o \in {x \in Outcomes(kind) : x.res = "ok"}}
         = IF PoolFits(kind, eps) THEN {PoolReference(kind, eps)} ELSE {}
    /\ ~PoolFits(kind, eps) => \E o \in Outcomes(kind) : o.res = "throw"

=============================================================================
