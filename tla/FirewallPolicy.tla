--------------------------- MODULE FirewallPolicy ---------------------------
(***************************************************************************)
(* What winfw promises about the filtering engine, without transactions:  *)
(* the engine holds exactly the complete filter set of the policy the      *)
(* controller reports, and moves from one such set to another in one step. *)
(* A policy whose pooled rules do not fit their pools is never installed. *)
(* After the controlling process is gone ("Down") the engine keeps what it *)
(* had, is emptied, or holds the persistent block.                         *)
(***************************************************************************)
EXTENDS FwRules

CONSTANTS BlockedChoices, ConnectingChoices, ConnectedChoices

VARIABLES
  policy,     \* "Down" (no controller) or the controller's active policy
  params,     \* the params of that policy
  installed   \* the filters in the engine

vars == <<policy, params, installed>>

PersistentBlock == StaticFilters("PersistentBlockAll")

\* The ruleset of each policy, as FwContext composes it.
Ruleset(pol, p) ==
  CASE pol = "Blocked"    -> ComposePolicyBlocked(p.settings, p.allowed)
    [] pol = "Connecting" -> ComposePolicyConnecting(p)
    [] pol = "Connected"  -> ComposePolicyConnected(p)
    [] OTHER              -> << >>

Choices(pol) ==
  CASE pol = "Blocked"    -> BlockedChoices
    [] pol = "Connecting" -> ConnectingChoices
    [] pol = "Connected"  -> ConnectedChoices
    [] OTHER              -> {NoParams}

\* A controller starts with no policy, or with a blocked one.
Start(pol) ==
  /\ policy = "Down"
  /\ \E p \in Choices(pol) :
       /\ RulesetFits(Ruleset(pol, p))
       /\ policy' = pol /\ params' = p
       /\ installed' = RulesetFilters(Ruleset(pol, p))

\* The controller replaces its policy, or clears it.
Switch(pol) ==
  /\ policy # "Down"
  /\ \E p \in Choices(pol) :
       /\ RulesetFits(Ruleset(pol, p))
       /\ policy' = pol /\ params' = p
       /\ installed' = RulesetFilters(Ruleset(pol, p))

\* The controller goes away (teardown or crash); the engine is untouched.
Stop ==
  /\ policy # "Down"
  /\ policy' = "Down"
  /\ UNCHANGED <<params, installed>>

\* Without a controller the engine is emptied, or left blocking.
Purge ==
  /\ policy = "Down"
  /\ installed' = {}
  /\ UNCHANGED <<policy, params>>

Block ==
  /\ policy = "Down"
  /\ installed' = PersistentBlock
  /\ UNCHANGED <<policy, params>>

\* A reboot keeps only persistent filters.
Reboot ==
  /\ policy' = "Down"
  /\ installed' = {f \in installed : f.sub = "Persistent"}
  /\ UNCHANGED params

Init ==
  /\ policy = "Down"
  /\ params = NoParams
  /\ installed = {}

Next ==
  \/ \E pol \in {"None", "Blocked"} : Start(pol)
  \/ \E pol \in {"None", "Blocked", "Connecting", "Connected"} : Switch(pol)
  \/ Stop \/ Purge \/ Block \/ Reboot

Spec == Init /\ [][Next]_vars

=============================================================================
