# TLA+ model of winfw, the Windows firewall controller

This project models the winfw library of nym-vpn-windows
(`src/nym-vpn-windows/winfw/src/winfw/`), which installs the VPN client's
firewall policies into the Windows Filtering Platform (WFP), and checks its
safety properties with TLC.

## The system

| Part | Source | What it does |
|---|---|---|
| Exported API | `winfw.cpp` | `WinFw_Initialize`, `WinFw_InitializeBlocked`, `WinFw_ApplyPolicyBlocked/Connecting/Connected`, `WinFw_Reset`, `WinFw_Deinitialize`. It owns the global `g_fwContext`, maps exceptions to `bool` or `WINFW_POLICY_STATUS` (`HandlePolicyException`: `FWP_E_TIMEOUT` becomes `LOCK_TIMEOUT`), and on `Deinitialize(ContinueBlocking)` of a Blocked context installs a persistent block-all. |
| FwContext | `fwcontext.cpp`, `fwcontext.h` | Holds the session controller, the baseline checkpoint `m_baseline` and `m_activePolicy`. Its constructors purge the engine and add the provider and sublayers (the blocked constructor also applies the blocked policy, after peeking the checkpoint). Each policy call composes a ruleset, reverts to the baseline and applies the rules in one transaction. `activePolicy` changes only after a commit. |
| Rules | `rules/multi/permitvpnrelay.cpp`, `rules/baseline/permitendpoint.cpp`, `rules/baseline/permitvpntunnel*.h` | Each rule adds WFP filters. The two pooled rules take filter GUIDs from fixed per-family arrays (2 relays, 4 endpoints). A relay on port 53 goes in the DNS sublayer. |
| Identifier registry | `mullvadguids.cpp` | The GUIDs the purger knows, including the persistent ones. |
| Session controller, object purger, WFP | not in the source tree | Transactions with begin, body, commit and abort. Also checkpoint and revert, purging by registry, and filter arbitration. These are modelled from the specification. |

How the parts interact: the caller serialises API calls. Each call that reaches
the engine runs as exactly one transaction. The lock can time out when the
transaction begins. Any engine operation or rule can fail, which aborts the
transaction. The commit itself can fail. The process can crash between any two
steps: its session closes, the open transaction aborts, and the objects it
committed stay installed. A reboot drops every object that is not persistent.

## Modules

* `FwRules.tla` holds pure operators. A filter is a record
  `[id, sub, act, hosts, ports, ifaces]`; the IPv4 and IPv6 twins of a filter
  count as one filter, except in the pooled rules. Each rule is a record. The
  file has the filters each rule installs and the outcomes of a rule's
  `apply`: success, `false`, or an exception. `PoolApply` is RECURSIVE and
  translates the pooled rules' loop. It reads the GUID at index `count` before
  the `count++ == MAX` check. Reading one past the end of the array is
  undefined behaviour, modelled as a nondeterministic choice between an
  unregistered GUID and the other family's first slot. The file also has the
  ruleset composition (`AppendSettingsRules`, `AppendRelayRules`,
  `ComposePolicyBlocked/Connecting/Connected`), the registry (one operator per
  group of GUID getters, each filter's IPv4/IPv6 twins as one id), and WFP
  arbitration: within a sublayer a matching permit outweighs a block, and a
  connection is permitted when no sublayer blocks it.
* `SessionController.tla` holds the session controller's operations on a
  transaction in progress, modelled from §4.3 of the specification because
  its source is not in the tree. The controller keeps a change log of the
  objects added through it. A transaction works on a copy of the log: commit
  keeps the copy, abort discards it. `peekCheckpoint` and `checkpoint` return
  a marker into the log, and `Revert` deletes every object recorded after the
  marker. Deleting an object that is no longer there fails. Markers are
  increasing keys in the controller. Because a revert only ever removes a
  suffix of the log, the model represents a marker by the log length. The
  ObjectPurger works on the engine directly and writes nothing to the log.
* `WinFw.tla` is the state machine. Its variables:
  * `structs` and `filters` are the committed engine objects.
  * `ctx` says whether `g_fwContext` exists.
  * `activePolicy` and `baseline` are the FwContext members; `baseline` is
    the checkpoint marker.
  * `records` is the change log of the context's session controller.
  * `call` is the call in progress: its transaction's uncommitted view, its
    body position and the peeked checkpoint.
  * `ret` is the last result.
  * `cfg`, `durable` and `downBlocked` are history variables. They record the
    parameters of the committed policy, whether the persistent block was the
    last commit, and whether a ContinueBlocking teardown of a Blocked context
    happened.

  There is one action per API function (`Initialize`, `InitializeBlocked`,
  `ApplyPolicyBlocked`, `ApplyPolicyConnecting`, `ApplyPolicyConnected`,
  `ApplyInvalidArgument`, `Reset`, `Deinitialize`). Each follows the
  function's guards and early returns and starts a transaction whose body
  lists the engine operations the code performs, in order. The transaction
  runs through `TxBegin`, `TxStep` (one operation or rule per step, where the
  first failure means `TxAbort`) and `TxCommit` (success with `CommitEffects`,
  or a failed commit). `Crash` and `Reboot` are the environment's faults.
  A call's engine session records the lock timeout it was given (`session`),
  converted to milliseconds the way `WinFw_Initialize` does it, in `uint32_t`
  (`TimeoutMs`).
* `FirewallPolicy.tla` is the abstract specification of what the library
  promises. The engine jumps atomically from one committed policy's ruleset to
  the next one. A policy starts only from Down, and only with a ruleset whose
  pools fit. Stop leaves the filters installed, Purge clears them, Block installs
  the persistent block-all, and Reboot keeps only persistent filters. `WinFw`
  refines it under the mapping: the policy is `activePolicy` while a context
  exists and `Down` otherwise, the parameters are `cfg`, and the installed
  filters are the committed `filters`. A transaction in progress maps to
  stuttering.
* `MC_PoolCheck.tla` enumerates every endpoint list of up to 5 entries over two
  IPv4 hosts and one IPv6 host. For each list it compares `PoolApply`, the
  translation of the pooled rules' loop, with `PoolReference`, a direct
  definition: the i-th endpoint of a family takes slot i of that family.
* `MC_WinFw.tla` instantiates the model for TLC with three hosts (two IPv4 and
  one IPv6), the ports {53, 67, 51820} and a few parameter sets per policy.
  The parameter sets include:
  * a relay on port 53;
  * three IPv4 relays, which overflow the 2-slot pool;
  * three IPv6 relays after an IPv4 one, whose one-past-end read may alias
    the IPv4 slot already taken;
  * five IPv4 allowed endpoints, which overflow the 4-slot endpoint pool;
  * a connected policy with LAN access open, a non-tunnel DNS resolver on
    the LAN and an IPv6 allowed endpoint;
  * entry traffic selectors One and Two;
  * an exit tunnel with tunnel and non-tunnel DNS;
  * non-tunnel DNS without an exit alias;
  * open DHCP/LAN settings with an allowed endpoint.

## Runs

| Run | Config | Expect | Shows |
|---|---|---|---|
| core | `MC_WinFw.cfg` | pass | About 29k distinct states, depth 50, under 20 s. Checks `TypeOK` and the properties below. |
| endpoint_dns_port | `MC_WinFw_EndpointDns.cfg` | violation | An allowed endpoint on port 53 is unreachable. |
| deinit_retry | `MC_WinFw_DeinitRetry.cfg` | violation | A retried ContinueBlocking Deinitialize reports success without a block. |
| deinit_reset | `MC_WinFw_DeinitReset.cfg` | violation | A Deinitialize(Reset) without a context reports success and leaves the old filters. |
| pool_reference | `MC_PoolCheck.cfg` | pass | 364 distinct states. The pooled rules install exactly the reference slots when the list fits. Otherwise no outcome succeeds and some outcome throws. |
| timeout_wrap | `MC_WinFw_TimeoutWrap.cfg` | violation | A timeout of 4294968 s becomes a 704 ms lock wait. |

Properties of the core run:

* `LeakFree`: while a policy is active, every connection the committed filters
  permit is one that the policy admits. DNS in particular only goes to
  loopback, to relays on port 53, and to the configured servers on the right
  interface. This holds after any sequence of failures, timeouts and crashes.
* `ConnectivityPreserved`: relays (including one on port 53), the traffic the
  tunnel selectors open, and allowed endpoints off port 53 are all permitted.
* `ResetClearsPolicy`: a context whose policy is None has no filter installed,
  whichever constructor made it. This checks where the checkpoint is taken.
* `SessionLogMatchesEngine`: while a context exists, the objects in its
  session's change log are exactly the committed structural objects and
  filters. This holds after aborted, failed and timed-out transactions.
  Every revert to `m_baseline` depends on it.
* `FiltersRegistered`: no filter is committed under a GUID the purger does not
  know. This covers the one-past-the-end pool read.
* `DurablyBlocked`: after the persistent block is committed, no connection to
  an internet host passes, across crashes and reboots.
* `FailedCallLeavesEngine` (an action property): a call that reports failure
  leaves the engine objects and the active policy as they were.
* `DnsServersReachable`: while a tunnelling policy is active, the DNS servers
  it names get through the DNS sublayer's block-all. Tunnel servers must pass on
  the exit interface once connected with an exit alias. Non-tunnel servers must
  pass off that interface whenever the policy adds their rule: always when
  connecting, and only with an exit alias when connected (`fwcontext.cpp:422`).
* `ImplementsFirewallPolicy` (refinement): `Spec` of `FirewallPolicy` under the
  mapping above. It says no step commits a mix of two policies, and no step
  reports one policy while another is installed.

Each property of the core run, `TypeOK` included, has a mutant in
`PROJECT.json`, and TLC finds the property violated under it. The mutants:
* `HandlePolicyException` returns the raw engine error code instead of a status;
* the DNS block-all is dropped;
* relays are always put in the baseline sublayer;
* the checkpoint is taken late;
* the pool bound is checked with `>`;
* the block uses session-scoped objects;
* an aborted body is committed;
* the non-tunnel DNS rule is added only when there are no tunnel DNS servers,
  an else-if where the code has two ifs (this breaks `DnsServersReachable`);
* an aborted transaction's log entries are kept (this breaks
  `SessionLogMatchesEngine`);
* `activePolicy` is set before the transaction runs (this breaks the refinement).

The `pool_reference` mutant lets the pool skip slot 1.

## Findings

1. **Allowed endpoints on port 53 are blocked** (`endpoint_dns_port`).
   `PermitEndpoint` always installs its filters in the baseline sublayer.
   `AppendSettingsRules` always adds `dns::BlockAll`. Only relays get the
   DNS-sublayer exception (`fwcontext.cpp:104-110`). The specification says
   the blocked policy permits the explicit allowed endpoints.
2. **A failed ContinueBlocking Deinitialize cannot be retried**
   (`deinit_retry`). `winfw.cpp:316-317` deletes the context before the block
   transaction runs. If that transaction fails, the call returns false, and a
   retry takes the `g_fwContext == nullptr` early return (`winfw.cpp:304-307`)
   and returns true without any persistent block.

3. **The lock timeout wraps** (`timeout_wrap`). `winfw.cpp:219` (and `:273`)
   computes `uint32_t timeout_ms = timeout * 1000`. Any timeout above
   4294967 s wraps: 4294968 s gives 704 ms. The specification says a call may
   block for up to the configured timeout.

4. **Deinitialize(Reset) without a context purges nothing**
   (`deinit_reset`). `winfw.cpp:304-307` returns true when `g_fwContext` is
   null. `WinFw_Reset` purges every winfw object in that case
   (`winfw.cpp:585-589`). Suppose the purge of a first Deinitialize(Reset)
   fails, for example on a lock timeout. The context is already deleted, so a
   retry reports success, and the old policy's filters stay installed. The
   same happens after the process that installed them crashed. TLC's shortest
   trace is the crash case. The specification says Deinitialize falls back to
   a full Reset.

## Bounds

The bounds are chosen to make the interesting cases happen:
* The relay pool holds 2 endpoints per family, so three IPv4 relays reach the
  out-of-bounds read.
* Port 53 is in both the relay and the allowed-endpoint sets, so the sublayer
  choice matters.
* One IPv6 host exercises the per-family counters.
* Every engine step may fail, so every partial body is reached.

Call counts need no bound. The state is finite because `call` is reset at
every return, and the history variables are booleans or parameter records.

## Fairness

No liveness property is checked, and `Spec` carries no fairness.
`executeTransaction` runs its body as a finite list of steps with no loop or
retry, so "every call returns" would follow from the shape of the model alone.
The core run checks safety only.

## Not modelled

* Logging and argument marshalling: they only format data. The exception is
  `MakeOptionalVector`'s empty-list-to-nullopt rule, which is modelled.
* Application and protocol conditions of filters, and inbound, NDP and
  DHCP-server filters: their filters match no outbound connection of the
  model.
* Concurrent callers: `g_fwContext` is unsynchronised. §5 of the
  specification makes serialising calls the caller's duty, so a model of two
  unsynchronised threads would only restate that contract.
* Upgrades from earlier versions: `DeprecatedIdentities` is empty in the source,
  so there are no earlier GUIDs to seed the engine with.
* The `DNS_PORTS` 443/853 constants, whose users are outside the source tree.

## Plan for later work

The model covers every state-changing operation of the code in the tree.
What remains is outside it or would restate a contract:
* The session controller on its own, with several checkpoint markers. Its
  source is not in the tree, and FwContext uses a single marker.
* Concurrent callers, and filters of earlier versions (see Not modelled).
