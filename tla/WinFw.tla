------------------------------- MODULE WinFw -------------------------------
(***************************************************************************)
(* winfw: the exported API (winfw.cpp), the policy context FwContext       *)
(* (fwcontext.cpp) it drives through the global g_fwContext, and the       *)
(* session controller's transactions against the filtering engine.         *)
(*                                                                         *)
(* One caller thread issues one API call at a time (the library takes no   *)
(* lock; callers serialise).  A call runs as a sequence of steps: begin a  *)
(* transaction, run its body one engine operation or rule at a time,       *)
(* commit.  The process may crash between any two steps, and the machine   *)
(* may reboot, which drops every object not flagged persistent.            *)
(***************************************************************************)
EXTENDS SessionController

CONSTANTS
  BlockedChoices,     \* params of ApplyPolicyBlocked / InitializeBlocked
  ConnectingChoices,  \* params of ApplyPolicyConnecting
  ConnectedChoices,   \* params of ApplyPolicyConnected
  Timeouts            \* the timeout, in seconds, callers pass to Initialize*

ASSUME Timeouts \subseteq Nat

VARIABLES
  structs,       \* committed structural objects (provider, sublayers)
  filters,       \* committed filters
  ctx,           \* g_fwContext # nullptr
  activePolicy,  \* FwContext::m_activePolicy
  baseline,      \* FwContext::m_baseline: the checkpoint marker
  records,       \* the change log of the context's session controller
  call,          \* the API call in progress
  ret,           \* the last call that returned and its result
  cfg,           \* history: params of the policy last committed by a context
  durable,       \* history: the last commit was Deinitialize's persistent block
  downBlocked,   \* history: a ContinueBlocking Deinitialize tore down a
                 \*   context whose policy was Blocked, and no Initialize since
  session        \* the context's engine session: [req |-> the timeout asked
                 \*   for in seconds, ms |-> the wait the session got]

vars == <<structs, filters, ctx, activePolicy, baseline, records, call, ret, cfg,
          durable, downBlocked, session>>

\* `uint32_t timeout_ms = timeout * 1000;` wraps modulo 2^32.  TLC's
\* integers are 32-bit signed, so the product is taken as 8 * (125 t), with
\* (8 x) % 2^32 = 8 * (x % 2^29); exact while 125 t < 2^31.
TimeoutMs(t) == 8 * ((t * 125) % 2^29)

ASSUME \A t \in Timeouts : t * 125 < 2^30

NoSession == [req |-> 0, ms |-> 0]

Policies == {"None", "Blocked", "Connecting", "Connected"}
Statuses == {"Success", "LockTimeout", "GeneralFailure"}


(***************************************************************************)
(* Transaction bodies: each element is one step the caller performs inside *)
(* SessionController::executeTransaction.                                  *)
(***************************************************************************)
Step(kind, obj) == [kind |-> kind, obj |-> obj, rule |-> Rule("none")]
RuleSteps(rs) ==
  [i \in DOMAIN rs |-> [kind |-> "Rule", obj |-> "none", rule |-> rs[i]]]

\* FwContext::applyCommonBaseConfiguration
CommonBaseBody ==
  <<Step("PurgeAll", "none"), Step("AddProvider", "Provider"),
    Step("AddSublayer", "SublayerBaseline"), Step("AddSublayer", "SublayerDns")>>

\* Mutant: the checkpoint is peeked after the blocking rules.
BlockedBaseBodyLateCheckpoint(p) ==
  CommonBaseBody \o RuleSteps(ComposePolicyBlocked(p.settings, p.allowed))
  \o <<Step("Peek", "none")>>

\* FwContext::applyBlockedBaseConfiguration: the checkpoint is peeked after
\* the structural objects and before the blocking rules.
BlockedBaseBody(p) ==
  CommonBaseBody \o <<Step("Peek", "none")>>
  \o RuleSteps(ComposePolicyBlocked(p.settings, p.allowed))

\* FwContext::applyRuleset: revert to the baseline, then apply every rule.
ApplyRulesetBody(rs) == <<Step("Revert", "none")>> \o RuleSteps(rs)

\* FwContext::reset: revert to the baseline, the body's result ignored.
ResetBody == <<Step("Revert", "none")>>

\* Mutant: the session-scoped provider, sublayer and block-all rule are
\* used in place of the persistent ones.
DeinitBlockBodySessionScoped ==
  <<Step("PurgeNonPersistent", "none"), Step("AddProvider", "Provider"),
    Step("AddSublayer", "SublayerBaseline")>>
  \o RuleSteps(<<Rule("BlockAll")>>)

\* WinFw_Deinitialize, ContinueBlocking of a Blocked context.
DeinitBlockBody ==
  <<Step("PurgeNonPersistent", "none"), Step("AddProvider", "ProviderPersistent"),
    Step("AddSublayer", "SublayerPersistent")>>
  \o RuleSteps(<<Rule("PersistentBlockAll")>>)

\* ObjectPurger::Execute(ObjectPurger::GetRemoveAllFunctor())
PurgeAllBody == <<Step("PurgeAll", "none")>>

IdleCall ==
  [op |-> "Idle", stage |-> "none", body |-> << >>, i |-> 1, txS |-> {},
   txF |-> {}, txR |-> << >>, mark |-> 0, p |-> NoParams, preS |-> {}, preF |-> {},
   prePol |-> "None", cl |-> "none", sess |-> NoSession]

\* The caller enters a call whose engine work is one transaction, in the
\* engine session sess.
StartTxnIn(op, body, p, cl, sess) ==
  call' = [IdleCall EXCEPT !.op = op, !.stage = "begin", !.body = body,
             !.p = p, !.preS = structs, !.preF = filters,
             !.prePol = activePolicy, !.cl = cl, !.sess = sess]

StartTxn(op, body, p, cl) == StartTxnIn(op, body, p, cl, session)

\* The call returns status st without changing the engine.
Return(op, cl, st) ==
  /\ call' = IdleCall
  /\ ret' = [op |-> op, cl |-> cl, status |-> st]

(***************************************************************************)
(* Results.  Engine errors surface as WindowsException: a lock timeout at *)
(* the start of a transaction is WINFW_POLICY_STATUS_LOCK_TIMEOUT in the   *)
(* functions returning a status (HandlePolicyException), false in those    *)
(* returning bool; every other failure is a general failure.               *)
(***************************************************************************)
BoolOps == {"Initialize", "InitializeBlocked", "DeinitBlock", "DeinitPurge"}

\* The API function a transaction's op belongs to.
ApiOf(op) ==
  IF op \in {"DeinitBlock", "DeinitPurge"} THEN "Deinitialize"
  ELSE IF op = "Purge" THEN "Reset" ELSE op

\* Mutant: the raw engine error code is returned in place of a status.
FailureStatusRawCode(op, err) ==
  IF err = "timeout" /\ op \notin BoolOps THEN "FWP_E_TIMEOUT" ELSE "GeneralFailure"

FailureStatus(op, err) ==
  IF err = "timeout" /\ op \notin BoolOps THEN "LockTimeout" ELSE "GeneralFailure"

(***************************************************************************)
(* API entry points.  Each is enabled only when the caller is idle.        *)
(***************************************************************************)
Idle == call.op = "Idle"

\* WinFw_Initialize: FwContext(timeout) purges, installs the structural
\* objects, then takes the checkpoint.
Initialize ==
  /\ Idle
  /\ IF ctx
     THEN Return("Initialize", "none", "GeneralFailure")   \* initialized twice
     ELSE \E t \in Timeouts :
            /\ StartTxnIn("Initialize", CommonBaseBody, NoParams, "none",
                          [req |-> t, ms |-> TimeoutMs(t)])
            /\ UNCHANGED ret
  /\ UNCHANGED <<structs, filters, ctx, activePolicy, baseline, records, cfg, durable,
                 downBlocked, session>>

\* WinFw_InitializeBlocked: FwContext(timeout, settings, allowedEndpoints).
InitializeBlocked ==
  /\ Idle
  /\ \E p \in BlockedChoices, t \in Timeouts :
       IF ctx
       THEN Return("InitializeBlocked", "none", "GeneralFailure")
       ELSE /\ StartTxnIn("InitializeBlocked", BlockedBaseBody(p), p, "none",
                           [req |-> t, ms |-> TimeoutMs(t)])
            /\ UNCHANGED ret
  /\ UNCHANGED <<structs, filters, ctx, activePolicy, baseline, records, cfg, durable,
                 downBlocked, session>>

\* The policy an apply operation sets once its transaction commits.
PolicyOf(op) ==
  CASE op = "ApplyPolicyBlocked"    -> "Blocked"
    [] op = "ApplyPolicyConnecting" -> "Connecting"
    [] OTHER                        -> "Connected"

\* Mutant: m_activePolicy is set before applyRuleset runs, whatever its
\* outcome.
ApplyPolicyEarlyFlag(op, ruleset) ==
  /\ Idle
  /\ IF ctx
     THEN /\ StartTxn(op, ApplyRulesetBody(ruleset[1]), ruleset[2], "none")
          /\ activePolicy' = PolicyOf(op)
          /\ UNCHANGED ret
     ELSE /\ Return(op, "none", "GeneralFailure")
          /\ UNCHANGED activePolicy
  /\ UNCHANGED <<structs, filters, ctx, baseline, records, cfg, durable,
                 downBlocked, session>>

\* WinFw_ApplyPolicyBlocked / Connecting / Connected: no context is a
\* general failure; otherwise FwContext::applyRuleset of the composed set.
ApplyPolicy(op, ruleset) ==
  /\ Idle
  /\ IF ctx
     THEN /\ StartTxn(op, ApplyRulesetBody(ruleset[1]), ruleset[2], "none")
          /\ UNCHANGED ret
     ELSE Return(op, "none", "GeneralFailure")
  /\ UNCHANGED <<structs, filters, ctx, activePolicy, baseline, records, cfg, durable,
                 downBlocked, session>>

ApplyPolicyBlocked ==
  \E p \in BlockedChoices :
    ApplyPolicy("ApplyPolicyBlocked",
                <<ComposePolicyBlocked(p.settings, p.allowed), p>>)

ApplyPolicyConnecting ==
  \E p \in ConnectingChoices :
    ApplyPolicy("ApplyPolicyConnecting", <<ComposePolicyConnecting(p), p>>)

ApplyPolicyConnected ==
  \E p \in ConnectedChoices :
    ApplyPolicy("ApplyPolicyConnected", <<ComposePolicyConnected(p), p>>)

\* A required argument is null: THROW_ERROR inside the try, general failure.
ApplyInvalidArgument ==
  /\ Idle
  /\ ctx
  /\ \E op \in {"ApplyPolicyBlocked", "ApplyPolicyConnecting", "ApplyPolicyConnected"} :
       Return(op, "none", "GeneralFailure")
  /\ UNCHANGED <<structs, filters, ctx, activePolicy, baseline, records, cfg, durable,
                 downBlocked, session>>

\* WinFw_Reset: FwContext::reset, or without a context a full purge.
Reset ==
  /\ Idle
  /\ IF ctx THEN StartTxn("Reset", ResetBody, NoParams, "none")
            ELSE StartTxn("Purge", PurgeAllBody, NoParams, "none")
  /\ UNCHANGED <<structs, filters, ctx, activePolicy, baseline, records, ret, cfg,
                 durable, downBlocked, session>>

\* WinFw_Deinitialize: read the active policy, delete the context, then
\* either install the persistent block or fall back to WinFw_Reset, which
\* now finds no context and purges everything.
Deinitialize ==
  /\ Idle
  /\ \E cl \in {"ContinueBlocking", "Reset"} :
       IF ~ctx
       THEN /\ Return("Deinitialize", cl, "Success")
            /\ UNCHANGED <<ctx, activePolicy, baseline, records, downBlocked, session>>
       ELSE LET blocking == cl = "ContinueBlocking" /\ activePolicy = "Blocked"
            IN /\ ctx' = FALSE
               /\ activePolicy' = "None"
               /\ baseline' = 0
               /\ records' = << >>
               /\ IF blocking
                  THEN StartTxn("DeinitBlock", DeinitBlockBody, NoParams, cl)
                  ELSE StartTxn("DeinitPurge", PurgeAllBody, NoParams, cl)
               /\ downBlocked' = (cl = "ContinueBlocking" /\ activePolicy = "Blocked")
               /\ session' = NoSession
               /\ UNCHANGED ret
  /\ UNCHANGED <<structs, filters, cfg, durable>>

(***************************************************************************)
(* Transaction steps, SessionController::executeTransaction: begin, run   *)
(* the body, commit if it succeeded, abort otherwise.                      *)
(***************************************************************************)

\* What a committed call does to the context, beyond the engine.
CommitEffects(c) ==
  CASE c.op = "Initialize" ->
         \* m_baseline = m_sessionController->checkpoint() after the commit
         /\ ctx' = TRUE /\ activePolicy' = "None" /\ baseline' = Len(c.txR)
         /\ cfg' = NoParams /\ durable' = FALSE /\ downBlocked' = FALSE
         /\ session' = c.sess
    [] c.op = "InitializeBlocked" ->
         /\ ctx' = TRUE /\ activePolicy' = "Blocked" /\ baseline' = c.mark
         /\ cfg' = c.p /\ durable' = FALSE /\ downBlocked' = FALSE
         /\ session' = c.sess
    [] c.op \in {"ApplyPolicyBlocked", "ApplyPolicyConnecting", "ApplyPolicyConnected"} ->
         /\ activePolicy' = PolicyOf(c.op)
         /\ cfg' = c.p
         /\ UNCHANGED <<ctx, baseline, durable, downBlocked, session>>
    [] c.op = "Reset" ->
         /\ activePolicy' = "None" /\ cfg' = NoParams
         /\ UNCHANGED <<ctx, baseline, durable, downBlocked, session>>
    [] c.op = "DeinitBlock" ->
         /\ durable' = TRUE
         /\ UNCHANGED <<ctx, activePolicy, baseline, cfg, downBlocked, session>>
    [] c.op = "Purge" ->
         /\ durable' = FALSE /\ downBlocked' = FALSE
         /\ UNCHANGED <<ctx, activePolicy, baseline, cfg, session>>
    [] OTHER ->   \* DeinitPurge
         /\ durable' = FALSE
         /\ UNCHANGED <<ctx, activePolicy, baseline, cfg, downBlocked, session>>

\* Whether the transaction runs in the context's session controller: the
\* persistent block of Deinitialize has one of its own, and the purge of
\* WinFw_Reset without a context none.
OwnSession(op) == op \notin {"DeinitBlock", "DeinitPurge", "Purge"}

\* Opening the session and beginning the transaction; the engine's write
\* lock may not be acquired within the timeout.
TxBegin ==
  /\ call.stage = "begin"
  /\ \/ /\ call' = [call EXCEPT !.stage = "body", !.txS = structs, !.txF = filters,
                                 !.txR = records]
        /\ UNCHANGED ret
     \/ \E err \in {"timeout", "error"} :
          Return(ApiOf(call.op), call.cl, FailureStatus(call.op, err))
  /\ UNCHANGED <<structs, filters, ctx, activePolicy, baseline, records, cfg, durable,
                 downBlocked, session>>

\* Mutant: a body that returned false is committed as far as it got.
TxAbortCommits ==
  /\ structs' = call.txS
  /\ filters' = call.txF
  /\ Return(ApiOf(call.op), call.cl, "GeneralFailure")
  /\ UNCHANGED records

\* Mutant: the aborted transaction's change log is kept as the session's.
TxAbortKeepsRecords ==
  /\ records' = call.txR
  /\ Return(ApiOf(call.op), call.cl, "GeneralFailure")
  /\ UNCHANGED <<structs, filters>>

\* The body returned false or threw: the transaction is aborted, its
\* engine writes and its log entries discarded.
TxAbort ==
  /\ Return(ApiOf(call.op), call.cl, "GeneralFailure")
  /\ UNCHANGED <<structs, filters, records>>

\* One step of the body; the first failure (false or an exception) ends
\* the body and the transaction is aborted.
TxStep ==
  /\ call.stage = "body"
  /\ call.i <= Len(call.body)
  /\ \E o \in StepOutcomes(call, call.body[call.i], baseline) :
       IF o.ok
       THEN /\ call' = [call EXCEPT !.i = @ + 1, !.txS = o.txS, !.txF = o.txF,
                                    !.txR = o.txR, !.mark = o.mark]
            /\ UNCHANGED <<ret, structs, filters, records>>
       ELSE TxAbort
  /\ UNCHANGED <<ctx, activePolicy, baseline, cfg, durable, downBlocked, session>>

\* The body returned true: commit, which may itself fail.
TxCommit ==
  /\ call.stage = "body"
  /\ call.i > Len(call.body)
  /\ \/ /\ structs' = call.txS
        /\ filters' = call.txF
        /\ records' = IF OwnSession(call.op) THEN call.txR ELSE records
        /\ CommitEffects(call)
        /\ Return(ApiOf(call.op), call.cl, "Success")
     \/ /\ Return(ApiOf(call.op), call.cl, "GeneralFailure")
        /\ UNCHANGED <<structs, filters, ctx, activePolicy, baseline, records, cfg,
                       durable, downBlocked, session>>

(***************************************************************************)
(* Failures of the environment.  A crashed process loses its context; its *)
(* session closes, which aborts an open transaction, but the objects it    *)
(* committed stay in the engine.  A reboot also drops every object that is *)
(* not persistent.                                                         *)
(***************************************************************************)
Crash ==
  /\ ctx \/ ~Idle
  /\ ctx' = FALSE
  /\ activePolicy' = "None"
  /\ baseline' = 0
  /\ records' = << >>
  /\ call' = IdleCall
  /\ session' = NoSession
  /\ UNCHANGED <<structs, filters, ret, cfg, durable, downBlocked>>

Reboot ==
  /\ \/ structs \ PersistentObjects # {}
     \/ \E f \in filters : f.sub # "Persistent"
  /\ structs' = structs \cap PersistentObjects
  /\ filters' = {f \in filters : f.sub = "Persistent"}
  /\ ctx' = FALSE
  /\ activePolicy' = "None"
  /\ baseline' = 0
  /\ records' = << >>
  /\ call' = IdleCall
  /\ session' = NoSession
  /\ UNCHANGED <<ret, cfg, durable, downBlocked>>

Init ==
  /\ structs = {}
  /\ filters = {}
  /\ ctx = FALSE
  /\ activePolicy = "None"
  /\ baseline = 0
  /\ records = << >>
  /\ call = IdleCall
  /\ ret = [op |-> "none", cl |-> "none", status |-> "Success"]
  /\ cfg = NoParams
  /\ durable = FALSE
  /\ downBlocked = FALSE
  /\ session = NoSession

Next ==
  \/ Initialize \/ InitializeBlocked
  \/ ApplyPolicyBlocked \/ ApplyPolicyConnecting \/ ApplyPolicyConnected
  \/ ApplyInvalidArgument \/ Reset \/ Deinitialize
  \/ TxBegin \/ TxStep \/ TxCommit
  \/ Crash \/ Reboot

Spec == Init /\ [][Next]_vars


-----------------------------------------------------------------------------
(***************************************************************************)
(* Properties                                                              *)
(***************************************************************************)
TypeOK ==
  /\ structs \subseteq StructuralObjects
  /\ \A f \in filters :
       /\ f.sub \in Sublayers /\ f.act \in {"permit", "block"}
       /\ f.hosts \subseteq AllHosts /\ f.ports \subseteq Ports
       /\ f.ifaces \subseteq Ifaces
  /\ ctx \in BOOLEAN
  /\ activePolicy \in Policies
  /\ call.op \in {"Idle", "Initialize", "InitializeBlocked", "ApplyPolicyBlocked",
                  "ApplyPolicyConnecting", "ApplyPolicyConnected", "Reset",
                  "Purge", "DeinitBlock", "DeinitPurge"}
  /\ call.stage \in {"none", "begin", "body"}
  /\ ret.status \in Statuses
  /\ durable \in BOOLEAN /\ downBlocked \in BOOLEAN
  /\ session \in [req : Timeouts \cup {0}, ms : Nat]
  /\ baseline \in Nat
  /\ \A i \in DOMAIN records :
       records[i].cat \in {"S", "F"} /\ records[i].obj \in StructuralObjects \cup {"none"}

Endpoint(c) == [host |-> c.host, port |-> c.port]
Tunnelling(pol) == pol \in {"Connecting", "Connected"}

\* Whether policy pol with params p lets connection c through its tunnel
\* interface: everything once connected, else as AllowedTunnelTraffic says.
TunnelOpen(pol, p, c) ==
  LET SelOpen(sel) ==
        \/ pol = "Connected"
        \/ sel.type = "All"
        \/ sel.type \in {"One", "Two"} /\ Endpoint(c) \in Range(sel.eps)
  IN \/ c.iface = "Entry" /\ p.entry /\ Tunnelling(pol) /\ SelOpen(p.esel)
     \/ c.iface = "Exit" /\ p.exit /\ Tunnelling(pol) /\ SelOpen(p.xsel)

\* The traffic policy pol with params p admits.  DNS goes only to the
\* loopback resolver, to a relay on the DNS port, and to the configured
\* DNS servers: non-tunnel ones outside the exit tunnel, tunnel ones
\* inside it.  Other traffic goes to loopback, the LAN and DHCP when the
\* settings allow it, allowed endpoints, relays and the open tunnels.
ExpectedConn(pol, p, c) ==
  IF c.port = DNS_SERVER_PORT
  THEN \/ c.host = Loopback
       \/ Tunnelling(pol) /\ Endpoint(c) \in Range(p.relays)
       \/ /\ c.host \in p.ndns
          /\ pol = "Connecting" \/ (pol = "Connected" /\ p.exit)
          /\ ~(c.iface = "Exit" /\ p.exit)
       \/ pol = "Connected" /\ p.exit /\ c.iface = "Exit" /\ c.host \in p.tdns
  ELSE \/ c.host = Loopback
       \/ c.host = Lan /\ p.settings.lan
       \/ c.port \in DhcpPorts /\ p.settings.dhcp
       \/ Endpoint(c) \in Range(p.allowed)
       \/ Tunnelling(pol) /\ Endpoint(c) \in Range(p.relays)
       \/ TunnelOpen(pol, p, c)

\* No leak: while a context holds a policy, every connection the committed
\* filters permit is one that policy admits, over every interface; in
\* particular DNS to a LAN resolver or to an arbitrary host never passes
\* (the DNS sublayer of AppendSettingsRules), whatever calls failed,
\* crashed or timed out before.
LeakFree ==
  ctx /\ activePolicy # "None" =>
    \A c \in Conns : Permitted(filters, c) => ExpectedConn(activePolicy, cfg, c)

\* Connectivity: while connecting or connected every relay is reachable
\* over the physical interface (a relay on the DNS port included, through
\* the DNS sublayer) and every traffic the tunnel selectors open passes;
\* in every policy the allowed endpoints off the DNS port are reachable.
ConnectivityPreserved ==
  ctx /\ activePolicy # "None" =>
    /\ Tunnelling(activePolicy) =>
         \A r \in Range(cfg.relays) :
           Permitted(filters, [host |-> r.host, port |-> r.port, iface |-> "Phys"])
    /\ \A c \in Conns :
         c.port # DNS_SERVER_PORT /\ TunnelOpen(activePolicy, cfg, c)
           => Permitted(filters, c)
    /\ \A e \in Range(cfg.allowed) :
         e.port # DNS_SERVER_PORT =>
           Permitted(filters, [host |-> e.host, port |-> e.port, iface |-> "Phys"])

\* Reverting to the checkpoint leaves only the structural objects: a
\* context whose active policy is None has no filter installed, however
\* it was created (FwContext's two constructors) and whatever it applied.
ResetClearsPolicy ==
  ctx /\ activePolicy = "None" =>
    /\ filters = {}
    /\ {"Provider", "SublayerBaseline", "SublayerDns"} \subseteq structs

\* The session controller's change log agrees with the engine: while a
\* context exists, the objects its log records are exactly the structural
\* objects and filters committed to the engine, after any aborted, failed
\* or timed-out transaction.  FwContext reverts to m_baseline through this
\* log; an entry for an object that is gone makes every later revert fail,
\* an object missing from it survives every revert.
SessionLogMatchesEngine ==
  ctx => RecordedStructs(records) = structs /\ RecordedFilters(records) = filters

\* Every committed filter has a GUID of the registry, so ObjectPurger can
\* remove it: the pooled rules never commit the GUID read one past the end
\* of their pool when given more endpoints of a family than it holds.
FiltersRegistered == \A f \in filters : f.id \in Registry

\* A call that reports failure (false, LOCK_TIMEOUT or GENERAL_FAILURE)
\* leaves the engine and the active policy as they were when it started.
FailedCallLeavesEngine ==
  [][~Idle /\ call'.op = "Idle" /\ ret'.status # "Success" /\ ret' # ret
     => /\ filters' = call.preF /\ structs' = call.preS
        /\ (call.op \notin {"DeinitBlock", "DeinitPurge"} => activePolicy' = call.prePol)
    ]_vars

\* After a successful ContinueBlocking Deinitialize of a Blocked context
\* the network stays blocked, across process exits and reboots, until the
\* next Initialize or Reset.
DurablyBlocked ==
  durable => \A c \in Conns : c.host \in Hosts => ~Permitted(filters, c)

\* Every allowed endpoint of the active policy is reachable (§4.4: the
\* blocked policy is BlockAll plus settings rules plus the explicit allowed
\* endpoints), whatever its port.
AllowedEndpointsReachable ==
  ctx /\ activePolicy # "None" =>
    \A e \in Range(cfg.allowed) :
      Permitted(filters, [host |-> e.host, port |-> e.port, iface |-> "Phys"])

\* A Deinitialize(ContinueBlocking) that reports success after tearing down
\* a Blocked context has left the persistent block installed (§6: the
\* network stays blocked after the controlling process exits).
DeinitHonoursBlocking ==
  ret.op = "Deinitialize" /\ ret.cl = "ContinueBlocking" /\ ret.status = "Success"
  /\ downBlocked
    => \E f \in filters : f.id = <<"PersistentBlockAll">>

\* A Deinitialize(Reset) that reports success has removed every winfw
\* object, as WinFw_Reset does when no context exists (§6: otherwise it
\* falls back to a full Reset).
DeinitResetClears ==
  ret.op = "Deinitialize" /\ ret.cl = "Reset" /\ ret.status = "Success"
    => filters = {} /\ structs = {}

\* The engine always holds exactly the complete filter set of the policy
\* the controller reports and changes from one such set to the next in one
\* step: no half-applied ruleset, no ruleset whose pools overflowed, and
\* after the controller is gone only emptying or the persistent block.
FP == INSTANCE FirewallPolicy
        WITH policy <- IF ctx THEN activePolicy ELSE "Down",
             params <- cfg,
             installed <- filters

ImplementsFirewallPolicy == FP!Spec

\* The DNS servers of a tunnelling policy stay reachable through the DNS
\* sublayer's block-all, after any aborted or failed transaction: once
\* connected with an exit alias the tunnel servers on the exit interface,
\* and the non-tunnel servers off it whenever the policy adds their rule
\* (always when connecting, only with an exit alias when connected).
DnsServersReachable ==
  ctx /\ Tunnelling(activePolicy) =>
    LET Dns(h, i) == [host |-> h, port |-> DNS_SERVER_PORT, iface |-> i]
    IN /\ activePolicy = "Connected" /\ cfg.exit =>
            \A h \in cfg.tdns : Permitted(filters, Dns(h, "Exit"))
       /\ activePolicy = "Connecting" \/ cfg.exit =>
            \A h \in cfg.ndns : Permitted(filters, Dns(h, "Phys"))

\* The engine session of a context waits for the write lock as long as the
\* caller asked: the timeout of WinFw_Initialize(Blocked), in seconds, in
\* milliseconds (a call "may block up to a configured timeout").
SessionTimeoutAsRequested ==
  ctx => session.ms % 1000 = 0 /\ session.ms \div 1000 = session.req

=============================================================================
