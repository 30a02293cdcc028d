-------------------------- MODULE SessionController --------------------------
(***************************************************************************)
(* The session controller winfw runs its transactions through, and the    *)
(* engine operations a transaction body performs on it (SessionController, *)
(* ObjectPurger, IFirewallRule::apply).  Its source is not part of the     *)
(* repository; the operators follow the contract of §4.3 of the            *)
(* specification.                                                          *)
(*                                                                         *)
(* The controller keeps a change log of the objects added through it in    *)
(* its session.  A transaction works on a copy of the log: commit keeps    *)
(* the copy, abort discards it with the engine writes.  checkpoint() and   *)
(* peekCheckpoint() return a marker into the log; revert(marker) deletes,  *)
(* newest first, every object recorded after the marker.  Markers are      *)
(* increasing keys in the controller; since revert only ever removes a     *)
(* suffix of the log, a key is represented by the length of the log when  *)
(* it was taken.  ObjectPurger works on the engine directly and is not     *)
(* logged.                                                                 *)
(*                                                                         *)
(* A transaction in progress is a record c with the engine view txS (the   *)
(* structural objects) and txF (the filters), the log copy txR, and mark,  *)
(* the marker the body peeked.  Each operation yields a set of outcomes,   *)
(* of the same shape with a flag ok; every engine operation may fail.      *)
(***************************************************************************)
EXTENDS FwRules, SequencesExt

\* Entries of the change log: a structural object or a filter.
NoFilter == Flt(<<"none">>, "Baseline", "permit", {}, {}, {})
StructRecord(o) == [cat |-> "S", obj |-> o, flt |-> NoFilter]
FilterRecord(f) == [cat |-> "F", obj |-> "none", flt |-> f]

RecordedStructs(R) == {R[i].obj : i \in {j \in DOMAIN R : R[j].cat = "S"}}
RecordedFilters(R) == {R[i].flt : i \in {j \in DOMAIN R : R[j].cat = "F"}}

Ids(F) == {f.id : f \in F}
Unregistered(F) == {f \in F : f.id \notin Registry}

Fail(c) == [ok |-> FALSE, txS |-> c.txS, txF |-> c.txF, txR |-> c.txR, mark |-> c.mark]
Ok(c, S, F, R) == [ok |-> TRUE, txS |-> S, txF |-> F, txR |-> R, mark |-> c.mark]

\* ObjectPurger: removes every registered object; a sublayer still holding
\* a filter the registry does not know cannot be deleted.
\* kept is the set of sublayers whose objects survive the purge.
PurgeOutcome(c, kept) ==
  IF \E f \in Unregistered(c.txF) : f.sub \notin kept THEN Fail(c)
  ELSE Ok(c, IF "Persistent" \in kept THEN c.txS \cap PersistentObjects ELSE {},
          {f \in c.txF : f.sub \in kept}, c.txR)

KeepNothing == {}
KeepPersistent == {"Persistent"}

\* SessionController::addProvider / addSublayer: creation keyed by the
\* registry, idempotent; a new object is recorded in the log.
AddObject(c, o) ==
  IF o \in c.txS THEN Ok(c, c.txS, c.txF, c.txR)
  ELSE Ok(c, c.txS \cup {o}, c.txF, Append(c.txR, StructRecord(o)))

\* Mutant: revert also deletes the object recorded at the marker itself.
RevertFromMarker(c, m) ==
  LET undone == SubSeq(c.txR, m, Len(c.txR))
  IN IF RecordedStructs(undone) \subseteq c.txS /\ RecordedFilters(undone) \subseteq c.txF
     THEN Ok(c, c.txS \ RecordedStructs(undone), c.txF \ RecordedFilters(undone),
             SubSeq(c.txR, 1, m - 1))
     ELSE Fail(c)

\* SessionController::revert(marker): delete every object recorded after
\* the marker and drop its records; deleting an object that is no longer
\* in the engine fails.
Revert(c, m) ==
  LET undone == SubSeq(c.txR, m + 1, Len(c.txR))
  IN IF RecordedStructs(undone) \subseteq c.txS /\ RecordedFilters(undone) \subseteq c.txF
     THEN Ok(c, c.txS \ RecordedStructs(undone), c.txF \ RecordedFilters(undone),
             SubSeq(c.txR, 1, m))
     ELSE Fail(c)

\* IObjectInstaller::addFilter calls of one rule, through the controller:
\* the rule needs its sublayer in place; its filters are recorded.
ApplyRuleOutcomes(c, r) ==
  {IF o.res = "ok" /\ \A f \in o.fs : SublayerObject(f.sub) \in c.txS
   THEN Ok(c, c.txS, c.txF \cup o.fs,
           c.txR \o SetToSeq({FilterRecord(f) : f \in o.fs}))
   ELSE Fail(c)
   : o \in RuleOutcomes(r, Ids(c.txF))}

\* The outcomes of body step st; base is the marker a revert goes back to.
StepOutcomes(c, st, base) ==
  CASE st.kind = "PurgeAll" -> {PurgeOutcome(c, KeepNothing), Fail(c)}
    [] st.kind = "PurgeNonPersistent" -> {PurgeOutcome(c, KeepPersistent), Fail(c)}
    [] st.kind \in {"AddProvider", "AddSublayer"} -> {AddObject(c, st.obj), Fail(c)}
    [] st.kind = "Revert" -> {Revert(c, Min({base, Len(c.txR)})), Fail(c)}
    [] st.kind = "Peek" -> {[Ok(c, c.txS, c.txF, c.txR) EXCEPT !.mark = Len(c.txR)]}
    [] st.kind = "Rule" -> ApplyRuleOutcomes(c, st.rule)

=============================================================================
