--------------------------- MODULE Reconciliation ---------------------------
(***************************************************************************)
(* What the reconciler computes from its three inputs: a snapshot of the   *)
(* authorization journal, the anchored tips and a read of the signing      *)
(* service's audit trail.  Pure operators; SigningAudit runs them.         *)
(*                                                                         *)
(* Intervals are half open.  Times are whole instants, so the rounding of  *)
(* binary64 seconds to nanoseconds has no counterpart here.                *)
(***************************************************************************)
EXTENDS Integers, Sequences, FiniteSets, FiniteSetsExt

CONSTANTS
    RecordTTL,      \* pinned bound on the lifetime of an approval
    AttemptBound,   \* pinned bound on the life of a Sign request
    SkewBound,      \* pinned bound on the clocks' distance
    Settle,         \* settle_seconds
    PageSize,       \* events on a page of the audit trail
    PageLimit       \* ReadLimits.pages

ASSUME PolicyAssumption ==
    /\ RecordTTL \in Nat /\ SkewBound \in Nat
    /\ AttemptBound \in Nat \ {0} /\ Settle \in Nat \ {0}
    /\ PageSize \in Nat \ {0} /\ PageLimit \in Nat \ {0}

Interval(a, b) == [start |-> a, end |-> b]
Within(t, i) == i.start <= t /\ t < i.end
Contains(outer, inner) == outer.start <= inner.start /\ inner.end <= outer.end
Overlaps(a, b) == a.start < b.end /\ b.start < a.end
Later(a, b) == IF a < b THEN b ELSE a
Earlier(a, b) == IF a < b THEN a ELSE b
Clip(i, q) == Interval(Later(i.start, q.start), Earlier(i.end, q.end))
Empty(i) == i.start >= i.end

Lookback == RecordTTL + AttemptBound + SkewBound

\* decision_window: when the service may have signed for a record.
DecisionWindow(issued, expires) ==
    Interval(Later(0, issued - SkewBound), expires + AttemptBound + SkewBound)

(***************************************************************************)
(* Reading the audit trail.                                                *)
(***************************************************************************)

Pages(n) == IF n = 0 THEN 1 ELSE (n + PageSize - 1) \div PageSize

\* collect_sign_records: which of n pages are read, and whether an issue ended
\* the reading.  A page that does not come, comes late or is malformed ends it
\* ("stop"); a page left out shows by the ordinal of the next ("omit").
Collect(n, fault, page) ==
    LET most == Earlier(n, PageLimit)
        seen == IF fault # "none" /\ page < most THEN page ELSE most
    IN [seen |-> 0 .. (seen - 1), issue |-> seen < n]

ByArrival(set) == [i \in 1 .. Cardinality(set) |->
    CHOOSE e \in set : Cardinality({f \in set : f.id <= e.id}) = i]

\* The gaps a reader is told of: what retention dropped and the periods in
\* which logging was off, cut to the query.
GapsIn(cond, q) ==
    {g \in {Clip(Interval(0, cond.retention), q)} \cup {Clip(h, q) : h \in cond.gaps} :
        ~Empty(g)}

\* Coverage: what a read claims to have seen.  It is complete up to the first
\* event that was not delivered yet and the first gap.
Coverage(q, now, cond, gaps, undelivered, exhausted) ==
    [requested |-> q,
     covered   |-> Clip(Interval(cond.retention, now), q),
     frontier  |-> Min({now} \cup {e.at : e \in undelivered}
                             \cup {g.start : g \in gaps}),
     gaps      |-> gaps,
     observed  |-> now,
     capability |-> cond.capability,
     attested  |-> cond.attest,
     exhausted |-> exhausted]

\* CloudTrail's entry of a Sign call has no digest.
Normalized(e, cond) ==
    IF cond.capability = "metadata_only" THEN [e EXCEPT !.digest = "absent"] ELSE e

SignRead(events, coverage, cond, issue) ==
    [events |-> {Normalized(e, cond) : e \in events}, coverage |-> coverage,
     provider |-> cond.provider, backend |-> cond.backend, issue |-> issue]

\* _Medium.read through collect_sign_records.  cond is the state of the trail and
\* of the reading.
ReadTrail(trail, visible, q, now, cond) ==
    LET gaps     == GapsIn(cond, q)
        eligible == {e \in trail : Within(e.at, q) /\ e.at >= cond.retention}
        readable == {e \in eligible \cap visible : \A g \in gaps : ~Within(e.at, g)}
        order    == ByArrival(readable)
        pages    == Collect(Pages(Len(order)), cond.fault, cond.page)
    IN SignRead({order[i] : i \in {j \in DOMAIN order : (j - 1) \div PageSize \in pages.seen}},
                Coverage(q, now, cond, gaps, eligible \ visible, ~pages.issue),
                cond, pages.issue)

\* ExportSource: a saved read cut down to the query that is needed.
FromExport(read, q) ==
    [read EXCEPT !.events = {e \in @ : Within(e.at, q)},
                 !.coverage.requested = q,
                 !.coverage.covered   = Clip(@, q),
                 !.coverage.gaps      = {g \in {Clip(h, q) : h \in @} : ~Empty(g)},
                 !.issue = @ \/ ~Contains(read.coverage.requested, q)]

CoverageOk(read, i, now) ==
    /\ ~read.issue
    /\ read.coverage.exhausted
    /\ read.coverage.attested
    /\ read.coverage.observed <= now
    /\ ~Empty(read.coverage.covered)
    /\ Contains(read.coverage.covered, i)
    /\ read.coverage.frontier >= i.end
    /\ \A g \in read.coverage.gaps : ~Overlaps(g, i)

(***************************************************************************)
(* Reading the gate's journal.                                             *)
(***************************************************************************)

\* read_gate on a journal whose rows are genuine: an anchored tip above the
\* rows read is taken for truncation, a last row other than the checkpoint's
\* for a changed snapshot.
GateRead(rows, tips, tip) ==
    IF tips = {} THEN "gate_read_unavailable"
    ELSE IF Max(tips \cup {tip}) > Len(rows) THEN "gate_integrity_failure"
    ELSE IF Len(rows) # tip \/ tip \notin tips THEN "gate_checkpoint_mismatch"
    ELSE "ok"

(***************************************************************************)
(* The comparison.  A record is [of, issued, expires], an event is one of   *)
(* the trail's; caller is the pinned principal.                            *)
(***************************************************************************)

Compatible(e, r, caller) ==
    /\ e.digest = r.of
    /\ e.by = caller
    /\ Within(e.at, DecisionWindow(r.issued, r.expires))

Selected(records, q) ==
    {r \in records : Overlaps(DecisionWindow(r.issued, r.expires), q)}

Extended(records, q) ==
    LET ws == {DecisionWindow(r.issued, r.expires) : r \in Selected(records, q)}
    IN Interval(Min({q.start} \cup {w.start : w \in ws}),
                Max({q.end} \cup {w.end : w \in ws}))

RequiredGate(ext) == Interval(Later(0, ext.start - Lookback), ext.end + SkewBound)

\* A provider's trail is compared only under a pin of its own backend, and a
\* trail without digests never.
ScopeProblems(read) ==
    {p \in {"no_independent_sign_source", "conflicting_identity_mapping", "metadata_only"} :
        \/ p = "no_independent_sign_source" /\ read.backend = "local-hmac"
        \/ /\ p = "conflicting_identity_mapping"
           /\ read.backend # "local-hmac"
           /\ <<read.provider, read.backend>> \notin
                 {<<"model-gcp", "model">>, <<"model-cloudtrail", "model">>,
                  <<"aws-cloudtrail", "aws-kms">>, <<"gcp-audit", "gcp-kms">>,
                  <<"pkcs11", "pkcs11">>}
        \/ /\ p = "metadata_only"
           /\ \/ read.coverage.capability # "digest_bound"
              \/ read.provider \in {"aws-cloudtrail", "model-cloudtrail"}}

Before(e, f) == e.at < f.at \/ (e.at = f.at /\ e.id < f.id)

(***************************************************************************)
(* reconcile().  A case c is what it works on: the gate's records selected *)
(* for the query, the read of the trail, the problems found and the time.  *)
(***************************************************************************)

\* Mutant: how far the checkpoint reaches is not compared with what is needed.
FatalProblemsUncovered(gate, covered, ext, read, now, scopeProblems) ==
    scopeProblems
    \cup (IF gate = "ok" THEN {} ELSE {gate})
    \cup (IF read.issue \/ read.coverage.observed > now THEN {"source_incomplete"} ELSE {})

\* The problems after which no row of the report is conclusive.
FatalProblems(gate, covered, ext, read, now, scopeProblems) ==
    scopeProblems
    \cup (IF gate = "ok" THEN {} ELSE {gate})
    \cup (IF Contains(covered, RequiredGate(ext)) THEN {} ELSE {"gate_coverage_incomplete"})
    \cup (IF read.issue \/ read.coverage.observed > now THEN {"source_incomplete"} ELSE {})

\* Mutant: the coverage of the whole query is left to its rows.
OpenProblemsSettling(ext, read, q, now) ==
    IF now < q.end + Settle THEN {"settling"} ELSE {}

\* Problems that spoil a clean report without making every row indeterminate.
OpenProblems(ext, read, q, now) ==
    (IF CoverageOk(read, ext, now) THEN {} ELSE {"source_coverage_incomplete"})
    \cup (IF now < q.end + Settle THEN {"settling"} ELSE {})

Bound(c) == c.read.coverage.capability = "digest_bound"
Window(r) == DecisionWindow(r.issued, r.expires)

\* The range and the interval are both old enough, and the interval is covered.
Settled(c, i) ==
    /\ ~c.fatal
    /\ c.now >= Later(c.q.end, i.end) + Settle
    /\ CoverageOk(c.read, i, c.now)

Candidates(c, e) == {r \in c.sel : Bound(c) /\ Compatible(e, r, c.caller)}

\* The events a report has a row for, denials aside.
Judged(c) ==
    {e \in c.read.events :
        /\ e.outcome # "denied"
        /\ Within(e.at, c.q) \/ (Bound(c) /\ \E r \in c.sel : r.of = e.digest)}

Affected(c, e) ==
    IF Candidates(c, e) = {} THEN Interval(e.at, e.at + 1)
    ELSE Window(CHOOSE r \in Candidates(c, e) : TRUE)

\* Events that are MATCHED or UNEXPLAINED, the others being INDETERMINATE.
Conclusive(c) ==
    IF c.fatal THEN {}
    ELSE {e \in Judged(c) :
             e.outcome = "success" /\ Bound(c) /\ Settled(c, Affected(c, e))}

\* In the order of time each record explains one of the conclusive events.
Matched(c, conclusive) ==
    {e \in conclusive :
        /\ Candidates(c, e) # {}
        /\ \A f \in conclusive \ {e} :
              Candidates(c, f) = Candidates(c, e) => Before(e, f)}

\* Mutant: events of unknown outcome are passed over.
UncertainIgnored(c, r) == FALSE

\* An event in the window that might be the record's own signature.
Uncertain(c, r) ==
    \E e \in c.read.events :
        /\ Within(e.at, Window(r))
        /\ e.outcome = "unknown" \/ (e.outcome = "success" /\ ~Bound(c))

Unwitnessed(c, used) ==
    {r \in c.sel : Settled(c, Window(r)) /\ r \notin used /\ ~Uncertain(c, r)}

Report(c, open) ==
    LET conclusive == Conclusive(c)
        matched    == Matched(c, conclusive)
        used       == UNION {Candidates(c, e) : e \in matched}
    IN [unexplained |-> conclusive \ matched,
        unwitnessed |-> {r.of : r \in Unwitnessed(c, used)},
        clean       |-> /\ ~c.fatal /\ ~open
                        /\ Judged(c) \subseteq matched
                        /\ \A r \in c.sel : Settled(c, Window(r)) /\ r \in used]

=============================================================================
