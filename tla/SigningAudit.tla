---------------------------- MODULE SigningAudit ----------------------------
(***************************************************************************)
(* An auditor reconciles the signing service's audit trail with the gate's *)
(* journal while both go on: it pins a checkpoint of the journal, may save *)
(* an export of the trail, reads the rows in one transaction, and then     *)
(* the anchor and, without an export, the trail.                           *)
(***************************************************************************)
EXTENDS Signing, Reconciliation

CONSTANTS
    Trails,      \* conditions a read of the trail may meet, with the pinned
                 \* backend: [retention, gaps, provider, backend, capability,
                 \* attest, fault, page]
    Queries,     \* intervals an auditor asks about
    ExportRange, \* the interval an export of the trail is made for
    ExportTimes, \* instants at which exports were made
    PinTimes,    \* bound: instants at which an auditor pins or reads the journal
    AuditTimes   \* bound: instants at which it compares

\* What an audit rests on: the pinned bounds are bounds, and intervals and instants
\* are what Interval lets through.
ASSUME AuditAssumption ==
    /\ SignAttempt <= AttemptBound /\ Skew <= SkewBound
    /\ ExportTimes \subseteq Nat
    /\ \A i \in Queries \cup {ExportRange} : i.start \in Nat /\ i.end \in Nat
    /\ \A c \in Trails :
          /\ c.retention \in Nat /\ c.page \in Nat
          /\ \A g \in c.gaps : g.start \in Nat /\ g.end \in Nat

VARIABLE audit  \* the auditor's progress and report

vars == <<signingVars, audit>>

NoReport == [unexplained |-> {}, unwitnessed |-> {}, clean |-> FALSE]

Init ==
    /\ SigningInit
    /\ audit = [pc |-> "idle", tip |-> 0, tips |-> {}, covered |-> 0, rows |-> 0,
                q |-> Interval(0, 1), report |-> NoReport]

\* The decisions _decisions returns that authorise, with what they were signed for.
RecordsOf(rows) ==
    {[of |-> rows[n].of, issued |-> rows[n].at, expires |-> rows[n].at + TTL] :
        n \in {m \in DOMAIN rows : Authorised(rows[m])}}

\* The auditor pins the journal's last row and the time it is good for, and may
\* save the anchor's history as the ExportAnchor of the command line.
Checkpoint ==
    /\ audit.pc = "idle"
    /\ now \in PinTimes
    /\ audit' = [audit EXCEPT !.pc = "pinned", !.tip = Len(journal),
                               !.tips = anchored, !.covered = now]
    /\ UNCHANGED signingVars

\* What a read of the trail at instant t may have returned, by what had been
\* delivered by then, what was lost and where the reading breaks off
\* (ModelFaults, ModelAuditAdministrator).  An event of instant t itself that
\* the read came too early for is one that was not delivered.
TrailReads(q, t) ==
    LET trail == {e \in events : e.at <= t}
    IN {ReadTrail(trail, visible, q, t, c) : visible \in SUBSET trail, c \in Trails}

\* The source asks the trail itself, or an export of it that was saved earlier.
Evidence(q) ==
    TrailReads(q, now)
    \cup {FromExport(x, q) : x \in UNION {TrailReads(ExportRange, t) : t \in {x \in ExportTimes : x <= now}}}

\* The read transaction of read_gate.
ReadRows ==
    /\ audit.pc = "pinned"
    /\ now \in PinTimes
    /\ audit' = [audit EXCEPT !.pc = "rows", !.rows = Len(journal)]
    /\ UNCHANGED signingVars

\* The rest of reconcile(): the anchor, the trail, the comparison.
Compare(q, tips) ==
    LET rows == SubSeq(journal, 1, audit.rows)
        gate == GateRead(rows, tips, audit.tip)
        recs == IF gate = "ok" THEN RecordsOf(rows) ELSE {}
        ext  == Extended(recs, q)
    IN \E read \in Evidence(ext) :
        LET fatal == FatalProblems(gate, Interval(0, audit.covered), ext, read, now,
                                   ScopeProblems(read))
            c == [sel |-> Selected(recs, q), read |-> read, fatal |-> fatal # {},
                  q |-> q, now |-> now, caller |-> "runner"]
        IN audit' = [audit EXCEPT
               !.pc = "done", !.tip = 0, !.tips = {}, !.covered = 0, !.rows = 0, !.q = q,
               !.report = Report(c, OpenProblems(ext, read, q, now) # {})]

Audit ==
    /\ audit.pc = "rows"
    /\ now \in AuditTimes
    /\ \E q \in Queries, tips \in {anchored, audit.tips} : Compare(q, tips)
    /\ UNCHANGED signingVars

SigningStep == SigningNext /\ UNCHANGED audit

Next == SigningStep \/ Checkpoint \/ ReadRows \/ Audit

Spec == Init /\ [][Next]_vars

(***************************************************************************)
(* Properties.                                                             *)
(***************************************************************************)

MadeEvents == {e \in events : e.made}

TypeOK ==
    /\ now \in 0 .. MaxTime /\ drift \in -Skew .. Skew
    /\ pc \in [Attempts -> PCs]
    /\ result \in [Attempts -> ResultStates]
    /\ flight \subseteq [of : Attempts, since : 0 .. MaxTime]
    /\ \A n \in DOMAIN journal : journal[n] \in Rows
    /\ WellFormed(journal)
    /\ anchored \subseteq DOMAIN journal
    /\ \A e \in events : e \in Events
    /\ audit.pc \in {"idle", "pinned", "rows", "done"}
    /\ audit.report.unexplained \subseteq events
    /\ audit.report.unwitnessed \subseteq Attempts

\* Every signature the gate asked for was asked for after an authorised
\* decision was in the journal and anchored, and an approval that left the
\* authority has an anchored result as well: RecordedApprovalAuthority.authorize.
RecordedBeforeSigned ==
    /\ \A e \in events : ~e.foreign =>
          \E n \in anchored : Authorised(journal[n]) /\ journal[n].of = e.digest
    /\ \A a \in Attempts : pc[a] = "delivered" =>
          /\ \E e \in MadeEvents : e.digest = a /\ ~e.foreign
          /\ \E n \in anchored : /\ journal[n].kind = "result" /\ journal[n].of = a
                                 /\ journal[n].reason = "signed"

\* A forgery signal is never raised by the gate's own signatures: for no
\* digest are more events UNEXPLAINED than were signed without the gate.
NoFalseAlarm ==
    \A d \in Digests :
        Cardinality({e \in audit.report.unexplained : e.digest = d})
            <= Cardinality({e \in ForeignEvents : e.digest = d /\ e.made})

\* After a clean report every signature in the range, seen or not, is accounted
\* for by an authorised decision of its own.
CleanMeansAccounted ==
    audit.report.clean =>
        \A e \in MadeEvents : Within(e.at, audit.q) =>
            /\ \E n \in DOMAIN journal : Authorised(journal[n]) /\ journal[n].of = e.digest
            /\ \A f \in MadeEvents : f # e /\ Within(f.at, audit.q) => f.digest # e.digest

\* A record reported UNWITNESSED was never signed for at the gate's request and
\* never will be, nor by its caller within its window.
UnwitnessedIsFinal ==
    \A a \in audit.report.unwitnessed :
        \A e \in MadeEvents : e.digest = a =>
            /\ e.foreign
            /\ e.by = "runner" => ~Within(e.at, DecisionWindow(IssuedAt(a), IssuedAt(a) + TTL))

=============================================================================
