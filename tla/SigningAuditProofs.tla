------------------------- MODULE SigningAuditProofs -------------------------
(***************************************************************************)
(* Proofs about SigningAudit, for any number of attempts, any clock drift   *)
(* within its bound, and any trail, page size, query and export.            *)
(***************************************************************************)
EXTENDS SigningAudit, FiniteSetTheorems, TLAPS

(***************************************************************************)
(* The inductive invariant.                                                *)
(***************************************************************************)

Started == {"wait", "result", "resulted", "deliver", "delivered", "over"}

\* The authorised decision of a is in the journal and anchored.
Recorded(a) == \E n \in anchored : Authorised(journal[n]) /\ journal[n].of = a

Own == {e \in events : ~e.foreign}

Types ==
    /\ now \in Nat /\ Skew <= now /\ now <= MaxTime
    /\ drift \in Int /\ -Skew <= drift /\ drift <= Skew
    /\ pc \in [Attempts -> PCs]
    /\ result \in [Attempts -> ResultStates]
    /\ flight \subseteq [of : Attempts, since : 0 .. MaxTime]
    /\ journal \in Seq(Rows)
    /\ anchored \subseteq DOMAIN journal
    /\ events \subseteq Events

JournalInv ==
    /\ WellFormed(journal)
    /\ \A n \in DOMAIN journal : journal[n].kind = "decision" =>
          0 <= journal[n].at /\ journal[n].at <= gateNow

\* An attempt past its first row has it recorded, and what it says of its result
\* is what its own signature and the journal say.
AttemptInv(a) ==
    /\ pc[a] = "decided" =>
          \E n \in DOMAIN journal : RowsOf(a) = {n} /\ journal[n].kind = "decision"
    /\ pc[a] \in {"check", "wait", "result", "resulted", "deliver", "delivered"} => Recorded(a)
    /\ pc[a] = "resulted" =>
          \E n \in RowsOf(a) :
             /\ journal[n] = [kind |-> "result", of |-> a, reason |-> result[a]]
             /\ \A m \in RowsOf(a) : m <= n
    /\ result[a] = "signed" => \E e \in Own : e.made /\ e.digest = a
    /\ pc[a] \in {"deliver", "delivered"} =>
          /\ \E e \in Own : e.made /\ e.digest = a
          /\ \E n \in anchored : journal[n] = [kind |-> "result", of |-> a, reason |-> "signed"]

\* A request in flight, and the call it makes at most one of.
FlightInv ==
    /\ \A f \in flight :
          /\ Recorded(f.of) /\ pc[f.of] \in Started
          /\ IssuedAt(f.of) <= f.since + drift /\ f.since + drift < IssuedAt(f.of) + TTL
          /\ f.since <= now /\ now < f.since + SignAttempt
          /\ \A e \in Own : e.digest # f.of
    /\ \A f, g \in flight : f.of = g.of => f = g

\* The gate's own calls are recorded, one for an attempt, and lie in the window.
OwnInv ==
    /\ \A e \in Own :
          /\ Recorded(e.digest) /\ e.by = "runner"
          /\ e.digest \in Attempts /\ pc[e.digest] \in Started
          /\ IssuedAt(e.digest) - Skew <= e.at
          /\ e.at < IssuedAt(e.digest) + TTL + SignAttempt + Skew
    /\ \A e, f \in Own : e.digest = f.digest => e = f

TrailInv ==
    /\ IsFiniteSet(events)
    /\ \A e \in events :
          /\ e.at <= now /\ 1 <= e.id /\ e.id <= Cardinality(events)
          /\ e.outcome = "success" => e.made
          /\ e.made => e.outcome # "denied"
    /\ \A e, f \in events : e.id = f.id => e = f

SigningInv ==
    /\ Types /\ JournalInv /\ (\A a \in Attempts : AttemptInv(a))
    /\ FlightInv /\ OwnInv /\ TrailInv

\* What the checkpoint covers: the decisions of the gate's calls before it.
PinInv ==
    /\ audit.pc \in {"idle", "pinned", "rows", "done"}
    /\ audit.pc \in {"pinned", "rows"} =>
          /\ audit.covered \in Nat /\ audit.covered <= now
          /\ audit.tip \in Nat /\ audit.tip <= Len(journal)
          /\ audit.tips \subseteq Nat
          /\ \A e \in Own : e.at < audit.covered =>
                \E n \in 1 .. audit.tip : Authorised(journal[n]) /\ journal[n].of = e.digest
    /\ audit.pc = "rows" => audit.rows \in Nat /\ audit.rows <= Len(journal)

\* The report is about events before it: a call of the gate's is UNEXPLAINED only
\* beside a foreign one that took its record.
AlarmInv ==
    /\ audit.report.unexplained \subseteq MadeEvents
    /\ \A e \in audit.report.unexplained : ~e.foreign =>
          \E f \in MadeEvents : f.foreign /\ f.digest = e.digest /\ f \notin audit.report.unexplained

\* The windows of the records that are UNWITNESSED are over.
WitnessInv ==
    \A a \in audit.report.unwitnessed :
        /\ a \in Attempts
        /\ \E n \in DOMAIN journal : Authorised(journal[n]) /\ journal[n].of = a
        /\ DecisionWindow(IssuedAt(a), IssuedAt(a) + TTL).end <= now

\* A report that is clean is about a range that is over.
CleanInv == audit.report.clean => audit.q.end \in Nat /\ audit.q.end <= now

ReportInv == AlarmInv /\ WitnessInv /\ UnwitnessedIsFinal /\ CleanInv /\ CleanMeansAccounted

AuditShape ==
    audit = [pc |-> audit.pc, tip |-> audit.tip, tips |-> audit.tips, covered |-> audit.covered,
             rows |-> audit.rows, q |-> audit.q, report |-> audit.report]

Inv == AuditShape /\ SigningInv /\ PinInv /\ ReportInv
-----------------------------------------------------------------------------
(***************************************************************************)
(* The journal.                                                            *)
(***************************************************************************)

\* What the rows of the journal are made of.
LEMMA RowFields ==
    ASSUME NEW row \in Rows
    PROVE  /\ row.kind \in {"decision", "result", "other"}
           /\ row.kind # "other" => row.of \in Attempts
           /\ row.kind = "decision" => row.at \in Int /\ row.reason \in REASONS
           /\ row.kind = "result" => row.reason \in ResultStates
BY DEF Rows

\* An authorised row is a decision of an attempt.
LEMMA AuthorisedRow ==
    ASSUME NEW j \in Seq(Rows), NEW n \in DOMAIN j, Authorised(j[n])
    PROVE  /\ j[n].kind = "decision" /\ j[n].of \in Attempts /\ j[n].at \in Int
<1>1. j[n] \in Rows
  OBVIOUS
<1> QED BY <1>1, RowFields DEF Authorised

\* A journal with one more row.
LEMMA OneMoreRow ==
    ASSUME NEW j \in Seq(Rows), NEW row \in Rows
    PROVE  /\ Append(j, row) \in Seq(Rows)
           /\ DOMAIN j = 1 .. Len(j) /\ Len(j) \in Nat
           /\ DOMAIN Append(j, row) = DOMAIN j \cup {Len(j) + 1}
           /\ \A n \in DOMAIN j : Append(j, row)[n] = j[n]
           /\ Append(j, row)[Len(j) + 1] = row
           /\ Len(j) + 1 \notin DOMAIN j
OBVIOUS

\* An attempt has one decision, so its issued_at is that row's.
LEMMA TheDecision ==
    ASSUME NEW j \in Seq(Rows), WellFormed(j), NEW n \in DOMAIN j, j[n].kind = "decision"
    PROVE  (CHOOSE k \in {m \in DOMAIN j : j[m].kind # "other" /\ j[m].of = j[n].of} :
                j[k].kind = "decision") = n
<1> DEFINE S == {m \in DOMAIN j : j[m].kind # "other" /\ j[m].of = j[n].of}
<1>1. n \in S
  OBVIOUS
<1>2. ASSUME NEW k \in S, j[k].kind = "decision"
      PROVE  k = n
  <2>1. k \in Int /\ n \in Int /\ k \in DOMAIN j
    OBVIOUS
  <2>2. CASE k < n
    <3>1. k \in 1 .. (n - 1)
      BY <2>1, <2>2
    <3> QED BY <3>1, <1>2 DEF WellFormed
  <2>3. CASE n < k
    <3>1. n \in 1 .. (k - 1)
      BY <2>1, <2>3
    <3> QED BY <3>1, <1>2 DEF WellFormed
  <2> QED BY <2>1, <2>2, <2>3
<1> DEFINE c == CHOOSE k \in S : j[k].kind = "decision"
<1>3. c \in S /\ j[c].kind = "decision"
  BY <1>1
<1> HIDE DEF c, S
<1>4. c = n
  BY <1>2, <1>3
<1> QED BY <1>4 DEF c, S

\* Two authorised rows of one attempt are the same row.
LEMMA OneDecision ==
    ASSUME NEW j \in Seq(Rows), WellFormed(j),
           NEW m \in DOMAIN j, NEW n \in DOMAIN j,
           j[m].kind = "decision", j[n].kind = "decision", j[m].of = j[n].of
    PROVE  m = n
<1>1. m \in Int /\ n \in Int
  OBVIOUS
<1>2. CASE m < n
  <2>1. m \in 1 .. (n - 1)
    BY <1>1, <1>2
  <2> QED BY <2>1 DEF WellFormed
<1>3. CASE n < m
  <2>1. n \in 1 .. (m - 1)
    BY <1>1, <1>3
  <2> QED BY <2>1 DEF WellFormed
<1> QED BY <1>1, <1>2, <1>3

\* issued_at is the one of the attempt's decision.
LEMMA IssuedAtRow ==
    ASSUME journal \in Seq(Rows), WellFormed(journal),
           NEW n \in DOMAIN journal, journal[n].kind = "decision"
    PROVE  IssuedAt(journal[n].of) = journal[n].at
BY TheDecision DEF IssuedAt, RowsOf

\* What every step does to the record: the journal gains at most one row, and no
\* tip is taken back.
Grown ==
    /\ journal' = journal \/ \E row \in Rows : journal' = Append(journal, row)
    /\ anchored \subseteq anchored'

\* A recorded decision stays recorded, as it is.
LEMMA RecordStays ==
    ASSUME Types, WellFormed(journal), WellFormed(journal'), Grown
    PROVE  /\ journal' \in Seq(Rows)
           /\ DOMAIN journal \subseteq DOMAIN journal'
           /\ \A n \in DOMAIN journal : journal'[n] = journal[n]
           /\ \A a : Recorded(a) => Recorded(a)'
           /\ \A n \in DOMAIN journal : \A a : journal[n].kind = "decision" /\ journal[n].of = a =>
                 IssuedAt(a)' = IssuedAt(a)
           /\ \A a : Recorded(a) => IssuedAt(a)' = IssuedAt(a)
<1> USE DEF Types
<1>1. /\ journal' \in Seq(Rows)
      /\ DOMAIN journal \subseteq DOMAIN journal'
      /\ \A n \in DOMAIN journal : journal'[n] = journal[n]
  <2>1. CASE journal' = journal
    BY <2>1
  <2>2. CASE \E row \in Rows : journal' = Append(journal, row)
    BY <2>2, OneMoreRow
  <2> QED BY <2>1, <2>2 DEF Grown
<1>2. ASSUME NEW a, Recorded(a)
      PROVE  Recorded(a)'
  BY <1>1, <1>2 DEF Recorded, Grown
<1>3. ASSUME NEW n \in DOMAIN journal, NEW a, journal[n].kind = "decision", journal[n].of = a
      PROVE  IssuedAt(a)' = IssuedAt(a)
  <2>1. IssuedAt(a) = journal[n].at
    BY <1>3, IssuedAtRow
  <2>2. n \in DOMAIN journal' /\ journal'[n] = journal[n]
    BY <1>1
  <2>3. (CHOOSE k \in {m \in DOMAIN journal' : journal'[m].kind # "other" /\ journal'[m].of = a} :
                journal'[k].kind = "decision") = n
    <3> DEFINE j == journal'
    <3>1. j \in Seq(Rows) /\ WellFormed(j) /\ n \in DOMAIN j /\ j[n].kind = "decision" /\ j[n].of = a
      BY <1>1, <1>3, <2>2
    <3> HIDE DEF j
    <3>2. (CHOOSE k \in {m \in DOMAIN j : j[m].kind # "other" /\ j[m].of = a} :
                j[k].kind = "decision") = n
      BY <3>1, TheDecision
    <3> QED BY <3>2 DEF j
  <2>4. IssuedAt(a)' = journal'[n].at
    BY <2>3 DEF IssuedAt, RowsOf
  <2> QED BY <2>1, <2>2, <2>4
<1>4. ASSUME NEW a, Recorded(a)
      PROVE  IssuedAt(a)' = IssuedAt(a)
  <2>1. PICK n \in DOMAIN journal : journal[n].kind = "decision" /\ journal[n].of = a
    BY <1>4 DEF Recorded, Authorised
  <2> QED BY <2>1, <1>3
<1> QED BY <1>1, <1>2, <1>3, <1>4

\* The last row of an attempt is the greatest.
LEMMA LastRowIs ==
    ASSUME Types, NEW a, NEW n \in RowsOf(a), \A m \in RowsOf(a) : m <= n
    PROVE  LastRow(a) = n
<1> DEFINE S == RowsOf(a)
<1>1. \A m \in S : m \in Int
  BY DEF RowsOf, Types
<1> DEFINE c == CHOOSE k \in S : \A m \in S : m <= k
<1>2. c \in S /\ \A m \in S : m <= c
  OBVIOUS
<1> HIDE DEF c, S
<1>3. n \in S /\ c <= n /\ n <= c
  BY <1>2 DEF S
<1>4. c = n
  BY <1>1, <1>2, <1>3
<1> QED BY <1>4 DEF LastRow, c, S

\* A decision of an attempt that has no row keeps the journal well formed.
LEMMA DecisionKeepsForm ==
    ASSUME NEW j \in Seq(Rows), WellFormed(j), NEW row \in Rows, row.kind = "decision",
           \A n \in DOMAIN j : ~ (j[n].kind # "other" /\ j[n].of = row.of)
    PROVE  WellFormed(Append(j, row))
<1> DEFINE k == Append(j, row)
<1>1. /\ DOMAIN j = 1 .. Len(j) /\ Len(j) \in Nat
      /\ DOMAIN k = DOMAIN j \cup {Len(j) + 1}
      /\ \A n \in DOMAIN j : k[n] = j[n]
      /\ k[Len(j) + 1] = row
  BY OneMoreRow
<1> HIDE DEF k
<1>2. ASSUME NEW n \in DOMAIN k, k[n].kind # "other"
      PROVE  /\ \A m \in 1 .. (n - 1) : k[m].kind = k[n].kind => k[m].of # k[n].of
             /\ k[n].kind = "result" =>
                  \E m \in 1 .. (n - 1) : Authorised(k[m]) /\ k[m].of = k[n].of
  <2>1. CASE n \in DOMAIN j
    <3>1. \A m \in 1 .. (n - 1) : m \in DOMAIN j /\ k[m] = j[m]
      BY <1>1, <2>1
    <3>2. k[n] = j[n]
      BY <1>1, <2>1
    <3>3. /\ \A m \in 1 .. (n - 1) : j[m].kind = j[n].kind => j[m].of # j[n].of
          /\ j[n].kind = "result" =>
                  \E m \in 1 .. (n - 1) : Authorised(j[m]) /\ j[m].of = j[n].of
      BY <1>2, <2>1, <3>2 DEF WellFormed
    <3> QED BY <3>1, <3>2, <3>3
  <2>2. CASE n = Len(j) + 1
    <3>1. \A m \in 1 .. (n - 1) : m \in DOMAIN j /\ k[m] = j[m]
      BY <1>1, <2>2
    <3> QED BY <1>1, <2>2, <3>1
  <2> QED BY <1>1, <2>1, <2>2
<1> QED BY <1>2 DEF WellFormed, k

\* So does a result of an attempt whose authorised decision is its only row.
LEMMA ResultKeepsForm ==
    ASSUME NEW j \in Seq(Rows), WellFormed(j), NEW row \in Rows, row.kind = "result",
           \E n \in DOMAIN j : Authorised(j[n]) /\ j[n].of = row.of,
           \A n \in DOMAIN j : j[n].kind # "other" /\ j[n].of = row.of => j[n].kind # "result"
    PROVE  WellFormed(Append(j, row))
<1> DEFINE k == Append(j, row)
<1>1. /\ DOMAIN j = 1 .. Len(j) /\ Len(j) \in Nat
      /\ DOMAIN k = DOMAIN j \cup {Len(j) + 1}
      /\ \A n \in DOMAIN j : k[n] = j[n]
      /\ k[Len(j) + 1] = row
  BY OneMoreRow
<1> HIDE DEF k
<1>2. ASSUME NEW n \in DOMAIN k, k[n].kind # "other"
      PROVE  /\ \A m \in 1 .. (n - 1) : k[m].kind = k[n].kind => k[m].of # k[n].of
             /\ k[n].kind = "result" =>
                  \E m \in 1 .. (n - 1) : Authorised(k[m]) /\ k[m].of = k[n].of
  <2>1. CASE n \in DOMAIN j
    <3>1. \A m \in 1 .. (n - 1) : m \in DOMAIN j /\ k[m] = j[m]
      BY <1>1, <2>1
    <3>2. k[n] = j[n]
      BY <1>1, <2>1
    <3>3. /\ \A m \in 1 .. (n - 1) : j[m].kind = j[n].kind => j[m].of # j[n].of
          /\ j[n].kind = "result" =>
                  \E m \in 1 .. (n - 1) : Authorised(j[m]) /\ j[m].of = j[n].of
      BY <1>2, <2>1, <3>2 DEF WellFormed
    <3> QED BY <3>1, <3>2, <3>3
  <2>2. CASE n = Len(j) + 1
    <3>1. \A m \in 1 .. (n - 1) : m \in DOMAIN j /\ k[m] = j[m]
      BY <1>1, <2>2
    <3>2. DOMAIN j = 1 .. (n - 1)
      BY <1>1, <2>2
    <3> QED BY <1>1, <2>2, <3>1, <3>2
  <2> QED BY <1>1, <2>1, <2>2
<1> QED BY <1>2 DEF WellFormed, k

(***************************************************************************)
(* Frames: what is kept by a step that leaves the calls, or an attempt,     *)
(* alone.                                                                  *)
(***************************************************************************)

\* The requests and the trail are as before when no call is made or served.
LEMMA CallsKept ==
    ASSUME SigningInv, WellFormed(journal'), Grown,
           flight' = flight, events' = events, now' = now, drift' = drift,
           \A b \in Attempts : pc[b] \in Started => pc'[b] \in Started
    PROVE  FlightInv' /\ OwnInv' /\ TrailInv'
<1>1. /\ \A a : Recorded(a) => Recorded(a)'
      /\ \A a : Recorded(a) => IssuedAt(a)' = IssuedAt(a)
  BY RecordStays DEF SigningInv, JournalInv
<1>2. Own' = Own
  BY DEF Own
<1>3. TrailInv'
  BY DEF SigningInv, TrailInv
<1>4. ASSUME NEW f \in flight
      PROVE  /\ Recorded(f.of)' /\ pc'[f.of] \in Started
             /\ IssuedAt(f.of)' <= f.since + drift /\ f.since + drift < IssuedAt(f.of)' + TTL
             /\ f.since <= now /\ now < f.since + SignAttempt
             /\ \A e \in Own : e.digest # f.of
  <2>1. f.of \in Attempts
    BY DEF SigningInv, Types
  <2>2. Recorded(f.of)
    BY DEF SigningInv, FlightInv
  <2>3. Recorded(f.of)' /\ IssuedAt(f.of)' = IssuedAt(f.of)
    BY <1>1, <2>2
  <2> QED BY <2>1, <2>3 DEF SigningInv, FlightInv
<1>5. FlightInv'
  <2>1. \A f, g \in flight : f.of = g.of => f = g
    BY DEF SigningInv, FlightInv
  <2> QED BY <1>2, <1>4, <2>1 DEF FlightInv
<1>6. ASSUME NEW e \in Own
      PROVE  /\ Recorded(e.digest)' /\ e.by = "runner"
             /\ e.digest \in Attempts /\ pc'[e.digest] \in Started
             /\ IssuedAt(e.digest)' - Skew <= e.at
             /\ e.at < IssuedAt(e.digest)' + TTL + SignAttempt + Skew
  <2>1. Recorded(e.digest) /\ e.digest \in Attempts
    BY DEF SigningInv, OwnInv
  <2>2. Recorded(e.digest)' /\ IssuedAt(e.digest)' = IssuedAt(e.digest)
    BY <1>1, <2>1
  <2> QED BY <2>1, <2>2 DEF SigningInv, OwnInv
<1>7. OwnInv'
  <2>1. \A e, f \in Own : e.digest = f.digest => e = f
    BY DEF SigningInv, OwnInv
  <2> QED BY <1>2, <1>6, <2>1 DEF OwnInv
<1> QED BY <1>3, <1>5, <1>7

\* So is an attempt of which the step changes neither the locals nor the rows.
LEMMA AttemptKept ==
    ASSUME SigningInv, WellFormed(journal'), Grown, events \subseteq events',
           NEW b \in Attempts, pc'[b] = pc[b], result'[b] = result[b], RowsOf(b)' = RowsOf(b)
    PROVE  AttemptInv(b)'
<1>1. /\ \A a : Recorded(a) => Recorded(a)'
      /\ \A n \in DOMAIN journal : journal'[n] = journal[n]
      /\ DOMAIN journal \subseteq DOMAIN journal'
  BY RecordStays DEF SigningInv, JournalInv
<1>2. AttemptInv(b)
  BY DEF SigningInv
<1>3. Own \subseteq Own' /\ anchored \subseteq anchored' /\ anchored \subseteq DOMAIN journal
  BY DEF Own, Grown, SigningInv, Types
<1>4. RowsOf(b) \subseteq DOMAIN journal
  BY DEF RowsOf
<1>5. pc'[b] = "decided" =>
          \E n \in DOMAIN journal' : RowsOf(b)' = {n} /\ journal'[n].kind = "decision"
  <2> HAVE pc'[b] = "decided"
  <2>1. PICK n \in DOMAIN journal : RowsOf(b) = {n} /\ journal[n].kind = "decision"
    BY <1>2 DEF AttemptInv
  <2> QED BY <2>1, <1>1
<1>6. pc'[b] = "resulted" =>
          \E n \in RowsOf(b)' :
             /\ journal'[n] = [kind |-> "result", of |-> b, reason |-> result'[b]]
             /\ \A m \in RowsOf(b)' : m <= n
  <2> HAVE pc'[b] = "resulted"
  <2>1. PICK n \in RowsOf(b) : /\ journal[n] = [kind |-> "result", of |-> b, reason |-> result[b]]
                               /\ \A m \in RowsOf(b) : m <= n
    BY <1>2 DEF AttemptInv
  <2> QED BY <2>1, <1>1, <1>4
<1>7. result'[b] = "signed" => \E e \in Own' : e.made /\ e.digest = b
  BY <1>2, <1>3 DEF AttemptInv
<1>8. pc'[b] \in {"check", "wait", "result", "resulted", "deliver", "delivered"} => Recorded(b)'
  BY <1>1, <1>2 DEF AttemptInv
<1>9. pc'[b] \in {"deliver", "delivered"} =>
          /\ \E e \in Own' : e.made /\ e.digest = b
          /\ \E n \in anchored' : journal'[n] = [kind |-> "result", of |-> b, reason |-> "signed"]
  BY <1>1, <1>2, <1>3 DEF AttemptInv
<1> QED BY <1>5, <1>6, <1>7, <1>8, <1>9 DEF AttemptInv

(***************************************************************************)
(* The steps of an attempt.                                                *)
(***************************************************************************)

\* The record keeps its shape when no row is added.
LEMMA SameJournal ==
    ASSUME SigningInv, journal' = journal, now' = now, drift' = drift,
           anchored \subseteq anchored'
    PROVE  JournalInv' /\ WellFormed(journal') /\ Grown /\ \A b \in Attempts : RowsOf(b)' = RowsOf(b)
BY DEF SigningInv, JournalInv, Grown, RowsOf, gateNow

\* record_decision appends a first row for the attempt.
LEMMA DecideStep ==
    ASSUME SigningInv, NEW a \in Attempts, Decide(a)
    PROVE  SigningInv' /\ Grown
<1> USE DEF Decide, Goto, AppendRow
<1>1. PICK d \in Defects :
          journal' = Append(journal, [kind |-> "decision", of |-> a, at |-> gateNow,
                                      reason |-> RecordReason(Verdicted(d))])
  OBVIOUS
<1> DEFINE r == RecordReason(Verdicted(d))
           row == [kind |-> "decision", of |-> a, at |-> gateNow, reason |-> r]
<1>2. r \in REASONS
  BY DEF RecordReason, REASONS
<1>3. gateNow \in Int /\ 0 <= gateNow
  BY TimesAssumption DEF SigningInv, Types, gateNow
<1> HIDE DEF r
<1>4. row \in Rows /\ row.kind = "decision" /\ row.of = a /\ row.at = gateNow
  BY <1>2, <1>3 DEF Rows
<1> HIDE DEF row
<1>5. journal \in Seq(Rows) /\ WellFormed(journal) /\ journal' = Append(journal, row)
  BY <1>1 DEF row, r, SigningInv, Types, JournalInv
<1>6. /\ journal' \in Seq(Rows)
      /\ DOMAIN journal = 1 .. Len(journal) /\ Len(journal) \in Nat
      /\ DOMAIN journal' = DOMAIN journal \cup {Len(journal) + 1}
      /\ \A n \in DOMAIN journal : journal'[n] = journal[n]
      /\ journal'[Len(journal) + 1] = row
      /\ Len(journal) + 1 \notin DOMAIN journal
  BY <1>4, <1>5, OneMoreRow
<1>7. \A n \in DOMAIN journal : ~ (journal[n].kind # "other" /\ journal[n].of = row.of)
  BY <1>4 DEF RowsOf
<1>8. WellFormed(journal')
  BY <1>4, <1>5, <1>7, DecisionKeepsForm
<1>9. Grown
  BY <1>4, <1>5 DEF Grown
<1>10. Types'
  BY <1>6 DEF SigningInv, Types, PCs
<1>11. JournalInv'
  BY <1>3, <1>4, <1>6, <1>8 DEF SigningInv, JournalInv, gateNow
<1>12. FlightInv' /\ OwnInv' /\ TrailInv'
  <2>1. \A b \in Attempts : pc[b] \in Started => pc'[b] \in Started
    BY DEF SigningInv, Types, Started
  <2> QED BY <1>8, <1>9, <2>1, CallsKept
<1>13. ASSUME NEW b \in Attempts
       PROVE  AttemptInv(b)'
  <2>1. CASE b = a
    <3>1. RowsOf(a)' = {Len(journal) + 1}
      BY <1>4, <1>6, <1>7 DEF RowsOf
    <3>2. journal'[Len(journal) + 1].kind = "decision" /\ Len(journal) + 1 \in DOMAIN journal'
      BY <1>4, <1>6
    <3>3. pc'[a] = "decided" /\ result'[a] = result[a] /\ Own' = Own
      BY DEF SigningInv, Types, Own
    <3>4. result[a] = "signed" => \E e \in Own : e.made /\ e.digest = a
      BY DEF SigningInv, AttemptInv
    <3>5. AttemptInv(a)'
      BY <3>1, <3>2, <3>3, <3>4 DEF AttemptInv
    <3> QED BY <2>1, <3>5
  <2>2. CASE b # a
    <3>1. RowsOf(b)' = RowsOf(b)
      BY <1>4, <1>6, <2>2 DEF RowsOf
    <3>2. pc'[b] = pc[b] /\ result'[b] = result[b] /\ events \subseteq events'
      BY <2>2 DEF SigningInv, Types
    <3> QED BY <1>8, <1>9, <3>1, <3>2, AttemptKept
  <2> QED BY <2>1, <2>2
<1> QED BY <1>9, <1>10, <1>11, <1>12, <1>13 DEF SigningInv

\* An anchor write that is acknowledged adds the attempt's last row to the tips.
LEMMA AnchorDecisionStep ==
    ASSUME SigningInv, NEW a \in Attempts, AnchorDecision(a)
    PROVE  SigningInv'
<1> USE DEF AnchorDecision, Goto
<1>1. PICK n \in DOMAIN journal : RowsOf(a) = {n} /\ journal[n].kind = "decision"
  BY DEF SigningInv, AttemptInv
<1>2. LastRow(a) = n
  <2>1. n \in RowsOf(a) /\ n \in Int /\ \A m \in RowsOf(a) : m <= n
    BY <1>1 DEF SigningInv, Types
  <2> QED BY <2>1, LastRowIs DEF SigningInv
<1>3. journal[n].of = a
  BY <1>1 DEF RowsOf
<1>4. /\ pc'[a] \in {"over", "check"}
      /\ pc'[a] = "check" => Authorised(journal[n]) /\ n \in anchored'
      /\ anchored \subseteq anchored' /\ anchored' \subseteq DOMAIN journal
      /\ pc' \in [Attempts -> PCs]
      /\ \A b \in Attempts : b # a => pc'[b] = pc[b]
  BY <1>2 DEF Anchored, SigningInv, Types, PCs
<1>5. JournalInv' /\ WellFormed(journal') /\ Grown /\ \A b \in Attempts : RowsOf(b)' = RowsOf(b)
  BY <1>4, SameJournal
<1>6. Types'
  BY <1>4 DEF SigningInv, Types
<1>7. FlightInv' /\ OwnInv' /\ TrailInv'
  <2>1. \A b \in Attempts : pc[b] \in Started => pc'[b] \in Started
    BY <1>4 DEF SigningInv, Types, Started
  <2> QED BY <1>5, <2>1, CallsKept
<1>8. ASSUME NEW b \in Attempts
      PROVE  AttemptInv(b)'
  <2>1. CASE b = a
    <3>1. pc'[a] = "check" => Recorded(a)'
      BY <1>3, <1>4 DEF Recorded
    <3>2. Own' = Own /\ result' = result
      BY DEF Own
    <3>3. result[a] = "signed" => \E e \in Own : e.made /\ e.digest = a
      BY DEF SigningInv, AttemptInv
    <3>4. AttemptInv(a)'
      BY <1>4, <3>1, <3>2, <3>3 DEF AttemptInv
    <3> QED BY <2>1, <3>4
  <2>2. CASE b # a
    BY <1>4, <1>5, <2>2, AttemptKept
  <2> QED BY <2>1, <2>2
<1> QED BY <1>5, <1>6, <1>7, <1>8 DEF SigningInv

\* The answer of the signer: signed only after the attempt's own signature was made.
LEMMA SignReturnsStep ==
    ASSUME SigningInv, NEW a \in Attempts, SignReturns(a)
    PROVE  SigningInv'
<1> USE DEF SignReturns, Goto
<1>1. PICK answer \in Answers(a) : result' = [result EXCEPT ![a] = ClientState(answer)]
  OBVIOUS
<1>2. ClientState(answer) \in ResultStates
  BY DEF ClientState, SignerKind, ResultStates, Verifies
<1>3. ClientState(answer) = "signed" => answer = "signature"
  BY DEF ClientState, SignerKind, Verifies
<1>4. answer = "signature" => \E e \in Own : e.made /\ e.digest = a
  BY DEF Answers, Served, Own
<1>5. /\ pc' = [pc EXCEPT ![a] = "result"] /\ pc'[a] = "result"
      /\ pc' \in [Attempts -> PCs] /\ result' \in [Attempts -> ResultStates]
      /\ result'[a] = ClientState(answer)
      /\ \A b \in Attempts : b # a => pc'[b] = pc[b] /\ result'[b] = result[b]
  BY <1>1, <1>2 DEF SigningInv, Types, PCs
<1>6. JournalInv' /\ WellFormed(journal') /\ Grown /\ \A b \in Attempts : RowsOf(b)' = RowsOf(b)
  BY SameJournal
<1>7. Types'
  BY <1>5 DEF SigningInv, Types
<1>8. FlightInv' /\ OwnInv' /\ TrailInv'
  <2>1. \A b \in Attempts : pc[b] \in Started => pc'[b] \in Started
    BY <1>5 DEF SigningInv, Types, Started
  <2> QED BY <1>6, <2>1, CallsKept
<1>9. ASSUME NEW b \in Attempts
      PROVE  AttemptInv(b)'
  <2>1. CASE b = a
    <3>1. Recorded(a)'
      BY DEF SigningInv, AttemptInv, Recorded
    <3>2. Own' = Own
      BY DEF Own
    <3>3. AttemptInv(a)'
      BY <1>3, <1>4, <1>5, <3>1, <3>2 DEF AttemptInv
    <3> QED BY <2>1, <3>3
  <2>2. CASE b # a
    BY <1>5, <1>6, <2>2, AttemptKept
  <2> QED BY <2>1, <2>2
<1> QED BY <1>6, <1>7, <1>8, <1>9 DEF SigningInv

\* record_sign_result appends the one result, the last row of the attempt.
LEMMA RecordResultStep ==
    ASSUME SigningInv, NEW a \in Attempts, RecordResult(a)
    PROVE  SigningInv' /\ Grown
<1> USE DEF RecordResult, Goto, AppendRow
<1> DEFINE row == [kind |-> "result", of |-> a, reason |-> result[a]]
<1>1. row \in Rows /\ row.kind = "result" /\ row.of = a
  BY DEF SigningInv, Types, Rows
<1>2. journal' = Append(journal, row) /\ journal \in Seq(Rows) /\ WellFormed(journal)
  BY DEF SigningInv, Types, JournalInv
<1> HIDE DEF row
<1>3. /\ journal' \in Seq(Rows)
      /\ DOMAIN journal = 1 .. Len(journal) /\ Len(journal) \in Nat
      /\ DOMAIN journal' = DOMAIN journal \cup {Len(journal) + 1}
      /\ \A n \in DOMAIN journal : journal'[n] = journal[n]
      /\ journal'[Len(journal) + 1] = row
      /\ Len(journal) + 1 \notin DOMAIN journal
  BY <1>1, <1>2, OneMoreRow
<1>4. /\ \E n \in DOMAIN journal : Authorised(journal[n]) /\ journal[n].of = row.of
      /\ \A n \in DOMAIN journal : journal[n].kind # "other" /\ journal[n].of = row.of =>
            journal[n].kind # "result"
  BY <1>1 DEF RowsOf
<1>5. WellFormed(journal')
  BY <1>1, <1>2, <1>4, ResultKeepsForm
<1>6. Grown
  BY <1>1, <1>2 DEF Grown
<1>7. Types'
  BY <1>3 DEF SigningInv, Types, PCs
<1>8. JournalInv'
  BY <1>1, <1>3, <1>5 DEF SigningInv, JournalInv, gateNow
<1>9. FlightInv' /\ OwnInv' /\ TrailInv'
  <2>1. \A b \in Attempts : pc[b] \in Started => pc'[b] \in Started
    BY DEF SigningInv, Types, Started
  <2> QED BY <1>5, <1>6, <2>1, CallsKept
<1>10. ASSUME NEW b \in Attempts
       PROVE  AttemptInv(b)'
  <2>1. CASE b = a
    <3>1. Recorded(a)'
      <4>1. Recorded(a)
        BY DEF SigningInv, AttemptInv
      <4> QED BY <1>5, <1>6, <4>1, RecordStays DEF SigningInv, JournalInv
    <3>2. RowsOf(a)' = RowsOf(a) \cup {Len(journal) + 1} /\ RowsOf(a) \subseteq 1 .. Len(journal)
      BY <1>1, <1>3 DEF RowsOf
    <3>3. pc'[a] = "resulted" /\ result' = result /\ Own' = Own
      BY DEF SigningInv, Types, Own
    <3>4. /\ Len(journal) + 1 \in RowsOf(a)'
          /\ journal'[Len(journal) + 1] = [kind |-> "result", of |-> a, reason |-> result'[a]]
          /\ \A m \in RowsOf(a)' : m <= Len(journal) + 1
      BY <1>3, <3>2, <3>3 DEF row
    <3>5. result[a] = "signed" => \E e \in Own : e.made /\ e.digest = a
      BY DEF SigningInv, AttemptInv
    <3>6. AttemptInv(a)'
      BY <3>1, <3>3, <3>4, <3>5 DEF AttemptInv
    <3> QED BY <2>1, <3>6
  <2>2. CASE b # a
    <3>1. RowsOf(b)' = RowsOf(b)
      BY <1>1, <1>3, <2>2 DEF RowsOf
    <3>2. pc'[b] = pc[b] /\ result'[b] = result[b] /\ events \subseteq events'
      BY <2>2 DEF SigningInv, Types
    <3> QED BY <1>5, <1>6, <3>1, <3>2, AttemptKept
  <2> QED BY <2>1, <2>2
<1> QED BY <1>6, <1>7, <1>8, <1>9, <1>10 DEF SigningInv

\* The tip after a result is the row of the result.
LEMMA AnchorResultStep ==
    ASSUME SigningInv, NEW a \in Attempts, AnchorResult(a)
    PROVE  SigningInv'
<1> USE DEF AnchorResult, Goto
<1>1. PICK n \in RowsOf(a) : /\ journal[n] = [kind |-> "result", of |-> a, reason |-> result[a]]
                             /\ \A m \in RowsOf(a) : m <= n
  BY DEF SigningInv, AttemptInv
<1>2. LastRow(a) = n /\ n \in DOMAIN journal
  BY <1>1, LastRowIs DEF SigningInv, RowsOf
<1>3. /\ pc'[a] \in {"over", "deliver"}
      /\ pc'[a] = "deliver" => result[a] = "signed" /\ n \in anchored'
      /\ anchored \subseteq anchored' /\ anchored' \subseteq DOMAIN journal
      /\ pc' \in [Attempts -> PCs]
      /\ \A b \in Attempts : b # a => pc'[b] = pc[b]
  BY <1>2 DEF Anchored, SigningInv, Types, PCs
<1>4. /\ result' \in [Attempts -> ResultStates] /\ result'[a] = "unavailable"
      /\ \A b \in Attempts : b # a => result'[b] = result[b]
  BY DEF SigningInv, Types, ResultStates
<1>5. JournalInv' /\ WellFormed(journal') /\ Grown /\ \A b \in Attempts : RowsOf(b)' = RowsOf(b)
  BY <1>3, SameJournal
<1>6. Types'
  BY <1>3, <1>4 DEF SigningInv, Types
<1>7. FlightInv' /\ OwnInv' /\ TrailInv'
  <2>1. \A b \in Attempts : pc[b] \in Started => pc'[b] \in Started
    BY <1>3 DEF SigningInv, Types, Started
  <2> QED BY <1>5, <2>1, CallsKept
<1>8. ASSUME NEW b \in Attempts
      PROVE  AttemptInv(b)'
  <2>1. CASE b = a
    <3>1. Recorded(a)'
      <4>1. Recorded(a)
        BY DEF SigningInv, AttemptInv
      <4> QED BY <1>5, <4>1, RecordStays DEF SigningInv, JournalInv
    <3>2. Own' = Own
      BY DEF Own
    <3>3. pc'[a] = "deliver" =>
             /\ \E e \in Own : e.made /\ e.digest = a
             /\ \E k \in anchored' : journal'[k] = [kind |-> "result", of |-> a, reason |-> "signed"]
      BY <1>1, <1>3 DEF SigningInv, AttemptInv
    <3>4. AttemptInv(a)'
      BY <1>3, <1>4, <3>1, <3>2, <3>3 DEF AttemptInv
    <3> QED BY <2>1, <3>4
  <2>2. CASE b # a
    BY <1>3, <1>4, <1>5, <2>2, AttemptKept
  <2> QED BY <2>1, <2>2
<1> QED BY <1>5, <1>6, <1>7, <1>8 DEF SigningInv

\* The last checks, and any way an attempt ends early.
LEMMA EndStep ==
    ASSUME SigningInv, NEW a \in Attempts, HandOut(a) \/ GiveUp(a)
    PROVE  SigningInv'
<1> USE DEF HandOut, GiveUp, Goto
<1>1. /\ pc'[a] \in {"delivered", "over"}
      /\ pc'[a] = "delivered" => pc[a] = "deliver"
      /\ pc' \in [Attempts -> PCs] /\ result' \in [Attempts -> ResultStates]
      /\ result'[a] \in {"unavailable", result[a]}
      /\ \A b \in Attempts : b # a => pc'[b] = pc[b] /\ result'[b] = result[b]
      /\ UNCHANGED <<now, drift, flight, journal, anchored, events>>
  BY DEF SigningInv, Types, PCs, ResultStates
<1>2. JournalInv' /\ WellFormed(journal') /\ Grown /\ \A b \in Attempts : RowsOf(b)' = RowsOf(b)
  BY <1>1, SameJournal
<1>3. Types'
  BY <1>1 DEF SigningInv, Types
<1>4. FlightInv' /\ OwnInv' /\ TrailInv'
  <2>1. \A b \in Attempts : pc[b] \in Started => pc'[b] \in Started
    BY <1>1 DEF SigningInv, Types, Started
  <2> QED BY <1>1, <1>2, <2>1, CallsKept
<1>5. ASSUME NEW b \in Attempts
      PROVE  AttemptInv(b)'
  <2>1. CASE b = a
    <3>1. AttemptInv(a) /\ Own' = Own
      BY <1>1 DEF SigningInv, Own
    <3>2. Recorded(a) => Recorded(a)'
      BY <1>1 DEF Recorded
    <3>3. AttemptInv(a)'
      BY <1>1, <3>1, <3>2 DEF AttemptInv
    <3> QED BY <2>1, <3>3
  <2>2. CASE b # a
    BY <1>1, <1>2, <2>2, AttemptKept
  <2> QED BY <2>1, <2>2
<1> QED BY <1>2, <1>3, <1>4, <1>5 DEF SigningInv

\* issued_at of a recorded attempt is a number.
LEMMA IssuedInt ==
    ASSUME SigningInv, NEW a, Recorded(a)
    PROVE  IssuedAt(a) \in Int /\ 0 <= IssuedAt(a) /\ IssuedAt(a) <= gateNow
<1>1. PICK n \in anchored : Authorised(journal[n]) /\ journal[n].of = a
  BY DEF Recorded
<1>2. n \in DOMAIN journal /\ journal[n].kind = "decision" /\ journal[n].at \in Int
  BY <1>1, AuthorisedRow DEF SigningInv, Types
<1>3. IssuedAt(a) = journal[n].at
  BY <1>1, <1>2, IssuedAtRow DEF SigningInv, Types, JournalInv
<1> QED BY <1>2, <1>3 DEF SigningInv, JournalInv

\* A request starts within the interval of its approval, and no attempt has two.
LEMMA CheckThenCallStep ==
    ASSUME SigningInv, NEW a \in Attempts, CheckThenCall(a)
    PROVE  SigningInv'
<1> USE DEF CheckThenCall, Goto
<1>1. /\ pc'[a] \in {"wait", "result"}
      /\ pc' \in [Attempts -> PCs]
      /\ \A b \in Attempts : b # a => pc'[b] = pc[b]
  BY DEF SigningInv, Types, PCs
<1>2. JournalInv' /\ WellFormed(journal') /\ Grown /\ \A b \in Attempts : RowsOf(b)' = RowsOf(b)
  BY SameJournal
<1>3. Recorded(a)
  BY DEF SigningInv, AttemptInv
<1>4. Types'
  BY <1>1 DEF SigningInv, Types
<1>5. Own' = Own /\ TrailInv' /\ \A b \in Attempts : pc[b] \in Started => pc'[b] \in Started
  BY <1>1 DEF SigningInv, Types, Started, Own, TrailInv
<1>6. \A b : (Recorded(b) => Recorded(b)') /\ IssuedAt(b)' = IssuedAt(b)
  BY DEF Recorded, IssuedAt, RowsOf
<1>7. OwnInv'
  BY <1>5, <1>6 DEF SigningInv, OwnInv
<1>8. FlightInv'
  <2>1. CASE flight' = flight
    BY <1>5, <1>6, <2>1 DEF SigningInv, FlightInv, Types
  <2>2. CASE flight' = flight \cup {[of |-> a, since |-> now]} /\ WithinInterval(a) /\ pc'[a] = "wait"
    <3>0. PICK c : c = [of |-> a, since |-> now]
      OBVIOUS
    <3>01. c.of = a /\ c.since = now
      BY <3>0
    <3>1. \A f \in flight : f.of # a
      BY DEF SigningInv, FlightInv, Started
    <3>2. \A e \in Own : e.digest # a
      BY DEF SigningInv, OwnInv, Started
    <3>3. /\ Recorded(c.of)' /\ pc'[c.of] \in Started
          /\ IssuedAt(c.of)' <= c.since + drift /\ c.since + drift < IssuedAt(c.of)' + TTL
          /\ c.since <= now /\ now < c.since + SignAttempt
          /\ \A e \in Own' : e.digest # c.of
      <4>1. Recorded(a)' /\ IssuedAt(a)' = IssuedAt(a) /\ pc'[a] \in Started
        BY <1>3, <1>6, <2>2 DEF Started
      <4>2. now <= now /\ now < now + SignAttempt
        BY TimesAssumption DEF SigningInv, Types
      <4> QED BY <1>5, <2>2, <3>01, <3>2, <4>1, <4>2 DEF WithinInterval, Approval, gateNow
    <3>4. ASSUME NEW f \in flight
          PROVE  /\ Recorded(f.of)' /\ pc'[f.of] \in Started
                 /\ IssuedAt(f.of)' <= f.since + drift /\ f.since + drift < IssuedAt(f.of)' + TTL
                 /\ f.since <= now /\ now < f.since + SignAttempt
                 /\ \A e \in Own' : e.digest # f.of
      BY <1>5, <1>6 DEF SigningInv, FlightInv, Types
    <3>5. \A f, g \in flight' : f.of = g.of => f = g
      BY <2>2, <3>1 DEF SigningInv, FlightInv
    <3>6. flight' = flight \cup {c} /\ now' = now /\ drift' = drift
      BY <2>2, <3>0
    <3> QED BY <3>3, <3>4, <3>5, <3>6 DEF FlightInv
  <2>3. Goto(a, "wait") => pc'[a] = "wait"
    BY DEF SigningInv, Types
  <2> QED BY <2>1, <2>2, <2>3
<1>9. ASSUME NEW b \in Attempts
      PROVE  AttemptInv(b)'
  <2>1. CASE b = a
    <3>1. Recorded(a)' /\ result' = result
      BY <1>3, <1>6
    <3>2. result[a] = "signed" => \E e \in Own : e.made /\ e.digest = a
      BY DEF SigningInv, AttemptInv
    <3>3. AttemptInv(a)'
      BY <1>1, <1>5, <3>1, <3>2 DEF AttemptInv
    <3> QED BY <2>1, <3>3
  <2>2. CASE b # a
    BY <1>1, <1>2, <2>2, AttemptKept
  <2> QED BY <2>1, <2>2
<1> QED BY <1>2, <1>4, <1>5, <1>7, <1>8, <1>9 DEF SigningInv

(***************************************************************************)
(* The signing service.                                                    *)
(***************************************************************************)

\* An event is new: it has an id of its own.
LEMMA NewEvent ==
    ASSUME SigningInv, NEW d \in Digests, NEW by \in Principals, NEW foreign \in BOOLEAN,
           NEW made \in BOOLEAN, Serve(d, by, foreign, made), now' = now
    PROVE  \E e : /\ events' = events \cup {e} /\ e \notin events /\ e \in Events
                  /\ e.digest = d /\ e.by = by /\ e.foreign = foreign /\ e.made = made
                  /\ e.at = now
                  /\ TrailInv'
<1>1. PICK code \in IF made THEN {0, 16} ELSE {7} :
        events' = events \cup
            {[id |-> Cardinality(events) + 1, digest |-> d, at |-> now,
              outcome |-> EventOutcome(code), by |-> by, made |-> made,
              foreign |-> foreign]}
  BY DEF Serve
<1> DEFINE o == EventOutcome(code)
           e == [id |-> Cardinality(events) + 1, digest |-> d, at |-> now,
                 outcome |-> o, by |-> by, made |-> made, foreign |-> foreign]
<1>2. o \in Outcomes /\ (o = "success" => made) /\ (made => o # "denied")
  BY DEF EventOutcome, Outcomes
<1> HIDE DEF o
<1>3. IsFiniteSet(events) /\ Cardinality(events) \in Nat
  BY FS_CardinalityType DEF SigningInv, TrailInv
<1>4. e \in Events
  BY <1>2, <1>3 DEF Events, SigningInv, Types
<1>5. e \notin events
  BY <1>3 DEF SigningInv, TrailInv
<1>6. events' = events \cup {e}
  BY <1>1 DEF o
<1>7. /\ e.digest = d /\ e.by = by /\ e.foreign = foreign /\ e.made = made /\ e.at = now
      /\ e.id = Cardinality(events) + 1 /\ e.outcome = o
  OBVIOUS
<1> HIDE DEF e
<1>8. IsFiniteSet(events') /\ Cardinality(events') = Cardinality(events) + 1
  BY <1>3, <1>5, <1>6, FS_AddElement
<1>9. TrailInv'
  <2> DEFINE Good(f, k) == /\ f.at <= now /\ 1 <= f.id /\ f.id <= k
                           /\ f.outcome = "success" => f.made
                           /\ f.made => f.outcome # "denied"
  <2>1. \A f \in events' : Good(f, Cardinality(events'))
    <3>1. Good(e, Cardinality(events'))
      BY <1>2, <1>3, <1>7, <1>8 DEF SigningInv, Types
    <3>2. ASSUME NEW f \in events
          PROVE  Good(f, Cardinality(events'))
      <4>1. f.id \in Nat
        BY DEF SigningInv, Types, Events
      <4>2. Good(f, Cardinality(events))
        BY DEF SigningInv, TrailInv
      <4>3. f.id <= Cardinality(events')
        BY <1>3, <1>8, <4>1, <4>2
      <4> QED BY <4>2, <4>3
    <3> HIDE DEF Good
    <3> QED BY <1>6, <3>1, <3>2
  <2>2. ASSUME NEW f \in events', NEW g \in events', f.id = g.id
        PROVE  f = g
    <3>1. \A h \in events : h.id \in Nat /\ h.id <= Cardinality(events)
      BY DEF SigningInv, TrailInv, Types, Events
    <3> QED BY <1>3, <1>6, <1>7, <2>2, <3>1 DEF SigningInv, TrailInv
  <2> QED BY <1>8, <2>1, <2>2 DEF TrailInv
<1> QED BY <1>4, <1>5, <1>6, <1>7, <1>9

\* What an event of the service leaves alone.
LEMMA ServedKept ==
    ASSUME SigningInv, UNCHANGED <<now, drift, pc, result, journal, anchored>>,
           events \subseteq events'
    PROVE  /\ JournalInv' /\ \A b \in Attempts : AttemptInv(b)'
           /\ \A b : (Recorded(b) => Recorded(b)') /\ IssuedAt(b)' = IssuedAt(b)
<1>1. JournalInv' /\ WellFormed(journal') /\ Grown /\ \A b \in Attempts : RowsOf(b)' = RowsOf(b)
  BY SameJournal
<1>2. \A b \in Attempts : AttemptInv(b)'
  BY <1>1, AttemptKept
<1>3. \A b : (Recorded(b) => Recorded(b)') /\ IssuedAt(b)' = IssuedAt(b)
  BY DEF Recorded, IssuedAt, RowsOf
<1> QED BY <1>1, <1>2, <1>3

\* A foreign signature is none of the gate's own calls.
LEMMA ForeignSignStep ==
    ASSUME SigningInv, ForeignSign
    PROVE  SigningInv'
<1> USE DEF ForeignSign
<1>1. PICK d \in Digests, by \in Principals : Serve(d, by, TRUE, TRUE)
  OBVIOUS
<1>2. PICK e : /\ events' = events \cup {e} /\ e \in Events /\ e.foreign = TRUE /\ TrailInv'
  BY <1>1, NewEvent
<1>3. /\ JournalInv' /\ \A b \in Attempts : AttemptInv(b)'
      /\ \A b : (Recorded(b) => Recorded(b)') /\ IssuedAt(b)' = IssuedAt(b)
  BY <1>2, ServedKept
<1>4. Types'
  BY <1>2 DEF SigningInv, Types
<1>5. Own' = Own
  BY <1>2 DEF Own
<1>6. OwnInv'
  BY <1>3, <1>5 DEF SigningInv, OwnInv
<1>7. FlightInv'
  BY <1>3, <1>5 DEF SigningInv, FlightInv
<1> QED BY <1>2, <1>3, <1>4, <1>6, <1>7 DEF SigningInv

\* A request that takes effect is the attempt's only call, within its window.
LEMMA ServeSignStep ==
    ASSUME SigningInv, NEW f \in flight, ServeSign(f)
    PROVE  SigningInv'
<1> USE DEF ServeSign
<1>1. f.of \in Attempts /\ f.since \in Nat
  BY DEF SigningInv, Types
<1>2. PICK made \in BOOLEAN : Serve(f.of, "runner", FALSE, made)
  BY DEF CanSign
<1>3. PICK e : /\ events' = events \cup {e} /\ e \in Events /\ e.foreign = FALSE
               /\ e.digest = f.of /\ e.by = "runner" /\ e.at = now /\ TrailInv'
  <2>1. f.of \in Digests /\ "runner" \in Principals /\ FALSE \in BOOLEAN
    BY <1>1 DEF Digests, Principals
  <2>2. now' = now
    OBVIOUS
  <2>3. PICK no : no = FALSE
    OBVIOUS
  <2>4. Serve(f.of, "runner", no, made) /\ no \in BOOLEAN
    BY <1>2, <2>3
  <2>5. PICK e : /\ events' = events \cup {e} /\ e \in Events /\ e.foreign = no
                 /\ e.digest = f.of /\ e.by = "runner" /\ e.at = now /\ TrailInv'
    BY <2>1, <2>2, <2>4, NewEvent
  <2> QED BY <2>3, <2>5
<1>4. /\ JournalInv' /\ \A b \in Attempts : AttemptInv(b)'
      /\ \A b : (Recorded(b) => Recorded(b)') /\ IssuedAt(b)' = IssuedAt(b)
  BY <1>3, ServedKept
<1>5. Types'
  BY <1>3 DEF SigningInv, Types
<1>6. Own' = Own \cup {e}
  BY <1>3 DEF Own
<1>7. /\ Recorded(f.of) /\ pc[f.of] \in Started
      /\ IssuedAt(f.of) <= f.since + drift /\ f.since + drift < IssuedAt(f.of) + TTL
      /\ f.since <= now /\ now < f.since + SignAttempt
      /\ \A o \in Own : o.digest # f.of
  BY DEF SigningInv, FlightInv
<1>8. IssuedAt(f.of) - Skew <= now /\ now < IssuedAt(f.of) + TTL + SignAttempt + Skew
  <2>1. IssuedAt(f.of) \in Int
    BY <1>7, IssuedInt
  <2> QED BY <1>1, <1>7, <2>1, TimesAssumption DEF SigningInv, Types
<1>9. OwnInv'
  <2>1. ASSUME NEW o \in Own
        PROVE  /\ Recorded(o.digest)' /\ o.by = "runner"
               /\ o.digest \in Attempts /\ pc'[o.digest] \in Started
               /\ IssuedAt(o.digest)' - Skew <= o.at
               /\ o.at < IssuedAt(o.digest)' + TTL + SignAttempt + Skew
    BY <1>4 DEF SigningInv, OwnInv
  <2>2. /\ Recorded(e.digest)' /\ e.by = "runner"
        /\ e.digest \in Attempts /\ pc'[e.digest] \in Started
        /\ IssuedAt(e.digest)' - Skew <= e.at
        /\ e.at < IssuedAt(e.digest)' + TTL + SignAttempt + Skew
    BY <1>1, <1>3, <1>4, <1>7, <1>8
  <2>3. \A o, p \in Own' : o.digest = p.digest => o = p
    BY <1>3, <1>6, <1>7 DEF SigningInv, OwnInv
  <2> QED BY <1>6, <2>1, <2>2, <2>3 DEF OwnInv
<1>10. FlightInv'
  <2>1. \A g \in flight' : g \in flight /\ g.of # f.of
    BY DEF SigningInv, FlightInv
  <2>2. ASSUME NEW g, g \in flight'
        PROVE  /\ Recorded(g.of)' /\ pc'[g.of] \in Started
               /\ IssuedAt(g.of)' <= g.since + drift /\ g.since + drift < IssuedAt(g.of)' + TTL
               /\ g.since <= now /\ now < g.since + SignAttempt
               /\ \A o \in Own : o.digest # g.of
    BY <1>4, <2>1, <2>2 DEF SigningInv, FlightInv
  <2>3. \A g, h \in flight' : g.of = h.of => g = h
    BY <2>1 DEF SigningInv, FlightInv
  <2>4. ASSUME NEW g, g \in flight'
        PROVE  \A o \in Own' : o.digest # g.of
    BY <1>3, <1>6, <2>1, <2>2, <2>4
  <2>5. now' = now /\ drift' = drift
    OBVIOUS
  <2> QED BY <2>2, <2>3, <2>4, <2>5 DEF FlightInv
<1> QED BY <1>3, <1>4, <1>5, <1>9, <1>10 DEF SigningInv

\* Time ends the requests that have lived as long as they can.
LEMMA TickStep ==
    ASSUME SigningInv, Tick
    PROVE  SigningInv'
<1> USE DEF Tick
<1>1. now \in Nat /\ now' = now + 1 /\ now + 1 <= MaxTime /\ flight' \subseteq flight
  BY TimesAssumption DEF SigningInv, Types
<1>2. Types'
  BY <1>1, TimesAssumption DEF SigningInv, Types
<1>3. JournalInv'
  <2>1. ASSUME NEW n \in DOMAIN journal, journal[n].kind = "decision"
        PROVE  0 <= journal[n].at /\ journal[n].at <= now' + drift
    <3>1. journal[n].at \in Int
      <4>1. journal[n] \in Rows
        BY DEF SigningInv, Types
      <4> QED BY <2>1, <4>1, RowFields
    <3>2. 0 <= journal[n].at /\ journal[n].at <= now + drift
      BY <2>1 DEF SigningInv, JournalInv, gateNow
    <3> QED BY <1>1, <3>1, <3>2 DEF SigningInv, Types
  <2> QED BY <2>1 DEF SigningInv, JournalInv, gateNow
<1>4. Own' = Own /\ \A b : (Recorded(b) => Recorded(b)') /\ IssuedAt(b)' = IssuedAt(b)
  BY DEF Own, Recorded, IssuedAt, RowsOf
<1>5. \A b \in Attempts : AttemptInv(b)'
  <2>1. WellFormed(journal') /\ Grown /\ \A b \in Attempts : RowsOf(b)' = RowsOf(b)
    BY DEF SigningInv, JournalInv, Grown, RowsOf
  <2> QED BY <2>1, AttemptKept
<1>6. OwnInv'
  BY <1>4 DEF SigningInv, OwnInv
<1>7. FlightInv'
  <2>1. ASSUME NEW f, f \in flight'
        PROVE  /\ Recorded(f.of)' /\ pc'[f.of] \in Started
               /\ IssuedAt(f.of)' <= f.since + drift /\ f.since + drift < IssuedAt(f.of)' + TTL
               /\ f.since <= now + 1 /\ now + 1 < f.since + SignAttempt
               /\ \A e \in Own : e.digest # f.of
    <3>1. f.since <= now /\ f.since \in Nat
      BY <1>1, <2>1 DEF SigningInv, FlightInv, Types
    <3> QED BY <1>1, <1>4, <2>1, <3>1 DEF SigningInv, FlightInv
  <2>2. \A f, g \in flight' : f.of = g.of => f = g
    BY <1>1 DEF SigningInv, FlightInv
  <2> QED BY <1>4, <2>1, <2>2 DEF FlightInv
<1>8. TrailInv'
  <2>1. \A e \in events : e.at \in Nat
    BY DEF SigningInv, Types, Events
  <2> QED BY <1>1, <2>1 DEF SigningInv, TrailInv
<1> QED BY <1>2, <1>3, <1>5, <1>6, <1>7, <1>8 DEF SigningInv

\* Every step of the gate and of the service keeps the invariant.
LEMMA SigningKept ==
    ASSUME SigningInv, SigningNext
    PROVE  SigningInv'
<1>1. ASSUME NEW a \in Attempts, Attempt(a)
      PROVE  SigningInv'
  BY <1>1, DecideStep, AnchorDecisionStep, CheckThenCallStep, SignReturnsStep,
     RecordResultStep, AnchorResultStep, EndStep DEF Attempt
<1>2. ASSUME NEW f \in flight, ServeSign(f)
      PROVE  SigningInv'
  BY <1>2, ServeSignStep
<1> QED BY <1>1, <1>2, ForeignSignStep, TickStep DEF SigningNext

\* It holds when nothing has been signed.
LEMMA SigningStart ==
    ASSUME SigningInit
    PROVE  SigningInv
<1> USE DEF SigningInit
<1>1. Own = {} /\ DOMAIN journal = {1} /\ journal[1] = [kind |-> "other"]
  BY DEF Own
<1>2. Types
  <2>1. journal \in Seq(Rows)
    BY DEF Rows
  <2> QED BY <1>1, <2>1, TimesAssumption DEF Types, PCs, ResultStates
<1>3. JournalInv
  BY <1>1 DEF JournalInv, WellFormed
<1>4. \A a \in Attempts : AttemptInv(a)
  BY DEF AttemptInv
<1>5. FlightInv /\ OwnInv
  BY <1>1 DEF FlightInv, OwnInv
<1>6. TrailInv
  BY FS_EmptySet DEF TrailInv
<1> QED BY <1>2, <1>3, <1>4, <1>5, <1>6 DEF SigningInv

\* What any step of the gate or the service does to the record, the trail and
\* the clock.
LEMMA SigningGrows ==
    ASSUME SigningInv, SigningNext
    PROVE  /\ Grown /\ drift' = drift /\ now' \in Nat /\ now <= now'
           /\ events \subseteq events' /\ \A e \in events' \ events : e.at = now
<1>0. now \in Nat
  BY DEF SigningInv, Types
<1>1. ASSUME NEW a \in Attempts, Attempt(a)
      PROVE  Grown /\ UNCHANGED <<now, drift, events>>
  <2>1. CASE Decide(a)
    BY <2>1, DecideStep DEF Decide
  <2>2. CASE RecordResult(a)
    BY <2>2, RecordResultStep DEF RecordResult
  <2>3. CASE AnchorDecision(a)
    BY <2>3 DEF AnchorDecision, Anchored, Grown
  <2>4. CASE AnchorResult(a)
    BY <2>4 DEF AnchorResult, Anchored, Grown
  <2>5. CASE CheckThenCall(a) \/ SignReturns(a) \/ HandOut(a) \/ GiveUp(a)
    BY <2>5 DEF CheckThenCall, SignReturns, HandOut, GiveUp, Grown
  <2> QED BY <1>1, <2>1, <2>2, <2>3, <2>4, <2>5 DEF Attempt
<1>2. ASSUME NEW d, NEW by, NEW foreign, NEW made, Serve(d, by, foreign, made)
      PROVE  events \subseteq events' /\ \A e \in events' \ events : e.at = now
  BY <1>2 DEF Serve
<1>3. ASSUME NEW f \in flight, ServeSign(f)
      PROVE  Grown /\ UNCHANGED <<now, drift>> /\ events \subseteq events'
             /\ \A e \in events' \ events : e.at = now
  BY <1>2, <1>3 DEF ServeSign, Grown
<1>4. ASSUME ForeignSign
      PROVE  Grown /\ UNCHANGED <<now, drift>> /\ events \subseteq events'
             /\ \A e \in events' \ events : e.at = now
  BY <1>2, <1>4 DEF ForeignSign, Grown
<1>5. ASSUME Tick
      PROVE  Grown /\ drift' = drift /\ now' = now + 1 /\ events' = events
  BY <1>5 DEF Tick, Grown
<1> QED BY <1>0, <1>1, <1>3, <1>4, <1>5 DEF SigningNext

\* issued_at of an attempt whose decision is in the journal, before and after.
LEMMA IssuedStays ==
    ASSUME SigningInv, SigningInv', Grown, NEW a,
           \E n \in DOMAIN journal : Authorised(journal[n]) /\ journal[n].of = a
    PROVE  /\ IssuedAt(a) \in Int /\ 0 <= IssuedAt(a) /\ IssuedAt(a)' = IssuedAt(a)
           /\ \E n \in DOMAIN journal' : Authorised(journal'[n]) /\ journal'[n].of = a
<1>1. PICK n \in DOMAIN journal : Authorised(journal[n]) /\ journal[n].of = a
  OBVIOUS
<1>2. journal[n].kind = "decision" /\ journal[n].at \in Int
  BY <1>1, AuthorisedRow DEF SigningInv, Types
<1>3. IssuedAt(a) = journal[n].at /\ 0 <= journal[n].at
  BY <1>1, <1>2, IssuedAtRow DEF SigningInv, Types, JournalInv
<1>4. /\ \A k \in DOMAIN journal : k \in DOMAIN journal' /\ journal'[k] = journal[k]
      /\ IssuedAt(a)' = IssuedAt(a)
  BY <1>1, <1>2, RecordStays DEF SigningInv, JournalInv
<1> QED BY <1>1, <1>2, <1>3, <1>4

\* The window of a record that the journal holds.
LEMMA WindowEnds ==
    ASSUME NEW i \in Int
    PROVE  /\ DecisionWindow(i, i + TTL).end = i + TTL + AttemptBound + SkewBound
           /\ DecisionWindow(i, i + TTL).start = Later(0, i - SkewBound)
           /\ DecisionWindow(i, i + TTL).start \in Nat
           /\ DecisionWindow(i, i + TTL).end \in Int
           /\ i + TTL + SignAttempt + Skew <= DecisionWindow(i, i + TTL).end
BY TimesAssumption, PolicyAssumption, AuditAssumption DEF DecisionWindow, Interval, Later

\* A call of the gate's after the checkpoint has a time after it.
LEMMA PinKept ==
    ASSUME SigningInv, SigningInv', PinInv, SigningNext, audit' = audit
    PROVE  PinInv'
<1>1. /\ Grown /\ now' \in Nat /\ now <= now' /\ now \in Nat
      /\ events \subseteq events' /\ \A e \in events' \ events : e.at = now
  BY SigningGrows DEF SigningInv, Types
<1>2. /\ DOMAIN journal \subseteq DOMAIN journal' /\ journal \in Seq(Rows) /\ journal' \in Seq(Rows)
      /\ \A n \in DOMAIN journal : journal'[n] = journal[n]
  BY <1>1, RecordStays DEF SigningInv, JournalInv, Types
<1>3. Len(journal) <= Len(journal') /\ Len(journal) \in Nat /\ Len(journal') \in Nat
  <2>1. DOMAIN journal = 1 .. Len(journal) /\ DOMAIN journal' = 1 .. Len(journal')
        /\ Len(journal) \in Nat /\ Len(journal') \in Nat
    BY <1>2
  <2> QED BY <1>2, <2>1
<1>4. ASSUME audit.pc \in {"pinned", "rows"}, NEW e \in Own', e.at < audit.covered
      PROVE  \E n \in 1 .. audit.tip : Authorised(journal'[n]) /\ journal'[n].of = e.digest
  <2>1. audit.covered \in Nat /\ audit.covered <= now /\ audit.tip \in Nat /\ audit.tip <= Len(journal)
    BY <1>4 DEF PinInv
  <2>2. e \in Own
    BY <1>1, <1>4, <2>1 DEF Own
  <2>3. PICK n \in 1 .. audit.tip : Authorised(journal[n]) /\ journal[n].of = e.digest
    BY <1>4, <2>2 DEF PinInv
  <2>4. n \in DOMAIN journal
    BY <1>2, <2>1, <2>3
  <2> QED BY <1>2, <2>3, <2>4
<1>5. audit.pc \in {"pinned", "rows"} =>
          /\ audit.covered \in Nat /\ audit.covered <= now'
          /\ audit.tip \in Nat /\ audit.tip <= Len(journal')
          /\ audit.tips \subseteq Nat
  BY <1>1, <1>3 DEF PinInv
<1>6. audit.pc = "rows" => audit.rows \in Nat /\ audit.rows <= Len(journal')
  BY <1>3 DEF PinInv
<1> QED BY <1>4, <1>5, <1>6 DEF PinInv

\* What a report says stays true, since it speaks of times that are over.
LEMMA ReportKept ==
    ASSUME SigningInv, SigningInv', ReportInv, SigningNext, audit' = audit
    PROVE  ReportInv'
<1>1. /\ Grown /\ now' \in Nat /\ now <= now' /\ now \in Nat
      /\ events \subseteq events' /\ \A e \in events' \ events : e.at = now
  BY SigningGrows DEF SigningInv, Types
<1>2. /\ DOMAIN journal \subseteq DOMAIN journal'
      /\ \A n \in DOMAIN journal : journal'[n] = journal[n]
  BY <1>1, RecordStays DEF SigningInv, JournalInv, Types
<1>3. MadeEvents \subseteq MadeEvents' /\ \A e \in MadeEvents' \ MadeEvents : e.at = now
  BY <1>1 DEF MadeEvents
<1>4. AlarmInv'
  BY <1>3 DEF ReportInv, AlarmInv
<1>5. ASSUME NEW a \in audit.report.unwitnessed
      PROVE  /\ a \in Attempts
             /\ \E n \in DOMAIN journal' : Authorised(journal'[n]) /\ journal'[n].of = a
             /\ IssuedAt(a)' = IssuedAt(a) /\ IssuedAt(a) \in Int
             /\ DecisionWindow(IssuedAt(a), IssuedAt(a) + TTL).end <= now
  <2>1. /\ a \in Attempts
        /\ \E n \in DOMAIN journal : Authorised(journal[n]) /\ journal[n].of = a
        /\ DecisionWindow(IssuedAt(a), IssuedAt(a) + TTL).end <= now
    BY DEF ReportInv, WitnessInv
  <2> QED BY <1>1, <2>1, IssuedStays
<1>6. WitnessInv'
  <2>1. ASSUME NEW a \in audit.report.unwitnessed
        PROVE  DecisionWindow(IssuedAt(a)', IssuedAt(a)' + TTL).end <= now'
    <3>1. DecisionWindow(IssuedAt(a), IssuedAt(a) + TTL).end \in Int
      BY <1>5, WindowEnds
    <3> QED BY <1>1, <1>5, <3>1
  <2> QED BY <1>5, <2>1 DEF WitnessInv
<1>7. UnwitnessedIsFinal'
  <2>1. ASSUME NEW a \in audit.report.unwitnessed, NEW e \in MadeEvents', e.digest = a
        PROVE  /\ e.foreign
               /\ e.by = "runner" =>
                    ~ Within(e.at, DecisionWindow(IssuedAt(a)', IssuedAt(a)' + TTL))
    <3>1. CASE e \in MadeEvents
      BY <1>5, <2>1, <3>1 DEF ReportInv, UnwitnessedIsFinal
    <3>2. CASE e \notin MadeEvents
      <4> DEFINE w == DecisionWindow(IssuedAt(a), IssuedAt(a) + TTL)
      <4>1. e.at = now /\ e \in events'
        BY <1>3, <3>2 DEF MadeEvents
      <4>2. w.end \in Int /\ IssuedAt(a) + TTL + SignAttempt + Skew <= w.end
        BY <1>5, WindowEnds
      <4>3. w.end <= now
        BY <1>5
      <4>4. ~ Within(e.at, w)
        BY <1>1, <4>1, <4>2, <4>3 DEF Within
      <4>5. e.foreign
        <5> SUFFICES ASSUME ~ e.foreign PROVE FALSE
          OBVIOUS
        <5>1. e \in Own'
          BY <4>1 DEF Own
        <5>2. e.at < IssuedAt(e.digest)' + TTL + SignAttempt + Skew
          BY <5>1 DEF SigningInv, OwnInv
        <5>3. now < IssuedAt(a) + TTL + SignAttempt + Skew
          BY <1>5, <2>1, <4>1, <5>2
        <5> QED BY <1>1, <1>5, <4>2, <4>3, <5>3, TimesAssumption
      <4> QED BY <1>5, <4>4, <4>5
    <3> QED BY <3>1, <3>2
  <2> QED BY <2>1 DEF UnwitnessedIsFinal
<1>8. CleanInv'
  BY <1>1 DEF ReportInv, CleanInv
<1>9. CleanMeansAccounted'
  <2> SUFFICES ASSUME audit.report.clean PROVE CleanMeansAccounted'
    BY DEF CleanMeansAccounted
  <2>1. audit.q.end \in Nat /\ audit.q.end <= now
    BY DEF ReportInv, CleanInv
  <2>2. ASSUME NEW e \in MadeEvents', Within(e.at, audit.q)
        PROVE  e \in MadeEvents
    BY <1>1, <1>3, <2>1, <2>2 DEF Within
  <2>3. ASSUME NEW e \in MadeEvents, Within(e.at, audit.q)
        PROVE  /\ \E n \in DOMAIN journal' : Authorised(journal'[n]) /\ journal'[n].of = e.digest
               /\ \A f \in MadeEvents : f # e /\ Within(f.at, audit.q) => f.digest # e.digest
    BY <1>2, <2>3 DEF ReportInv, CleanMeansAccounted
  <2> QED BY <2>2, <2>3 DEF CleanMeansAccounted
<1> QED BY <1>4, <1>6, <1>7, <1>8, <1>9 DEF ReportInv

(***************************************************************************)
(* Reading the trail.                                                      *)
(***************************************************************************)

\* A set of natural numbers that is not empty has a least element, which is what
\* Min chooses.
LEMMA MinIsLeast ==
    ASSUME NEW T, T \subseteq Nat, T # {}
    PROVE  Min(T) \in T /\ \A m \in T : Min(T) <= m
<1> DEFINE Less == {ss \in Nat \X Nat : ss[1] < ss[2]}
<1>1. IsWellFoundedOn(Less, Nat)
  BY NatLessThanWellFounded DEF OpToRel
<1> HIDE DEF Less
<1>2. PICK n \in T : \A m \in T : ~ (<<m, n>> \in Less)
  BY <1>1, WFMin
<1>3. ASSUME NEW m \in T PROVE n <= m
  <2>1. ~ (m < n)
    BY <1>2 DEF Less
  <2> QED BY <2>1
<1> QED BY <1>3 DEF Min

\* A bounded one has a greatest element.
LEMMA MaxIsGreatest ==
    ASSUME NEW T, T \subseteq Nat, T # {}, NEW b \in Nat, \A m \in T : m <= b
    PROVE  Max(T) \in T /\ \A m \in T : m <= Max(T)
<1> DEFINE D == {b - m : m \in T}
<1>1. D \subseteq Nat /\ D # {}
  <2>1. \A m \in T : b - m \in Nat
    OBVIOUS
  <2>2. PICK m \in T : TRUE
    OBVIOUS
  <2>3. b - m \in D
    BY <2>2
  <2> QED BY <2>1, <2>3
<1>2. PICK d \in D : \A c \in D : d <= c
  <2> HIDE DEF D
  <2> QED BY <1>1, MinIsLeast
<1>3. PICK n \in T : d = b - n
  OBVIOUS
<1>4. ASSUME NEW m \in T PROVE n >= m
  <2>1. b - m \in D
    OBVIOUS
  <2>2. b - n <= b - m
    BY <1>2, <1>3, <2>1
  <2> QED BY <2>2
<1> DEFINE g == CHOOSE x \in T : \A y \in T : x >= y
<1>5. g \in T /\ \A y \in T : g >= y
  BY <1>4
<1> HIDE DEF g
<1> QED BY <1>5 DEF Max, g

\* The events of a set in the order of their ids: each of them once.
LEMMA ArrivalOrder ==
    ASSUME NEW R, IsFiniteSet(R), \A e \in R : e.id \in Nat,
           \A e, f \in R : e.id = f.id => e = f
    PROVE  /\ Cardinality(R) \in Nat
           /\ DOMAIN ByArrival(R) = 1 .. Cardinality(R)
           /\ Len(ByArrival(R)) = Cardinality(R)
           /\ \A i \in 1 .. Cardinality(R) : ByArrival(R)[i] \in R
           /\ \A e \in R : \E i \in 1 .. Cardinality(R) : ByArrival(R)[i] = e
<1> DEFINE upto(e) == {f \in R : f.id <= e.id}
           rank == [e \in R |-> Cardinality(upto(e))]
           n == Cardinality(R)
<1>1. n \in Nat
  BY FS_CardinalityType
<1>2. ASSUME NEW e \in R
      PROVE  IsFiniteSet(upto(e)) /\ Cardinality(upto(e)) \in 1 .. n
  <2>1. upto(e) \in SUBSET R /\ e \in upto(e)
    OBVIOUS
  <2>2. IsFiniteSet(upto(e)) /\ Cardinality(upto(e)) <= n
    BY <2>1, FS_Subset
  <2>3. Cardinality(upto(e)) \in Nat /\ Cardinality(upto(e)) # 0
    BY <2>1, <2>2, FS_CardinalityType, FS_EmptySet
  <2> QED BY <1>1, <2>2, <2>3
<1>3. ASSUME NEW e \in R, NEW f \in R, e.id < f.id
      PROVE  Cardinality(upto(e)) # Cardinality(upto(f))
  <2>1. upto(e) \in SUBSET upto(f) /\ f \in upto(f) /\ f \notin upto(e)
    BY <1>3
  <2>2. IsFiniteSet(upto(f))
    BY <1>2
  <2>3. upto(e) # upto(f)
    BY <2>1
  <2> HIDE DEF upto
  <2> QED BY <2>1, <2>2, <2>3, FS_Subset
<1>4. ASSUME NEW e \in R, NEW f \in R, Cardinality(upto(e)) = Cardinality(upto(f))
      PROVE  e = f
  <2>1. e.id < f.id \/ f.id < e.id \/ e.id = f.id
    OBVIOUS
  <2> HIDE DEF upto
  <2> QED BY <1>3, <1>4, <2>1
<1> HIDE DEF upto, n
<1>5. rank \in Injection(R, 1 .. n)
  BY <1>2, <1>4 DEF Injection, IsInjective
<1>6. IsFiniteSet(1 .. n) /\ Cardinality(1 .. n) = n
  BY <1>1, FS_Interval
<1>7. rank \in Surjection(R, 1 .. n)
  <2> HIDE DEF rank
  <2> QED BY <1>5, <1>6, FS_Injection DEF n
<1>8. ASSUME NEW i \in 1 .. n
      PROVE  \E e \in R : Cardinality(upto(e)) = i
  BY <1>7 DEF Surjection
<1>9. ByArrival(R) = [i \in 1 .. n |-> CHOOSE e \in R : Cardinality(upto(e)) = i]
  BY DEF ByArrival, n, upto
<1>10. ASSUME NEW i \in 1 .. n
       PROVE  ByArrival(R)[i] \in R
  <2>1. (CHOOSE e \in R : Cardinality(upto(e)) = i) \in R
    BY <1>8
  <2> QED BY <1>9, <2>1
<1>11. ASSUME NEW e \in R
       PROVE  \E i \in 1 .. n : ByArrival(R)[i] = e
  <2>1. PICK i \in 1 .. n : i = Cardinality(upto(e))
    BY <1>2
  <2>2. (CHOOSE f \in R : Cardinality(upto(f)) = i) = e
    BY <1>4, <2>1
  <2>3. ByArrival(R)[i] = e
    BY <1>9, <2>2
  <2> QED BY <2>3
<1>12. DOMAIN ByArrival(R) = 1 .. n /\ Len(ByArrival(R)) = n
  BY <1>1, <1>9
<1> QED BY <1>1, <1>10, <1>11, <1>12 DEF n

\* Every event is on one of the pages that its number needs.
LEMMA OnAPage ==
    ASSUME NEW n \in Nat, NEW j \in 1 .. n
    PROVE  (j - 1) \div PageSize \in 0 .. (Pages(n) - 1)
<1> DEFINE p == PageSize
           k == (j - 1) \div p
           m == (n + p - 1) \div p
<1>1. p \in Nat /\ p > 0
  BY PolicyAssumption
<1>2. k \in Nat /\ m \in Nat /\ p * k <= j - 1 /\ n + p - 1 < p * (m + 1)
  BY <1>1
<1> HIDE DEF k, m, p
<1>3. p * (m + 1) = p * m + p
  BY <1>1, <1>2
<1>4. p * k < p * m
  <2>1. p * k \in Int /\ p * m \in Int
    BY <1>1, <1>2
  <2> QED BY <1>1, <1>2, <1>3, <2>1
<1>5. k < m
  <2> SUFFICES ASSUME m <= k PROVE FALSE
    BY <1>2
  <2>1. PICK d \in Nat : k = m + d
    <3>1. k - m \in Nat /\ k = m + (k - m)
      BY <1>2
    <3> QED BY <3>1
  <2>2. p * k = p * m + p * d /\ p * d >= 0
    BY <1>1, <1>2, <2>1
  <2> QED BY <1>1, <1>2, <1>4, <2>1, <2>2
<1>6. Pages(n) = m
  BY DEF Pages, m, p
<1> QED BY <1>2, <1>5, <1>6 DEF k, p

\* What an interval is for a reader of the trail.
IsInterval(i) == i.start \in Nat /\ i.end \in Nat

\* The claims of a read from which its completeness over i follows.
Claims(read, i) ==
    /\ ~ read.issue
    /\ Contains(read.coverage.covered, i)
    /\ read.coverage.frontier >= i.end
    /\ \A g \in read.coverage.gaps : ~ Overlaps(g, i)

\* A read of the trail returns events of the trail, and every one of an interval
\* that its coverage, its frontier and its gaps leave no doubt about.
Faithful(read, trail, q, t, c) ==
    /\ read.events \subseteq trail
    /\ read.coverage.covered = Clip(Interval(c.retention, t), q)
    /\ \A g \in read.coverage.gaps : IsInterval(g) /\ ~ Empty(g)
    /\ read.coverage.frontier \in Nat
    /\ \A i, e : e \in trail /\ IsInterval(i) /\ Within(e.at, i) /\ Claims(read, i)
          => e \in read.events

\* Every read of _Medium through collect_sign_records is faithful.
LEMMA TrailRead ==
    ASSUME SigningInv, NEW trail \in SUBSET events, NEW visible, NEW q, IsInterval(q),
           NEW t \in Nat, NEW c \in Trails, c.capability # "metadata_only",
           NEW read, read = ReadTrail(trail, visible, q, t, c)
    PROVE  Faithful(read, trail, q, t, c)
<1> DEFINE gaps     == GapsIn(c, q)
           eligible == {e \in trail : Within(e.at, q) /\ e.at >= c.retention}
           readable == {e \in eligible \cap visible : \A g \in gaps : ~Within(e.at, g)}
           order    == ByArrival(readable)
           pages    == Collect(Pages(Len(order)), c.fault, c.page)
           got      == {order[i] : i \in {j \in DOMAIN order : (j - 1) \div PageSize \in pages.seen}}
           starts   == {t} \cup {e.at : e \in eligible \ visible} \cup {g.start : g \in gaps}
<1>1. /\ read.events = {Normalized(e, c) : e \in got}
      /\ read.issue = pages.issue
      /\ read.coverage.covered = Clip(Interval(c.retention, t), q)
      /\ read.coverage.gaps = gaps
      /\ read.coverage.frontier = Min(starts)
  BY DEF ReadTrail, SignRead, Coverage
<1>2. c.retention \in Nat /\ c.page \in Nat /\ \A g \in c.gaps : g.start \in Nat /\ g.end \in Nat
  BY AuditAssumption
<1>3. \A e \in trail : e \in events /\ e.at \in Nat /\ e.id \in Nat
  BY DEF SigningInv, Types, Events
<1>4. \A g \in gaps : IsInterval(g) /\ ~ Empty(g)
  BY <1>2 DEF GapsIn, IsInterval, Clip, Interval, Later, Earlier
<1>5. IsFiniteSet(readable) /\ readable \subseteq trail
  BY FS_Subset DEF SigningInv, TrailInv
<1>6. /\ Cardinality(readable) \in Nat
      /\ DOMAIN order = 1 .. Cardinality(readable)
      /\ Len(order) = Cardinality(readable)
      /\ \A i \in 1 .. Cardinality(readable) : order[i] \in readable
      /\ \A e \in readable : \E i \in 1 .. Cardinality(readable) : order[i] = e
  <2>1. \A e \in readable : e.id \in Nat
    BY <1>3
  <2>2. \A e, f \in readable : e.id = f.id => e = f
    BY <1>3 DEF SigningInv, TrailInv
  <2> HIDE DEF readable
  <2> QED BY <1>5, <2>1, <2>2, ArrivalOrder
<1>7. starts \subseteq Nat /\ t \in starts
  BY <1>3, <1>4 DEF IsInterval
<1>8. Min(starts) \in Nat /\ \A s \in starts : Min(starts) <= s
  <2> HIDE DEF starts
  <2> QED BY <1>7, MinIsLeast
<1>9. read.events = got
  BY <1>1 DEF Normalized
<1>10. read.events \subseteq readable
  <2> HIDE DEF readable
  <2> QED BY <1>6, <1>9
<1>11. ASSUME NEW i, NEW e, e \in trail, IsInterval(i), Within(e.at, i), Claims(read, i)
       PROVE  e \in read.events
  <2>1. e.at \in Nat /\ i.start <= e.at /\ e.at < i.end /\ i.start \in Nat /\ i.end \in Nat
    BY <1>3, <1>11 DEF Within, IsInterval
  <2>2. e \in eligible
    <3>1. Contains(Clip(Interval(c.retention, t), q), i)
      BY <1>1, <1>11 DEF Claims
    <3>2. c.retention <= i.start /\ q.start <= i.start /\ i.end <= q.end
      BY <1>2, <2>1, <3>1 DEF Contains, Clip, Interval, Later, Earlier, IsInterval
    <3>3. Within(e.at, q) /\ e.at >= c.retention
      BY <1>2, <2>1, <3>2 DEF Within, IsInterval
    <3> QED BY <1>11, <3>3
  <2>3. e \in visible
    <3> SUFFICES ASSUME e \notin visible PROVE FALSE
      OBVIOUS
    <3>1. e.at \in starts
      BY <2>2
    <3>2. Min(starts) <= e.at /\ Min(starts) >= i.end
      BY <1>1, <1>8, <1>11, <3>1 DEF Claims
    <3> HIDE DEF starts
    <3> QED BY <1>8, <2>1, <3>2
  <2>4. \A g \in gaps : ~ Within(e.at, g)
    <3> SUFFICES ASSUME NEW g \in gaps, Within(e.at, g) PROVE FALSE
      OBVIOUS
    <3>1. ~ Overlaps(g, i) /\ IsInterval(g)
      BY <1>1, <1>4, <1>11 DEF Claims
    <3> QED BY <2>1, <3>1 DEF Overlaps, Within, IsInterval
  <2>5. e \in readable
    BY <2>2, <2>3, <2>4
  <2>6. PICK j \in 1 .. Cardinality(readable) : order[j] = e
    <3> HIDE DEF readable, order
    <3> QED BY <1>6, <2>5
  <2>7. pages.seen = 0 .. (Pages(Cardinality(readable)) - 1)
    <3> DEFINE n == Pages(Cardinality(readable))
    <3>1. ~ pages.issue
      BY <1>1, <1>11 DEF Claims
    <3>2. n \in Nat
      <4>1. (j - 1) \div PageSize \in 0 .. (n - 1)
        BY <1>6, <2>6, OnAPage
      <4>2. n \in Int
        BY <1>6, PolicyAssumption DEF Pages
      <4>3. (j - 1) \div PageSize \in Int /\ 0 <= (j - 1) \div PageSize
        BY <4>1
      <4> QED BY <4>1, <4>2, <4>3
    <3>3. pages = Collect(n, c.fault, c.page)
      BY <1>6
    <3> HIDE DEF n, pages
    <3>4. pages.seen = 0 .. (n - 1)
      <4> DEFINE most == Earlier(n, PageLimit)
                 seen == IF c.fault # "none" /\ c.page < most THEN c.page ELSE most
      <4>1. pages.seen = 0 .. (seen - 1) /\ pages.issue = (seen < n)
        BY <3>3 DEF Collect
      <4>2. most \in Nat /\ most <= n
        BY <3>2, PolicyAssumption DEF Earlier
      <4> HIDE DEF most
      <4>3. seen \in Nat /\ seen <= n
        BY <1>2, <3>2, <4>2
      <4> HIDE DEF seen
      <4>4. ~ (seen < n)
        BY <3>1, <4>1
      <4>5. seen = n
        BY <3>2, <4>3, <4>4
      <4> QED BY <4>1, <4>5
    <3> QED BY <3>4 DEF n
  <2>8. (j - 1) \div PageSize \in pages.seen
    BY <1>6, <2>6, <2>7, OnAPage
  <2>9. e \in got
    <3>1. j \in DOMAIN order /\ e = order[j]
      BY <1>6, <2>6
    <3> HIDE DEF order, pages
    <3> QED BY <2>8, <3>1
  <2> QED BY <1>9, <2>9
<1> HIDE DEF gaps, eligible, readable, order, pages, got, starts
<1>12. read.events \subseteq trail
  BY <1>5, <1>10
<1>13. read.coverage.frontier \in Nat
  BY <1>1, <1>8
<1>14. \A g \in read.coverage.gaps : IsInterval(g) /\ ~ Empty(g)
  BY <1>1, <1>4
<1> QED BY <1>1, <1>11, <1>12, <1>13, <1>14 DEF Faithful

\* The fields of a read and of its coverage.
Shaped(read) ==
    /\ read = [events |-> read.events, coverage |-> read.coverage, provider |-> read.provider,
               backend |-> read.backend, issue |-> read.issue]
    /\ read.coverage =
          [requested |-> read.coverage.requested, covered |-> read.coverage.covered,
           frontier |-> read.coverage.frontier, gaps |-> read.coverage.gaps,
           observed |-> read.coverage.observed, capability |-> read.coverage.capability,
           attested |-> read.coverage.attested, exhausted |-> read.coverage.exhausted]

\* Every read has them.
LEMMA ReadShape ==
    ASSUME NEW q, NEW t, NEW read \in TrailReads(q, t)
    PROVE  Shaped(read)
<1>1. PICK trail : trail = {e \in events : e.at <= t}
  OBVIOUS
<1>2. TrailReads(q, t) =
          {ReadTrail(trail, visible, q, t, c) : visible \in SUBSET trail, c \in Trails}
  BY <1>1 DEF TrailReads
<1>3. PICK visible \in SUBSET trail, c \in Trails : read = ReadTrail(trail, visible, q, t, c)
  BY <1>2, SMT
<1> QED BY <1>3 DEF ReadTrail, SignRead, Coverage, Shaped

\* The same of the reads of an instant.
LEMMA InstantRead ==
    ASSUME SigningInv, NEW q, IsInterval(q), NEW t \in Nat, NEW read \in TrailReads(q, t),
           read.coverage.capability # "metadata_only"
    PROVE  /\ read.events \subseteq events
           /\ \E n \in Nat : read.coverage.covered = Clip(Interval(n, t), q)
           /\ \A g \in read.coverage.gaps : IsInterval(g) /\ ~ Empty(g)
           /\ read.coverage.frontier \in Nat
           /\ \A i, e : e \in events /\ e.at <= t /\ IsInterval(i) /\ Within(e.at, i) /\ Claims(read, i)
                 => e \in read.events
<1>1. PICK trail : trail = {e \in events : e.at <= t}
  OBVIOUS
<1>11. TrailReads(q, t) =
          {ReadTrail(trail, visible, q, t, c) : visible \in SUBSET trail, c \in Trails}
  BY <1>1 DEF TrailReads
<1>2. PICK visible \in SUBSET trail, c \in Trails : read = ReadTrail(trail, visible, q, t, c)
  BY <1>11, SMT
<1>3. c.capability # "metadata_only"
  BY <1>2 DEF ReadTrail, SignRead, Coverage
<1>4. trail \in SUBSET events /\ \A e : e \in trail <=> e \in events /\ e.at <= t
  BY <1>1
<1>5. Faithful(read, trail, q, t, c)
  BY <1>2, <1>3, <1>4, TrailRead
<1>6. c.retention \in Nat
  BY AuditAssumption
<1> QED BY <1>4, <1>5, <1>6 DEF Faithful

\* The same of what the auditor compares with, whether it asked the trail or a
\* saved export of it.
LEMMA EvidenceRead ==
    ASSUME SigningInv, NEW q, IsInterval(q), NEW read \in Evidence(q),
           read.coverage.capability = "digest_bound"
    PROVE  /\ read.events \subseteq events
           /\ \A i, e : e \in events /\ IsInterval(i) /\ Within(e.at, i) /\ Claims(read, i)
                 => e \in read.events
<1>0. now \in Nat /\ \A e \in events : e.at \in Nat /\ e.at <= now
  BY DEF SigningInv, Types, Events, TrailInv
<1>1. CASE read \in TrailReads(q, now)
  BY <1>0, <1>1, InstantRead
<1>2. ASSUME NEW t \in ExportTimes, t <= now, NEW x \in TrailReads(ExportRange, t),
             read = FromExport(x, q)
      PROVE  /\ read.events \subseteq events
             /\ \A i, e : e \in events /\ IsInterval(i) /\ Within(e.at, i) /\ Claims(read, i)
                   => e \in read.events
  <2>1. t \in Nat /\ IsInterval(ExportRange)
    BY AuditAssumption DEF IsInterval
  <2>2. Shaped(x)
    BY <1>2, ReadShape
  <2>3. /\ read.events = {e \in x.events : Within(e.at, q)}
        /\ read.issue = (x.issue \/ ~ Contains(x.coverage.requested, q))
        /\ read.coverage.covered = Clip(x.coverage.covered, q)
        /\ read.coverage.gaps = {g \in {Clip(h, q) : h \in x.coverage.gaps} : ~ Empty(g)}
        /\ read.coverage.frontier = x.coverage.frontier
        /\ read.coverage.capability = x.coverage.capability
    BY <1>2, <2>2 DEF FromExport, Shaped
  <2>4. x.coverage.capability # "metadata_only"
    BY <2>3
  <2>5. /\ x.events \subseteq events
        /\ \A g \in x.coverage.gaps : IsInterval(g) /\ ~ Empty(g)
        /\ x.coverage.frontier \in Nat
        /\ \A i, e : e \in events /\ e.at <= t /\ IsInterval(i) /\ Within(e.at, i) /\ Claims(x, i)
              => e \in x.events
    BY <1>2, <2>1, <2>4, InstantRead
  <2>6. PICK n \in Nat : x.coverage.covered = Clip(Interval(n, t), ExportRange)
    BY <1>2, <2>1, <2>4, InstantRead
  <2>7. ASSUME NEW i, NEW e, e \in events, IsInterval(i), Within(e.at, i), Claims(read, i)
        PROVE  e \in read.events
    <3>1. e.at \in Nat /\ i.start <= e.at /\ e.at < i.end /\ i.start \in Nat /\ i.end \in Nat
      BY <1>0, <2>7 DEF Within, IsInterval
    <3>2. Contains(Clip(Clip(Interval(n, t), ExportRange), q), i)
      BY <2>3, <2>6, <2>7 DEF Claims
    <3>3. /\ Contains(Clip(Interval(n, t), ExportRange), i)
          /\ Contains(q, i) /\ i.end <= t
      BY <2>1, <3>1, <3>2 DEF Contains, Clip, Interval, Later, Earlier, IsInterval
    <3>4. e.at <= t /\ Within(e.at, q)
      <4>1. e.at <= t
        BY <2>1, <3>1, <3>3
      <4>2. Within(e.at, q)
        BY <3>1, <3>3 DEF Contains, Within, IsInterval
      <4> QED BY <4>1, <4>2
    <3>5. ASSUME NEW g \in x.coverage.gaps, Overlaps(g, i)
          PROVE  FALSE
      <4>1. /\ g.start \in Nat /\ g.end \in Nat /\ g.start < g.end
            /\ g.start < i.end /\ i.start < g.end
        BY <2>5, <3>5 DEF IsInterval, Overlaps, Empty
      <4>2. q.start \in Nat /\ q.end \in Nat /\ q.start <= i.start /\ i.end <= q.end
        BY <3>3 DEF IsInterval, Contains
      <4>3. /\ Clip(g, q).start = IF g.start < q.start THEN q.start ELSE g.start
            /\ Clip(g, q).end = IF g.end < q.end THEN g.end ELSE q.end
        BY DEF Clip, Interval, Later, Earlier
      <4>4. ~ Empty(Clip(g, q)) /\ Overlaps(Clip(g, q), i)
        <5>1. Clip(g, q).start < i.end /\ i.start < Clip(g, q).end
          BY <3>1, <4>1, <4>2, <4>3
        <5>2. Clip(g, q).start < Clip(g, q).end
          BY <3>1, <4>1, <4>2, <4>3
        <5> QED BY <4>1, <4>2, <4>3, <5>1, <5>2 DEF Overlaps, Empty
      <4>5. Clip(g, q) \in read.coverage.gaps
        BY <2>3, <3>5, <4>4
      <4> QED BY <2>7, <4>4, <4>5 DEF Claims
    <3>6. ~ x.issue /\ x.coverage.frontier >= i.end
      BY <2>3, <2>7 DEF Claims
    <3>7. Claims(x, i)
      BY <2>6, <3>3, <3>5, <3>6 DEF Claims
    <3>8. e \in x.events
      BY <2>5, <2>7, <3>4, <3>7
    <3> QED BY <2>3, <3>4, <3>8
  <2> QED BY <2>3, <2>5, <2>7
<1>3. read \notin TrailReads(q, now) =>
         \E t \in ExportTimes : t <= now /\ \E x \in TrailReads(ExportRange, t) : read = FromExport(x, q)
  BY DEF Evidence
<1> QED BY <1>1, <1>2, <1>3

\* What is asked of the trail holds the query and the windows of its records.
LEMMA ExtendedHolds ==
    ASSUME NEW recs, NEW q, IsInterval(q), NEW b \in Nat,
           \A r \in recs : /\ r.issued \in Nat /\ r.issued <= b
                           /\ r.expires = r.issued + TTL
    PROVE  /\ IsInterval(Extended(recs, q)) /\ Contains(Extended(recs, q), q)
           /\ \A r \in Selected(recs, q) : Contains(Extended(recs, q), Window(r))
<1> DEFINE ws == {DecisionWindow(r.issued, r.expires) : r \in Selected(recs, q)}
           ss == {q.start} \cup {w.start : w \in ws}
           es == {q.end} \cup {w.end : w \in ws}
           top == q.end + b + TTL + AttemptBound + SkewBound
<1>1. ASSUME NEW w \in ws
      PROVE  w.start \in Nat /\ w.end \in Nat /\ w.end <= top
  <2>1. PICK r \in recs : w = DecisionWindow(r.issued, r.expires)
    BY DEF Selected
  <2>2. r.issued \in Nat /\ r.issued <= b /\ r.expires = r.issued + TTL
    BY <2>1
  <2>3. /\ w.end = r.issued + TTL + AttemptBound + SkewBound /\ w.start \in Nat
    BY <2>1, <2>2, WindowEnds
  <2> QED BY <2>2, <2>3, TimesAssumption, PolicyAssumption DEF IsInterval
<1>2. top \in Nat /\ q.end <= top
  BY TimesAssumption, PolicyAssumption DEF IsInterval
<1> HIDE DEF ws, top
<1>3. ss \subseteq Nat /\ q.start \in ss /\ es \subseteq Nat /\ q.end \in es /\ \A m \in es : m <= top
  BY <1>1, <1>2 DEF IsInterval
<1>4. Min(ss) \in Nat /\ \A m \in ss : Min(ss) <= m
  <2> HIDE DEF ss
  <2> QED BY <1>3, MinIsLeast
<1>5. Max(es) \in Nat /\ \A m \in es : m <= Max(es)
  <2> HIDE DEF es
  <2> QED BY <1>2, <1>3, MaxIsGreatest
<1>6. Extended(recs, q).start = Min(ss) /\ Extended(recs, q).end = Max(es)
  BY DEF Extended, Interval, ws
<1>7. \A w \in ws : w.start \in ss /\ w.end \in es
  OBVIOUS
<1> HIDE DEF ss, es
<1>8. \A r \in Selected(recs, q) : Window(r) \in ws
  BY DEF ws, Window
<1> QED BY <1>3, <1>4, <1>5, <1>6, <1>7, <1>8 DEF IsInterval, Contains

\* The records read_gate returns are the decisions of the rows it read.
LEMMA RecordsAre ==
    ASSUME SigningInv, NEW k \in Nat, k <= Len(journal),
           NEW recs, recs = RecordsOf(SubSeq(journal, 1, k))
    PROVE  /\ Len(SubSeq(journal, 1, k)) = k
           /\ \A r \in recs :
                /\ \E n \in DOMAIN journal : Authorised(journal[n]) /\ journal[n].of = r.of
                /\ r.of \in Attempts
                /\ r.issued = IssuedAt(r.of) /\ r.expires = r.issued + TTL
                /\ r.issued \in Nat /\ r.issued <= gateNow
           /\ \A r, s \in recs : r.of = s.of => r = s
           /\ \A n \in 1 .. k : Authorised(journal[n]) => \E r \in recs : r.of = journal[n].of
<1> DEFINE rows == SubSeq(journal, 1, k)
<1>1. /\ journal \in Seq(Rows) /\ DOMAIN journal = 1 .. Len(journal) /\ Len(journal) \in Nat
      /\ WellFormed(journal)
  BY DEF SigningInv, Types, JournalInv
<1>2. Len(rows) = k /\ DOMAIN rows = 1 .. k /\ \A n \in 1 .. k : rows[n] = journal[n]
  BY <1>1
<1> HIDE DEF rows
<1>3. recs = {[of |-> rows[n].of, issued |-> rows[n].at, expires |-> rows[n].at + TTL] :
                 n \in {m \in DOMAIN rows : Authorised(rows[m])}}
  BY DEF RecordsOf, rows
<1>4. ASSUME NEW r \in recs
      PROVE  \E n \in DOMAIN journal :
                /\ Authorised(journal[n]) /\ n \in 1 .. k
                /\ r = [of |-> journal[n].of, issued |-> journal[n].at, expires |-> journal[n].at + TTL]
  BY <1>1, <1>2, <1>3
<1>5. ASSUME NEW r \in recs
      PROVE  /\ \E n \in DOMAIN journal : Authorised(journal[n]) /\ journal[n].of = r.of
             /\ r.of \in Attempts
             /\ r.issued = IssuedAt(r.of) /\ r.expires = r.issued + TTL
             /\ r.issued \in Nat /\ r.issued <= gateNow
             /\ r = [of |-> r.of, issued |-> IssuedAt(r.of), expires |-> IssuedAt(r.of) + TTL]
  <2>1. PICK n \in DOMAIN journal :
                /\ Authorised(journal[n])
                /\ r = [of |-> journal[n].of, issued |-> journal[n].at, expires |-> journal[n].at + TTL]
    BY <1>4
  <2>2. journal[n].kind = "decision" /\ journal[n].of \in Attempts /\ journal[n].at \in Int
    BY <1>1, <2>1, AuthorisedRow
  <2>3. IssuedAt(journal[n].of) = journal[n].at
    BY <1>1, <2>2, IssuedAtRow
  <2>4. 0 <= journal[n].at /\ journal[n].at <= gateNow
    BY <2>2 DEF SigningInv, JournalInv
  <2>5. journal[n].at \in Nat
    BY <2>2, <2>4
  <2>6. r.of = journal[n].of /\ r.issued = journal[n].at /\ r.expires = journal[n].at + TTL
    BY <2>1
  <2> QED BY <2>1, <2>2, <2>3, <2>4, <2>5, <2>6
<1>6. \A r, s \in recs : r.of = s.of => r = s
  BY <1>5
<1>7. ASSUME NEW n \in 1 .. k, Authorised(journal[n])
      PROVE  \E r \in recs : r.of = journal[n].of
  <2>1. n \in DOMAIN rows /\ Authorised(rows[n]) /\ rows[n].of = journal[n].of
    BY <1>2, <1>7
  <2>2. [of |-> rows[n].of, issued |-> rows[n].at, expires |-> rows[n].at + TTL] \in recs
    BY <1>3, <2>1
  <2> QED BY <2>1, <2>2
<1> QED BY <1>2, <1>5, <1>6, <1>7 DEF rows

(***************************************************************************)
(* The comparison.                                                         *)
(***************************************************************************)

\* What is true of a comparison without a fatal problem.
Grounded(c) ==
    /\ Bound(c) /\ c.caller = "runner" /\ c.now = now /\ IsInterval(c.q)
    /\ c.read.events \subseteq events
    /\ \A i, e : e \in events /\ IsInterval(i) /\ Within(e.at, i) /\ CoverageOk(c.read, i, now)
          => e \in c.read.events
    /\ \A r \in c.sel :
          /\ \E n \in DOMAIN journal : Authorised(journal[n]) /\ journal[n].of = r.of
          /\ r.of \in Attempts /\ r.issued \in Nat
          /\ r.issued = IssuedAt(r.of) /\ r.expires = r.issued + TTL
    /\ \A r, s \in c.sel : r.of = s.of => r = s
    /\ \A e \in Own : Within(e.at, c.q) => \E r \in c.sel : r.of = e.digest

\* The window of a record holds the gate's own calls for it.
LEMMA RecordWindow ==
    ASSUME SigningInv, NEW c, Grounded(c), NEW r \in c.sel
    PROVE  /\ IsInterval(Window(r)) /\ Window(r) = DecisionWindow(IssuedAt(r.of), IssuedAt(r.of) + TTL)
           /\ \A e \in Own : e.digest = r.of => Compatible(e, r, c.caller)
<1>1. /\ r.issued \in Nat /\ r.issued = IssuedAt(r.of) /\ r.expires = r.issued + TTL
      /\ c.caller = "runner"
  BY DEF Grounded
<1>2. Window(r) = DecisionWindow(r.issued, r.issued + TTL)
  BY <1>1 DEF Window
<1>3. /\ Window(r).end = r.issued + TTL + AttemptBound + SkewBound
      /\ Window(r).start = Later(0, r.issued - SkewBound)
      /\ Window(r).start \in Nat
      /\ r.issued + TTL + SignAttempt + Skew <= Window(r).end
  BY <1>1, <1>2, WindowEnds
<1>4. IsInterval(Window(r))
  BY <1>1, <1>3, TimesAssumption, PolicyAssumption DEF IsInterval
<1>5. ASSUME NEW e \in Own, e.digest = r.of
      PROVE  Compatible(e, r, c.caller)
  <2>1. e.by = "runner" /\ r.issued - Skew <= e.at /\ e.at < r.issued + TTL + SignAttempt + Skew
    BY <1>1, <1>5 DEF SigningInv, OwnInv
  <2>2. e.at \in Nat
    BY DEF SigningInv, Types, Own, Events
  <2>3. Window(r).start <= e.at
    BY <1>1, <1>3, <2>1, <2>2, TimesAssumption, PolicyAssumption, AuditAssumption DEF Later
  <2>4. e.at < Window(r).end
    BY <1>1, <1>3, <2>1, <2>2, TimesAssumption, PolicyAssumption
  <2> QED BY <1>1, <1>5, <2>1, <2>3, <2>4 DEF Compatible, Within, Window
<1> QED BY <1>1, <1>2, <1>4, <1>5

\* A record is the only one its events can be explained by.
LEMMA OneCandidate ==
    ASSUME NEW c, Grounded(c), NEW e, NEW r \in Candidates(c, e)
    PROVE  Candidates(c, e) = {r} /\ r \in c.sel /\ r.of = e.digest
<1>1. \A s \in Candidates(c, e) : s \in c.sel /\ s.of = e.digest
  BY DEF Candidates, Compatible
<1> QED BY <1>1 DEF Grounded

\* Of the conclusive events of a record the first is MATCHED.
LEMMA FirstIsMatched ==
    ASSUME SigningInv, NEW c, Grounded(c), NEW conclusive \in SUBSET events,
           NEW e \in conclusive, NEW r \in Candidates(c, e)
    PROVE  \E m \in Matched(c, conclusive) : Candidates(c, m) = {r}
<1> DEFINE S == {f \in conclusive : Candidates(c, f) = {r}}
           T == {f.at : f \in S}
<1>1. e \in S
  BY OneCandidate
<1>2. \A f \in events : f.at \in Nat /\ f.id \in Nat
  BY DEF SigningInv, Types, Events
<1>3. T \subseteq Nat /\ T # {}
  BY <1>1, <1>2
<1>4. PICK k \in T : \A m \in T : k <= m
  <2> HIDE DEF T
  <2> QED BY <1>3, MinIsLeast
<1> DEFINE U == {f \in S : f.at = k}
           I == {f.id : f \in U}
<1>5. I \subseteq Nat /\ I # {}
  BY <1>2, <1>4
<1>6. PICK j \in I : \A m \in I : j <= m
  <2> HIDE DEF I
  <2> QED BY <1>5, MinIsLeast
<1>7. PICK m \in U : m.id = j
  OBVIOUS
<1>8. ASSUME NEW f \in conclusive \ {m}, Candidates(c, f) = Candidates(c, m)
      PROVE  Before(m, f)
  <2>1. f \in S /\ m \in S /\ m.at = k /\ m \in events /\ f \in events
    BY <1>7, <1>8
  <2>2. k <= f.at /\ f.at \in Nat /\ k \in Nat /\ m.id \in Nat /\ f.id \in Nat
    BY <1>2, <1>3, <1>4, <2>1
  <2>3. CASE f.at = k
    <3>1. f.id \in I /\ j <= f.id
      BY <1>6, <2>1, <2>3
    <3>2. f.id # m.id
      BY <1>8, <2>1 DEF SigningInv, TrailInv
    <3> HIDE DEF I, T, S, U
    <3> QED BY <1>7, <2>1, <2>2, <2>3, <3>1, <3>2 DEF Before
  <2>4. CASE f.at # k
    <3> HIDE DEF I, T, S, U
    <3> QED BY <2>1, <2>2, <2>4 DEF Before
  <2> QED BY <2>3, <2>4
<1>9. m \in conclusive /\ Candidates(c, m) = {r}
  BY <1>7
<1> HIDE DEF I, T, S, U
<1>10. m \in Matched(c, conclusive)
  BY <1>8, <1>9 DEF Matched
<1> QED BY <1>9, <1>10

\* A conclusive event is a signature of the trail.
LEMMA ConclusiveAre ==
    ASSUME SigningInv, NEW c, Grounded(c)
    PROVE  /\ Conclusive(c) \in SUBSET events
           /\ \A e \in Conclusive(c) : e.made /\ e \in Judged(c)
<1>1. ASSUME NEW e \in Conclusive(c)
      PROVE  e \in Judged(c) /\ e.outcome = "success" /\ e \in events
  <2>1. e \in Judged(c) /\ e.outcome = "success"
    BY DEF Conclusive
  <2>2. e \in c.read.events
    BY <2>1 DEF Judged
  <2> QED BY <2>1, <2>2 DEF Grounded
<1> QED BY <1>1 DEF SigningInv, TrailInv

\* A call of the gate's own that is conclusive has its record.
LEMMA OwnHasItsRecord ==
    ASSUME SigningInv, NEW c, Grounded(c), NEW e \in Own, e \in Judged(c)
    PROVE  \E r \in c.sel : Candidates(c, e) = {r}
<1>1. PICK r \in c.sel : r.of = e.digest
  BY DEF Judged, Grounded
<1>2. Compatible(e, r, c.caller)
  BY <1>1, RecordWindow
<1>3. r \in Candidates(c, e)
  BY <1>2 DEF Candidates, Grounded
<1> QED BY <1>3, OneCandidate

\* After a fatal problem the report says nothing.
LEMMA FatalSaysNothing ==
    ASSUME NEW c, c.fatal, NEW open
    PROVE  /\ Report(c, open).unexplained = {} /\ Report(c, open).unwitnessed = {}
           /\ ~ Report(c, open).clean
<1>1. Conclusive(c) = {}
  BY DEF Conclusive
<1>2. \A i : ~ Settled(c, i)
  BY DEF Settled
<1>3. \A used : Unwitnessed(c, used) = {}
  BY <1>2 DEF Unwitnessed
<1> QED BY <1>1, <1>3 DEF Report

\* UNEXPLAINED: signatures, and one of the gate's own only beside a foreign one
\* that is not.
LEMMA AlarmReport ==
    ASSUME SigningInv, NEW c, Grounded(c), NEW open,
           NEW e \in Report(c, open).unexplained
    PROVE  /\ e \in MadeEvents
           /\ ~ e.foreign => \E f \in MadeEvents : /\ f.foreign /\ f.digest = e.digest
                                                   /\ f \notin Report(c, open).unexplained
<1> DEFINE cc == Conclusive(c)
           mm == Matched(c, cc)
<1>1. e \in cc /\ e \notin mm /\ Report(c, open).unexplained = cc \ mm
  BY DEF Report
<1>2. cc \in SUBSET events /\ \A f \in cc : f.made /\ f \in Judged(c)
  BY ConclusiveAre
<1>3. \A f \in mm : f \in cc
  BY DEF Matched
<1> HIDE DEF cc, mm
<1>4. e \in MadeEvents
  BY <1>1, <1>2 DEF MadeEvents
<1>5. ASSUME ~ e.foreign
      PROVE  \E f \in MadeEvents : /\ f.foreign /\ f.digest = e.digest
                                   /\ f \notin Report(c, open).unexplained
  <2>1. e \in Own
    BY <1>1, <1>2, <1>5 DEF Own
  <2>2. PICK r \in c.sel : Candidates(c, e) = {r}
    BY <1>1, <1>2, <2>1, OwnHasItsRecord
  <2>3. PICK m \in mm : Candidates(c, m) = {r}
    <3>1. r \in Candidates(c, e)
      BY <2>2
    <3> QED BY <1>1, <1>2, <3>1, FirstIsMatched DEF mm
  <2>4. m.digest = e.digest
    <3>1. r \in Candidates(c, m) /\ r \in Candidates(c, e)
      BY <2>2, <2>3
    <3> QED BY <3>1, OneCandidate
  <2>5. m \in events /\ m.made /\ m # e
    BY <1>1, <1>2, <1>3, <2>3
  <2>6. m.foreign
    <3> SUFFICES ASSUME ~ m.foreign PROVE FALSE
      OBVIOUS
    <3>1. m \in Own
      BY <2>5 DEF Own
    <3> QED BY <2>1, <2>4, <2>5, <3>1 DEF SigningInv, OwnInv
  <2> QED BY <1>1, <2>3, <2>4, <2>5, <2>6 DEF MadeEvents
<1> QED BY <1>4, <1>5

\* UNWITNESSED: the window is over, and nothing in it was signed for the record.
LEMMA WitnessReport ==
    ASSUME SigningInv, NEW c, Grounded(c), NEW open,
           NEW a \in Report(c, open).unwitnessed
    PROVE  /\ a \in Attempts
           /\ \E n \in DOMAIN journal : Authorised(journal[n]) /\ journal[n].of = a
           /\ DecisionWindow(IssuedAt(a), IssuedAt(a) + TTL).end <= now
           /\ \A e \in MadeEvents : e.digest = a =>
                 /\ e.foreign
                 /\ e.by = "runner" =>
                      ~ Within(e.at, DecisionWindow(IssuedAt(a), IssuedAt(a) + TTL))
<1> DEFINE cc == Conclusive(c)
           mm == Matched(c, cc)
           used == UNION {Candidates(c, e) : e \in mm}
<1>1. PICK r \in c.sel : /\ Settled(c, Window(r)) /\ r \notin used /\ ~ Uncertain(c, r) /\ r.of = a
  BY DEF Report, Unwitnessed
<1>2. /\ IsInterval(Window(r))
      /\ Window(r) = DecisionWindow(IssuedAt(a), IssuedAt(a) + TTL)
      /\ \A e \in Own : e.digest = a => Compatible(e, r, c.caller)
  BY <1>1, RecordWindow
<1>3. a \in Attempts /\ \E n \in DOMAIN journal : Authorised(journal[n]) /\ journal[n].of = a
  BY <1>1 DEF Grounded
<1>4. Bound(c) /\ c.caller = "runner" /\ c.now = now /\ IsInterval(c.q) /\ now \in Nat
  BY DEF Grounded, SigningInv, Types
<1>5. Window(r).end <= now
  BY <1>1, <1>2, <1>4, PolicyAssumption DEF Settled, Later, IsInterval
<1>6. CoverageOk(c.read, Window(r), now) /\ ~ c.fatal
  BY <1>1, <1>4 DEF Settled
<1>7. ASSUME NEW e \in MadeEvents, Compatible(e, r, c.caller)
      PROVE  FALSE
  <2>1. e \in events /\ e.made /\ e.outcome \in Outcomes /\ e.outcome # "denied"
    BY DEF MadeEvents, SigningInv, Types, Events, TrailInv
  <2>2. Within(e.at, Window(r)) /\ e.digest = r.of
    BY <1>7 DEF Compatible, Window
  <2>3. e \in c.read.events
    BY <1>2, <1>6, <2>1, <2>2 DEF Grounded
  <2>4. e.outcome = "success"
    BY <1>1, <2>1, <2>2, <2>3 DEF Uncertain, Outcomes
  <2>5. r \in Candidates(c, e)
    BY <1>4, <1>7 DEF Candidates
  <2>6. Candidates(c, e) = {r}
    BY <2>5, OneCandidate
  <2>7. Affected(c, e) = Window(r)
    BY <2>6 DEF Affected
  <2>8. e \in Judged(c)
    BY <1>4, <2>2, <2>3, <2>4 DEF Judged
  <2>9. e \in cc
    BY <1>1, <1>4, <1>6, <2>4, <2>7, <2>8 DEF Conclusive
  <2>10. cc \in SUBSET events
    BY ConclusiveAre
  <2> HIDE DEF cc
  <2>11. PICK m \in mm : Candidates(c, m) = {r}
    BY <2>5, <2>9, <2>10, FirstIsMatched
  <2> HIDE DEF mm
  <2>12. r \in used
    BY <2>11
  <2> QED BY <1>1, <2>12
<1>8. ASSUME NEW e \in MadeEvents, e.digest = a
      PROVE  e.foreign /\ (e.by = "runner" => ~ Within(e.at, Window(r)))
  <2>1. e.foreign
    <3> SUFFICES ASSUME ~ e.foreign PROVE FALSE
      OBVIOUS
    <3>1. e \in Own
      BY DEF MadeEvents, Own
    <3> QED BY <1>2, <1>7, <1>8, <3>1
  <2>2. ASSUME e.by = "runner", Within(e.at, Window(r))
        PROVE  FALSE
    <3>1. Compatible(e, r, c.caller)
      BY <1>1, <1>4, <1>8, <2>2 DEF Compatible, Window
    <3> QED BY <1>7, <3>1
  <2> QED BY <2>1, <2>2
<1> QED BY <1>2, <1>3, <1>5, <1>8

\* Clean: every signature of the range has a record of its own.
LEMMA CleanReport ==
    ASSUME SigningInv, NEW c, Grounded(c), NEW open, Report(c, open).clean,
           NEW ext, IsInterval(ext), Contains(ext, c.q), CoverageOk(c.read, ext, now),
           NEW e \in MadeEvents, Within(e.at, c.q)
    PROVE  /\ \E n \in DOMAIN journal : Authorised(journal[n]) /\ journal[n].of = e.digest
           /\ \A f \in MadeEvents : f # e /\ Within(f.at, c.q) => f.digest # e.digest
<1> DEFINE cc == Conclusive(c)
           mm == Matched(c, cc)
<1>1. Judged(c) \subseteq mm
  BY DEF Report
<1>2. ASSUME NEW f \in MadeEvents, Within(f.at, c.q)
      PROVE  f \in mm /\ f.at \in Nat /\ f.id \in Nat
  <2>1. f \in events /\ f.outcome # "denied" /\ f.at \in Nat /\ f.id \in Nat
    BY DEF MadeEvents, SigningInv, Types, Events, TrailInv
  <2>2. Within(f.at, ext)
    BY <1>2, <2>1 DEF Within, Contains, IsInterval, Grounded
  <2>3. f \in c.read.events
    BY <2>1, <2>2 DEF Grounded
  <2>4. f \in Judged(c)
    BY <1>2, <2>1, <2>3 DEF Judged
  <2> QED BY <1>1, <2>1, <2>4
<1>3. ASSUME NEW f \in mm
      PROVE  /\ f \in cc
             /\ \E r \in c.sel : Candidates(c, f) = {r} /\ r.of = f.digest
             /\ \A g \in cc \ {f} : Candidates(c, g) = Candidates(c, f) => Before(f, g)
  <2>1. /\ f \in cc /\ Candidates(c, f) # {}
        /\ \A g \in cc \ {f} : Candidates(c, g) = Candidates(c, f) => Before(f, g)
    BY DEF Matched
  <2>2. PICK r \in Candidates(c, f) : TRUE
    BY <2>1
  <2> QED BY <2>1, <2>2, OneCandidate
<1> HIDE DEF cc, mm
<1>4. e \in mm
  BY <1>2
<1>5. PICK r \in c.sel : Candidates(c, e) = {r} /\ r.of = e.digest
  BY <1>3, <1>4
<1>6. ASSUME NEW f \in MadeEvents, f # e, Within(f.at, c.q), f.digest = e.digest
      PROVE  FALSE
  <2>1. f \in mm /\ f.at \in Nat /\ f.id \in Nat /\ e.at \in Nat /\ e.id \in Nat
    BY <1>2, <1>6
  <2>2. PICK s \in c.sel : Candidates(c, f) = {s} /\ s.of = f.digest
    BY <1>3, <2>1
  <2>3. s = r
    BY <1>5, <1>6, <2>2 DEF Grounded
  <2>4. Before(e, f) /\ Before(f, e)
    BY <1>3, <1>4, <1>5, <1>6, <2>1, <2>2, <2>3
  <2> QED BY <2>1, <2>4 DEF Before
<1> QED BY <1>5, <1>6 DEF Grounded

\* A comparison without a fatal problem is grounded: the checkpoint reaches past
\* every call of the gate's in what is asked, and the read is what it claims.
LEMMA ComparisonGrounded ==
    ASSUME SigningInv, PinInv, audit.pc = "rows", NEW q \in Queries, NEW tips,
           NEW gate, gate = GateRead(SubSeq(journal, 1, audit.rows), tips, audit.tip),
           NEW recs, recs = IF gate = "ok" THEN RecordsOf(SubSeq(journal, 1, audit.rows)) ELSE {},
           NEW ext, ext = Extended(recs, q), NEW read \in Evidence(ext),
           FatalProblems(gate, Interval(0, audit.covered), ext, read, now, ScopeProblems(read)) = {},
           NEW c, c.sel = Selected(recs, q), c.read = read, c.q = q, c.now = now,
           c.caller = "runner"
    PROVE  Grounded(c) /\ IsInterval(ext) /\ Contains(ext, q)
<1>1. /\ audit.rows \in Nat /\ audit.rows <= Len(journal) /\ audit.tip \in Nat
      /\ audit.covered \in Nat
  BY DEF PinInv
<1>2. /\ gate = "ok" /\ ScopeProblems(read) = {} /\ ~ read.issue
      /\ Contains(Interval(0, audit.covered), RequiredGate(ext))
  BY DEF FatalProblems
<1>3. read.coverage.capability = "digest_bound"
  BY <1>2 DEF ScopeProblems
<1>4. recs = RecordsOf(SubSeq(journal, 1, audit.rows))
  BY <1>2
<1>5. /\ Len(SubSeq(journal, 1, audit.rows)) = audit.rows
      /\ \A r \in recs :
                /\ \E n \in DOMAIN journal : Authorised(journal[n]) /\ journal[n].of = r.of
                /\ r.of \in Attempts
                /\ r.issued = IssuedAt(r.of) /\ r.expires = r.issued + TTL
                /\ r.issued \in Nat /\ r.issued <= gateNow
      /\ \A r, s \in recs : r.of = s.of => r = s
      /\ \A n \in 1 .. audit.rows : Authorised(journal[n]) => \E r \in recs : r.of = journal[n].of
  BY <1>1, <1>4, RecordsAre
<1>6. audit.rows = audit.tip
  BY <1>2, <1>5 DEF GateRead
<1>7. IsInterval(q)
  BY AuditAssumption DEF IsInterval
<1>8. gateNow \in Nat
  BY TimesAssumption DEF SigningInv, Types, gateNow
<1>9. IsInterval(ext) /\ Contains(ext, q)
  BY <1>5, <1>7, <1>8, ExtendedHolds
<1>10. /\ read.events \subseteq events
       /\ \A i, e : e \in events /\ IsInterval(i) /\ Within(e.at, i) /\ Claims(read, i)
             => e \in read.events
  BY <1>3, <1>9, EvidenceRead
<1>11. \A i : CoverageOk(read, i, now) => Claims(read, i)
  BY DEF CoverageOk, Claims
<1>12. ASSUME NEW e \in Own, Within(e.at, q)
       PROVE  \E r \in c.sel : r.of = e.digest
  <2>1. e.at \in Nat /\ e \in events
    BY DEF SigningInv, Types, Own, Events
  <2>2. e.at < audit.covered
    <3>1. RequiredGate(ext).end = ext.end + SkewBound /\ RequiredGate(ext).end <= audit.covered
      BY <1>2 DEF RequiredGate, Interval, Contains
    <3>2. e.at < q.end /\ q.end <= ext.end
      BY <1>9, <1>12 DEF Within, Contains
    <3> QED BY <1>1, <1>7, <1>9, <2>1, <3>1, <3>2, PolicyAssumption DEF IsInterval
  <2>3. PICK n \in 1 .. audit.tip : Authorised(journal[n]) /\ journal[n].of = e.digest
    BY <2>2 DEF PinInv
  <2>4. PICK r \in recs : r.of = e.digest
    BY <1>5, <1>6, <2>3
  <2> DEFINE w == DecisionWindow(r.issued, r.expires)
  <2>5. r.issued = IssuedAt(e.digest) /\ r.expires = r.issued + TTL /\ r.issued \in Nat
    BY <1>5, <2>4
  <2>6. /\ w.end \in Int /\ w.start = Later(0, r.issued - SkewBound)
        /\ w.start \in Nat /\ r.issued + TTL + SignAttempt + Skew <= w.end
    BY <2>5, WindowEnds
  <2>7. r.issued - Skew <= e.at /\ e.at < r.issued + TTL + SignAttempt + Skew
    BY <2>5 DEF SigningInv, OwnInv
  <2>8. w.start <= e.at /\ e.at < w.end
    BY <2>1, <2>5, <2>6, <2>7, TimesAssumption, PolicyAssumption, AuditAssumption DEF Later
  <2>9. Overlaps(w, q)
    <3> HIDE DEF w
    <3> QED BY <1>7, <1>12, <2>1, <2>6, <2>8 DEF Overlaps, Within, IsInterval
  <2>10. r \in Selected(recs, q)
    BY <2>9 DEF Selected
  <2> QED BY <2>4, <2>10
<1>13. c.sel \subseteq recs
  BY DEF Selected
<1>14. Bound(c)
  BY <1>3 DEF Bound
<1>15. Grounded(c)
  BY <1>5, <1>7, <1>10, <1>11, <1>12, <1>13, <1>14 DEF Grounded
<1> QED BY <1>9, <1>15

\* The rest of reconcile() establishes what its report says.
LEMMA AuditStep ==
    ASSUME Inv, Audit
    PROVE  PinInv' /\ ReportInv'
<1> USE DEF Audit
<1>0. SigningInv /\ PinInv /\ audit.pc = "rows" /\ UNCHANGED signingVars
  BY DEF Inv
<1>1. PICK q \in Queries, tips \in {anchored, audit.tips} : Compare(q, tips)
  OBVIOUS
<1>2. PICK gate : gate = GateRead(SubSeq(journal, 1, audit.rows), tips, audit.tip)
  OBVIOUS
<1>3. PICK recs : recs = IF gate = "ok" THEN RecordsOf(SubSeq(journal, 1, audit.rows)) ELSE {}
  OBVIOUS
<1>4. PICK ext : ext = Extended(recs, q)
  OBVIOUS
<1>5. PICK read \in Evidence(ext) :
        LET fatal == FatalProblems(gate, Interval(0, audit.covered), ext, read, now,
                                   ScopeProblems(read))
            d == [sel |-> Selected(recs, q), read |-> read, fatal |-> fatal # {},
                  q |-> q, now |-> now, caller |-> "runner"]
        IN audit' = [audit EXCEPT
               !.pc = "done", !.tip = 0, !.tips = {}, !.covered = 0, !.rows = 0, !.q = q,
               !.report = Report(d, OpenProblems(ext, read, q, now) # {})]
  BY <1>1, <1>2, <1>3, <1>4 DEF Compare
<1>6. PICK fatal : fatal = FatalProblems(gate, Interval(0, audit.covered), ext, read, now,
                                          ScopeProblems(read))
  OBVIOUS
<1>7. PICK c : c = [sel |-> Selected(recs, q), read |-> read, fatal |-> fatal # {},
                    q |-> q, now |-> now, caller |-> "runner"]
  OBVIOUS
<1>8. PICK open : open = (OpenProblems(ext, read, q, now) # {})
  OBVIOUS
<1>9. PICK rep : rep = Report(c, open)
  OBVIOUS
<1>10. audit' = [audit EXCEPT
               !.pc = "done", !.tip = 0, !.tips = {}, !.covered = 0, !.rows = 0, !.q = q,
               !.report = rep]
  BY <1>5, <1>6, <1>7, <1>8, <1>9
<1>11. /\ c.sel = Selected(recs, q) /\ c.read = read /\ c.fatal = (fatal # {})
       /\ c.q = q /\ c.now = now /\ c.caller = "runner"
  BY <1>7
<1>12. audit'.pc = "done" /\ audit'.report = rep /\ audit'.q = q
  BY <1>10 DEF Inv, AuditShape
<1>13. PinInv'
  BY <1>12 DEF PinInv
<1>14. UNCHANGED <<now, journal, events>> /\ MadeEvents' = MadeEvents
       /\ \A a : IssuedAt(a)' = IssuedAt(a)
  BY <1>0 DEF signingVars, MadeEvents, IssuedAt, RowsOf
<1>15. CASE fatal # {}
  <2>1. rep.unexplained = {} /\ rep.unwitnessed = {} /\ ~ rep.clean
    BY <1>9, <1>11, <1>15, FatalSaysNothing
  <2> QED BY <1>12, <1>13, <2>1
          DEF ReportInv, AlarmInv, WitnessInv, UnwitnessedIsFinal, CleanInv, CleanMeansAccounted
<1>16. CASE fatal = {}
  <2>1. Grounded(c) /\ IsInterval(ext) /\ Contains(ext, q)
    BY <1>0, <1>2, <1>3, <1>4, <1>6, <1>11, <1>16, ComparisonGrounded
  <2>2. ASSUME NEW e \in rep.unexplained
        PROVE  /\ e \in MadeEvents
               /\ ~ e.foreign => \E f \in MadeEvents : /\ f.foreign /\ f.digest = e.digest
                                                       /\ f \notin rep.unexplained
    BY <1>0, <1>9, <2>1, AlarmReport
  <2>3. AlarmInv'
    BY <1>12, <1>14, <2>2 DEF AlarmInv
  <2>4. ASSUME NEW a \in rep.unwitnessed
        PROVE  /\ a \in Attempts
               /\ \E n \in DOMAIN journal : Authorised(journal[n]) /\ journal[n].of = a
               /\ DecisionWindow(IssuedAt(a), IssuedAt(a) + TTL).end <= now
               /\ \A e \in MadeEvents : e.digest = a =>
                     /\ e.foreign
                     /\ e.by = "runner" =>
                          ~ Within(e.at, DecisionWindow(IssuedAt(a), IssuedAt(a) + TTL))
    BY <1>0, <1>9, <2>1, WitnessReport
  <2>5. WitnessInv'
    BY <1>12, <1>14, <2>4 DEF WitnessInv
  <2>6. UnwitnessedIsFinal'
    BY <1>12, <1>14, <2>4 DEF UnwitnessedIsFinal
  <2>7. ASSUME rep.clean
        PROVE  CoverageOk(read, ext, now) /\ q.end \in Nat /\ q.end <= now
    <3>1. ~ open
      BY <1>9, <2>7 DEF Report
    <3>2. CoverageOk(read, ext, now) /\ ~ (now < q.end + Settle)
      BY <1>8, <3>1 DEF OpenProblems
    <3>3. q.end \in Nat /\ now \in Nat
      BY <1>0, AuditAssumption DEF SigningInv, Types
    <3> QED BY <3>2, <3>3, PolicyAssumption
  <2>8. CleanInv'
    BY <1>12, <1>14, <2>7 DEF CleanInv
  <2>9. ASSUME rep.clean, NEW e \in MadeEvents, Within(e.at, q)
        PROVE  /\ \E n \in DOMAIN journal : Authorised(journal[n]) /\ journal[n].of = e.digest
               /\ \A f \in MadeEvents : f # e /\ Within(f.at, q) => f.digest # e.digest
    BY <1>0, <1>9, <1>11, <2>1, <2>7, <2>9, CleanReport
  <2>10. CleanMeansAccounted'
    BY <1>12, <1>14, <2>9 DEF CleanMeansAccounted
  <2> QED BY <1>13, <2>3, <2>5, <2>6, <2>8, <2>10 DEF ReportInv
<1> QED BY <1>15, <1>16

(***************************************************************************)
(* The invariant, and what follows from it.                                *)
(***************************************************************************)

\* The invariant holds initially,
LEMMA InvStart ==
    ASSUME Init
    PROVE  Inv
<1>1. SigningInv /\ events = {}
  BY SigningStart DEF Init, SigningInit
<1>2. audit.pc = "idle" /\ audit.report = NoReport /\ AuditShape
  BY DEF Init, AuditShape
<1>3. PinInv
  BY <1>2 DEF PinInv
<1>4. ReportInv
  BY <1>2 DEF ReportInv, AlarmInv, WitnessInv, UnwitnessedIsFinal, CleanInv, CleanMeansAccounted,
              NoReport
<1> QED BY <1>1, <1>2, <1>3, <1>4 DEF Inv

\* Steps that leave the gate and the service alone.
LEMMA SigningStutter ==
    ASSUME SigningInv, UNCHANGED signingVars
    PROVE  SigningInv'
<1>1. UNCHANGED <<now, drift, pc, result, flight, journal, anchored, events>>
  BY DEF signingVars
<1>2. JournalInv' /\ WellFormed(journal') /\ Grown /\ \A b \in Attempts : RowsOf(b)' = RowsOf(b)
  BY <1>1, SameJournal
<1>3. FlightInv' /\ OwnInv' /\ TrailInv'
  BY <1>1, <1>2, CallsKept
<1>4. \A b \in Attempts : AttemptInv(b)'
  BY <1>1, <1>2, AttemptKept
<1>5. Types'
  BY <1>1 DEF SigningInv, Types
<1> QED BY <1>2, <1>3, <1>4, <1>5 DEF SigningInv

\* A report is kept by a step that changes nothing it is about.
LEMMA ReportStutter ==
    ASSUME ReportInv, UNCHANGED signingVars, audit'.report = audit.report, audit'.q = audit.q
    PROVE  ReportInv'
<1>1. MadeEvents' = MadeEvents /\ UNCHANGED <<now, journal>> /\ \A a : IssuedAt(a)' = IssuedAt(a)
  BY DEF signingVars, MadeEvents, IssuedAt, RowsOf
<1> QED BY <1>1 DEF ReportInv, AlarmInv, WitnessInv, UnwitnessedIsFinal, CleanInv,
                    CleanMeansAccounted

\* The auditor's own steps before the comparison leave the report alone.
LEMMA PreparationStep ==
    ASSUME Inv, Checkpoint \/ ReadRows
    PROVE  Inv'
<1> USE DEF Checkpoint, ReadRows
<1>1. UNCHANGED signingVars /\ SigningInv
  BY DEF Inv
<1>2. SigningInv'
  BY <1>1, SigningStutter
<1>3. AuditShape
  BY DEF Inv
<1>4. /\ audit'.report = audit.report /\ audit'.q = audit.q /\ AuditShape'
      /\ audit'.pc \in {"pinned", "rows"}
  BY <1>3 DEF AuditShape
<1>5. ReportInv'
  BY <1>1, <1>4, ReportStutter DEF Inv
<1>6. /\ now \in Nat /\ journal \in Seq(Rows) /\ anchored \subseteq DOMAIN journal
      /\ DOMAIN journal = 1 .. Len(journal) /\ Len(journal) \in Nat
      /\ Own' = Own /\ UNCHANGED <<now, journal>>
  BY <1>1 DEF SigningInv, Types, signingVars, Own
<1>7. PinInv'
  <2>1. CASE Checkpoint
    <3>1. /\ audit'.pc = "pinned" /\ audit'.tip = Len(journal) /\ audit'.tips = anchored
          /\ audit'.covered = now
      BY <1>3, <2>1 DEF AuditShape
    <3>2. ASSUME NEW e \in Own
          PROVE  \E n \in 1 .. Len(journal) : Authorised(journal[n]) /\ journal[n].of = e.digest
      <4>1. Recorded(e.digest)
        BY <1>1 DEF SigningInv, OwnInv
      <4> QED BY <1>6, <4>1 DEF Recorded
    <3> QED BY <1>6, <3>1, <3>2 DEF PinInv
  <2>2. CASE ReadRows
    <3>1. /\ audit.pc = "pinned" /\ audit'.pc = "rows" /\ audit'.tip = audit.tip
          /\ audit'.tips = audit.tips /\ audit'.covered = audit.covered
          /\ audit'.rows = Len(journal)
      BY <1>3, <2>2 DEF AuditShape
    <3>2. PinInv
      BY DEF Inv
    <3> QED BY <1>6, <3>1, <3>2 DEF PinInv
  <2> QED BY <2>1, <2>2
<1> QED BY <1>2, <1>4, <1>5, <1>7 DEF Inv

\* is kept by every step,
LEMMA InvStep ==
    ASSUME Inv, [Next]_vars
    PROVE  Inv'
<1>1. CASE SigningStep
  <2>1. SigningInv /\ PinInv /\ ReportInv /\ AuditShape /\ SigningNext /\ audit' = audit
    BY <1>1 DEF Inv, SigningStep
  <2>2. SigningInv'
    BY <2>1, SigningKept
  <2>3. PinInv' /\ ReportInv' /\ AuditShape'
    BY <2>1, <2>2, PinKept, ReportKept DEF AuditShape
  <2> QED BY <2>2, <2>3 DEF Inv
<1>2. CASE Checkpoint \/ ReadRows
  BY <1>2, PreparationStep
<1>3. CASE Audit
  <2>1. UNCHANGED signingVars /\ SigningInv
    BY <1>3 DEF Audit, Inv
  <2>2. SigningInv'
    BY <2>1, SigningStutter
  <2>3. AuditShape'
    BY <1>3 DEF Audit, Compare, AuditShape, Inv
  <2> QED BY <1>3, <2>2, <2>3, AuditStep DEF Inv
<1>4. CASE UNCHANGED vars
  <2>1. UNCHANGED signingVars /\ audit' = audit /\ SigningInv /\ PinInv /\ ReportInv /\ AuditShape
    BY <1>4 DEF vars, Inv
  <2>2. SigningInv' /\ ReportInv' /\ AuditShape'
    BY <2>1, SigningStutter, ReportStutter DEF AuditShape
  <2>3. PinInv'
    BY <2>1 DEF PinInv, signingVars, Own
  <2> QED BY <2>2, <2>3 DEF Inv
<1> QED BY <1>1, <1>2, <1>3, <1>4 DEF Next

\* and so holds always.
THEOREM InvAlways == Spec => []Inv
<1>1. Init => Inv
  BY InvStart
<1>2. Inv /\ [Next]_vars => Inv'
  BY InvStep
<1> QED BY <1>1, <1>2, PTL DEF Spec

\* Type correctness: the clocks, the attempts, the journal and the reports keep
\* their types, and the journal stays one that _decisions accepts.
THEOREM SigningTypeCorrect == Spec => []TypeOK
<1>1. Inv => TypeOK
  <2> SUFFICES ASSUME Inv PROVE TypeOK
    OBVIOUS
  <2>1. now \in 0 .. MaxTime /\ drift \in -Skew .. Skew
    BY TimesAssumption DEF Inv, SigningInv, Types
  <2>2. /\ \A n \in DOMAIN journal : journal[n] \in Rows
        /\ WellFormed(journal) /\ anchored \subseteq DOMAIN journal
        /\ \A e \in events : e \in Events
        /\ pc \in [Attempts -> PCs] /\ result \in [Attempts -> ResultStates]
        /\ flight \subseteq [of : Attempts, since : 0 .. MaxTime]
    BY DEF Inv, SigningInv, Types, JournalInv
  <2>3. /\ audit.pc \in {"idle", "pinned", "rows", "done"}
        /\ audit.report.unexplained \subseteq events
        /\ audit.report.unwitnessed \subseteq Attempts
    BY DEF Inv, PinInv, ReportInv, AlarmInv, WitnessInv, MadeEvents
  <2> QED BY <2>1, <2>2, <2>3 DEF TypeOK
<1> QED BY <1>1, InvAlways, PTL

\* authorize() asks for no signature before its authorised decision is in the
\* journal and anchored, and hands out none without an anchored result, whatever
\* the other attempts do and wherever the gate dies.
THEOREM RecordComesFirst == Spec => []RecordedBeforeSigned
<1>1. Inv => RecordedBeforeSigned
  <2> SUFFICES ASSUME Inv PROVE RecordedBeforeSigned
    OBVIOUS
  <2>1. ASSUME NEW e \in events, ~ e.foreign
        PROVE  \E n \in anchored : Authorised(journal[n]) /\ journal[n].of = e.digest
    <3>1. e \in Own
      BY <2>1 DEF Own
    <3> QED BY <3>1 DEF Inv, SigningInv, OwnInv, Recorded
  <2>2. ASSUME NEW a \in Attempts, pc[a] = "delivered"
        PROVE  /\ \E e \in MadeEvents : e.digest = a /\ ~e.foreign
               /\ \E n \in anchored : /\ journal[n].kind = "result" /\ journal[n].of = a
                                      /\ journal[n].reason = "signed"
    <3>1. AttemptInv(a)
      BY DEF Inv, SigningInv
    <3>2. PICK e \in Own : e.made /\ e.digest = a
      BY <2>2, <3>1 DEF AttemptInv
    <3>3. PICK n \in anchored : journal[n] = [kind |-> "result", of |-> a, reason |-> "signed"]
      BY <2>2, <3>1 DEF AttemptInv
    <3> QED BY <3>2, <3>3 DEF MadeEvents, Own
  <2> QED BY <2>1, <2>2 DEF RecordedBeforeSigned
<1> QED BY <1>1, InvAlways, PTL

\* reconcile() raises no UNEXPLAINED by the gate's own signatures: for no digest
\* are there more than were signed without the gate, for any read of the trail.
THEOREM AlarmsAreForeign == Spec => []NoFalseAlarm
<1>1. Inv => NoFalseAlarm
  <2> SUFFICES ASSUME Inv, NEW d \in Digests
               PROVE  Cardinality({e \in audit.report.unexplained : e.digest = d})
                        <= Cardinality({e \in ForeignEvents : e.digest = d /\ e.made})
    BY DEF NoFalseAlarm
  <2> DEFINE U == {e \in audit.report.unexplained : e.digest = d}
             F == {e \in ForeignEvents : e.digest = d /\ e.made}
  <2>1. IsFiniteSet(events)
    BY DEF Inv, SigningInv, TrailInv
  <2>2. F \in SUBSET events /\ U \in SUBSET events
    BY DEF ForeignEvents, MadeEvents, Inv, ReportInv, AlarmInv
  <2>3. IsFiniteSet(F) /\ IsFiniteSet(U) /\ Cardinality(F) \in Nat /\ Cardinality(U) \in Nat
    <3> HIDE DEF U, F
    <3> QED BY <2>1, <2>2, FS_Subset, FS_CardinalityType
  <2>4. \A e \in U : e \in events /\ e.made /\ e.digest = d
    BY DEF MadeEvents, Inv, ReportInv, AlarmInv
  <2>5. CASE \A e \in U : e.foreign
    <3>1. U \in SUBSET F
      BY <2>4, <2>5 DEF ForeignEvents
    <3> HIDE DEF U, F
    <3>2. Cardinality(U) <= Cardinality(F)
      BY <2>3, <3>1, FS_Subset
    <3> QED BY <3>2 DEF U, F
  <2>6. ASSUME NEW e \in U, ~ e.foreign
        PROVE  Cardinality(U) <= Cardinality(F)
    <3>1. PICK f \in MadeEvents : f.foreign /\ f.digest = e.digest /\ f \notin audit.report.unexplained
      BY <2>6 DEF Inv, ReportInv, AlarmInv
    <3>2. f \in F /\ f \notin U
      BY <2>6, <3>1 DEF MadeEvents, ForeignEvents
    <3>3. e \in Own
      BY <2>4, <2>6 DEF Own
    <3>4. ASSUME NEW g \in U
          PROVE  g \in (F \ {f}) \cup {e}
      <4>1. CASE g.foreign
        BY <2>4, <3>2, <4>1 DEF ForeignEvents
      <4>2. CASE ~ g.foreign
        <5>1. g \in Own /\ g.digest = e.digest
          BY <2>4, <2>6, <4>2 DEF Own
        <5>2. g = e
          BY <3>3, <5>1 DEF Inv, SigningInv, OwnInv
        <5> QED BY <5>2
      <4> QED BY <4>1, <4>2
    <3> HIDE DEF U, F
    <3>5. IsFiniteSet(F \ {f}) /\ Cardinality(F \ {f}) = Cardinality(F) - 1
      BY <2>3, <3>2, FS_RemoveElement
    <3>6. /\ IsFiniteSet((F \ {f}) \cup {e})
          /\ Cardinality((F \ {f}) \cup {e}) <= Cardinality(F)
      <4> DEFINE G == F \ {f}
      <4>1. IsFiniteSet(G) /\ Cardinality(G) = Cardinality(F) - 1
        BY <3>5
      <4> HIDE DEF G
      <4>2. /\ IsFiniteSet(G \cup {e})
            /\ Cardinality(G \cup {e}) = IF e \in G THEN Cardinality(G) ELSE Cardinality(G) + 1
        BY <4>1, FS_AddElement
      <4>3. Cardinality(G \cup {e}) <= Cardinality(F)
        BY <2>3, <4>1, <4>2
      <4> QED BY <4>2, <4>3 DEF G
    <3>7. U \in SUBSET ((F \ {f}) \cup {e})
      BY <3>4
    <3>8. Cardinality(U) <= Cardinality((F \ {f}) \cup {e})
      BY <3>6, <3>7, FS_Subset
    <3>9. Cardinality((F \ {f}) \cup {e}) \in Nat
      BY <3>6, FS_CardinalityType
    <3> QED BY <2>3, <3>6, <3>8, <3>9
  <2> QED BY <2>5, <2>6
<1> QED BY <1>1, InvAlways, PTL

\* A clean report of reconcile() accounts for every signature in its range, also
\* for the ones no read had returned when it was made.
THEOREM CleanIsComplete == Spec => []CleanMeansAccounted
<1>1. Inv => CleanMeansAccounted
  BY DEF Inv, ReportInv
<1> QED BY <1>1, InvAlways, PTL

\* A record that reconcile() reports UNWITNESSED has not been signed for within
\* its window and never will be: no request of the gate's is still under way.
THEOREM UnwitnessedForGood == Spec => []UnwitnessedIsFinal
<1>1. Inv => UnwitnessedIsFinal
  BY DEF Inv, ReportInv
<1> QED BY <1>1, InvAlways, PTL
=============================================================================
