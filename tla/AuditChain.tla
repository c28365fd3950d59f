------------------------------ MODULE AuditChain ------------------------------
(***************************************************************************)
(* The tamper-evident audit chain: record_chained and verify_chain          *)
(* (ledger/sqlite_ledger.py), verify_rows (ledger/audit_chain.py) and the    *)
(* out-of-band tip anchor (ledger/tip_anchor.py, ledger/anchor_targets.py).  *)
(*                                                                         *)
(* Appenders and verifiers are processes with their own connection to one   *)
(* ledger file and one anchor.  Reading the tip, inserting the row, reading *)
(* the anchor for its guard and writing the anchor are separate steps.      *)
(*                                                                         *)
(* Abstractions.                                                           *)
(*  - event, subject, payload and time of an entry are its body: the number *)
(*    of the call that appended it.  Body 0 is one that no call appended.   *)
(*  - entry_hash has no collisions: the hash of an entry is the sequence of *)
(*    what it commits to, its own seq and body last.                        *)
(*  - Fields are present and payloads decodable; an anchor that cannot be   *)
(*    read or written is a fault, of which there are at most MaxFaults.     *)
(*  - The records of an append-only anchor are a set: the whole history is  *)
(*    read back, and its order plays no part.                               *)
(***************************************************************************)
EXTENDS Naturals, Sequences

CONSTANTS
    Appenders,    \* processes that append
    Verifiers,    \* processes that verify
    Targets,      \* the anchor targets a deployment may configure
    MaxAppends,   \* how many appends are made
    MaxTries,     \* attempts of one append (16 in the code)
    MaxFaults,    \* failures of the anchor or of a process
    MaxDamage     \* changes made to the stored rows behind the ledger's back

ASSUME ChainAssumption ==
    /\ Targets \subseteq {"file", "object_lock", "log"}
    /\ MaxAppends \in Nat
    /\ MaxTries \in Nat \ {0}
    /\ MaxFaults \in Nat
    /\ MaxDamage \in Nat

VARIABLES
    target,    \* the configured anchor target
    rows,      \* the table audit_chain, in insertion order
    anchors,   \* the records the anchor holds
    pc,        \* where each appender is
    body,      \* what it appends
    tries,     \* attempts it has used
    tip,       \* the tip it has read, or the tip it has written
    outcome,   \* what became of each append
    acked,     \* tips of the appends that returned their seq
    vpc,       \* where each verifier is
    pins,      \* the anchor history it has read
    known,     \* the tips acknowledged when it began
    verdict,   \* its last verdict
    appends,   \* appends begun
    faults,    \* failures so far
    damage     \* changes to the stored rows so far

appendVars == <<pc, body, tries, tip, outcome, acked, appends>>
verifyVars == <<vpc, pins, known, verdict>>
vars       == <<target, rows, anchors, appendVars, verifyVars, faults, damage>>

-----------------------------------------------------------------------------
(* Types.                                                                   *)

Bodies  == 0..MaxAppends
Calls   == 1..MaxAppends
Hashes  == Seq(Nat \X Bodies)
Tips    == [seq : Nat, hash : Hashes]
Row     == [seq : Nat, body : Bodies, prev : Hashes, hash : Hashes]
Phases  == {"idle", "read", "insert", "guard", "put"}
Ends    == {"none", "ok", "gave_up", "failed", "rewind"}
Verdicts == {"none", "valid", "broken", "truncated", "not_verifiable"}

Genesis == [seq |-> 0, hash |-> <<>>]

TypeOK ==
    /\ target \in Targets
    /\ rows \in Seq(Row)
    /\ anchors \subseteq Tips
    /\ pc \in [Appenders -> Phases]
    /\ body \in [Appenders -> Bodies]
    /\ tries \in [Appenders -> 0..MaxTries]
    /\ tip \in [Appenders -> Tips]
    /\ outcome \in [Calls -> Ends]
    /\ acked \subseteq Tips
    /\ vpc \in [Verifiers -> {"idle", "rows"}]
    /\ pins \in [Verifiers -> SUBSET Tips]
    /\ known \in [Verifiers -> SUBSET Tips]
    /\ verdict \in [Verifiers -> Verdicts]
    /\ appends \in 0..MaxAppends
    /\ faults \in 0..MaxFaults
    /\ damage \in 0..MaxDamage

Init ==
    /\ target \in Targets
    /\ rows = <<>>
    /\ anchors = {}
    /\ pc = [a \in Appenders |-> "idle"]
    /\ body = [a \in Appenders |-> 0]
    /\ tries = [a \in Appenders |-> 0]
    /\ tip = [a \in Appenders |-> Genesis]
    /\ outcome = [c \in Calls |-> "none"]
    /\ acked = {}
    /\ vpc = [v \in Verifiers |-> "idle"]
    /\ pins = [v \in Verifiers |-> {}]
    /\ known = [v \in Verifiers |-> {}]
    /\ verdict = [v \in Verifiers |-> "none"]
    /\ appends = 0
    /\ faults = 0
    /\ damage = 0

-----------------------------------------------------------------------------
(* The chain.                                                               *)

EntryHash(seq, b, prev) == Append(prev, <<seq, b>>)

NewRow(t, b) ==
    [seq |-> t.seq + 1, body |-> b, prev |-> t.hash, hash |-> EntryHash(t.seq + 1, b, t.hash)]

TipOf(row) == [seq |-> row.seq, hash |-> row.hash]

\* What "ORDER BY seq DESC LIMIT 1" returns.
IsTip(log, t) ==
    \/ log = <<>> /\ t = Genesis
    \/ \E i \in DOMAIN log : /\ t = TipOf(log[i])
                             /\ \A j \in DOMAIN log : log[j].seq <= log[i].seq

\* The walk of verify_rows: entry i continues the chain up to it.
Linked(log, i) ==
    /\ log[i].seq = i
    /\ log[i].prev = (IF i = 1 THEN Genesis.hash ELSE log[i - 1].hash)
    /\ log[i].hash = EntryHash(log[i].seq, log[i].body, log[i].prev)

\* verify_rows: a broken link comes first, then an anchored entry that is no
\* longer what was anchored (two records for one seq cannot both be matched),
\* then an anchored seq past the end.
VerifyRows(log, tips) ==
    IF \E i \in DOMAIN log : ~ Linked(log, i) THEN "broken"
    ELSE IF \E t \in tips : t.seq \in DOMAIN log /\ log[t.seq].hash # t.hash THEN "broken"
    ELSE IF \E t \in tips : t.seq > Len(log) THEN "truncated"
    ELSE "valid"

-----------------------------------------------------------------------------
(* record_chained.                                                          *)

Fault == faults < MaxFaults /\ faults' = faults + 1

\* The append of a ends, with or without the seq as its result.
Return(a, end) ==
    /\ outcome' = [outcome EXCEPT ![body[a]] = end]
    /\ acked' = IF end = "ok" THEN acked \cup {tip[a]} ELSE acked
    /\ pc' = [pc EXCEPT ![a] = "idle"]
    /\ body' = [body EXCEPT ![a] = 0]
    /\ tries' = [tries EXCEPT ![a] = 0]
    /\ tip' = [tip EXCEPT ![a] = Genesis]

Begin(a) ==
    /\ pc[a] = "idle"
    /\ appends < MaxAppends
    /\ appends' = appends + 1
    /\ body' = [body EXCEPT ![a] = appends + 1]
    /\ pc' = [pc EXCEPT ![a] = "read"]
    /\ UNCHANGED <<rows, anchors, tries, tip, outcome, acked, verifyVars, faults, damage, target>>

\* Mutant of ReadTip: the loop runs once more than its bound.
ReadTipOnceMore(a) ==
    /\ pc[a] = "read"
    /\ IF tries[a] > MaxTries
       THEN Return(a, "gave_up")
       ELSE /\ \E t \in {Genesis} \cup {TipOf(rows[i]) : i \in DOMAIN rows} :
                 IsTip(rows, t) /\ tip' = [tip EXCEPT ![a] = t]
            /\ tries' = [tries EXCEPT ![a] = @ + 1]
            /\ pc' = [pc EXCEPT ![a] = "insert"]
            /\ UNCHANGED <<body, outcome, acked>>
    /\ UNCHANGED <<rows, anchors, appends, verifyVars, faults, damage, target>>

\* One more attempt reads the current tip, unless all of them are used up.
ReadTip(a) ==
    /\ pc[a] = "read"
    /\ IF tries[a] = MaxTries
       THEN Return(a, "gave_up")
       ELSE /\ \E t \in {Genesis} \cup {TipOf(rows[i]) : i \in DOMAIN rows} :
                 IsTip(rows, t) /\ tip' = [tip EXCEPT ![a] = t]
            /\ tries' = [tries EXCEPT ![a] = @ + 1]
            /\ pc' = [pc EXCEPT ![a] = "insert"]
            /\ UNCHANGED <<body, outcome, acked>>
    /\ UNCHANGED <<rows, anchors, appends, verifyVars, faults, damage, target>>

\* Mutant of Insert: the seq is assigned by the INSERT, the prior hash is not.
InsertStalePrior(a) ==
    /\ pc[a] = "insert"
    /\ LET row == NewRow([seq |-> Len(rows), hash |-> tip[a].hash], body[a])
       IN  rows' = Append(rows, row) /\ tip' = [tip EXCEPT ![a] = TipOf(row)]
    /\ pc' = [pc EXCEPT ![a] = "guard"]
    /\ UNCHANGED <<anchors, body, tries, outcome, acked, appends, verifyVars, faults, damage, target>>

\* Mutant of Insert: a collision is swallowed and the append goes on.
InsertSwallowed(a) ==
    /\ pc[a] = "insert"
    /\ LET row == NewRow(tip[a], body[a])
       IN  /\ rows' = IF \A i \in DOMAIN rows : rows[i].seq # row.seq
                      THEN Append(rows, row) ELSE rows
           /\ tip' = [tip EXCEPT ![a] = TipOf(row)]
    /\ pc' = [pc EXCEPT ![a] = "guard"]
    /\ UNCHANGED <<anchors, body, tries, outcome, acked, appends, verifyVars, faults, damage, target>>

\* INSERT and COMMIT.  UNIQUE(seq) refuses the loser of a race, which rolls back
\* and reads the tip again.
Insert(a) ==
    /\ pc[a] = "insert"
    /\ LET row == NewRow(tip[a], body[a])
       IN  IF \A i \in DOMAIN rows : rows[i].seq # row.seq
           THEN /\ rows' = Append(rows, row)
                /\ tip' = [tip EXCEPT ![a] = TipOf(row)]
                /\ pc' = [pc EXCEPT ![a] = "guard"]
           ELSE /\ pc' = [pc EXCEPT ![a] = "read"]
                /\ UNCHANGED <<rows, tip>>
    /\ UNCHANGED <<anchors, body, tries, outcome, acked, appends, verifyVars, faults, damage, target>>

\* The records check_monotonic is shown: the object-lock target reads only its
\* highest key, the log its whole history, the file the one tip it holds.
Held ==
    IF target = "object_lock"
    THEN {t \in anchors : \A u \in anchors : u.seq <= t.seq}
    ELSE anchors

Rewinds(held, t) ==
    \/ \E u \in held : u.seq = t.seq /\ u.hash # t.hash
    \/ \E u \in held : u.seq > t.seq

\* The first half of TipAnchor.write: read what is held and check_monotonic.
Guard(a) ==
    /\ pc[a] = "guard"
    /\ \/ /\ Rewinds(Held, tip[a])
          /\ Return(a, "rewind")
          /\ UNCHANGED faults
       \/ /\ ~ Rewinds(Held, tip[a])
          /\ tip[a] \in Held
          /\ Return(a, "ok")
          /\ UNCHANGED faults
       \/ /\ ~ Rewinds(Held, tip[a])
          /\ tip[a] \notin Held
          /\ pc' = [pc EXCEPT ![a] = "put"]
          /\ UNCHANGED <<body, tries, tip, outcome, acked, faults>>
       \/ Fault /\ Return(a, "failed")
    /\ UNCHANGED <<rows, anchors, appends, verifyVars, damage, target>>

\* Storing a record: the file holds one, the other targets keep them all.
Stored(t) == IF target = "file" THEN {t} ELSE anchors \cup {t}

\* The second half: put_if_absent, append and confirm, or replace the file.  A
\* failed write may or may not have reached the medium.
Put(a) ==
    /\ pc[a] = "put"
    /\ IF target = "object_lock" /\ \E u \in anchors : u.seq = tip[a].seq
       THEN /\ Return(a, IF tip[a] \in anchors THEN "ok" ELSE "rewind")
            /\ UNCHANGED <<anchors, faults>>
       ELSE \/ /\ anchors' = Stored(tip[a])
               /\ Return(a, "ok")
               /\ UNCHANGED faults
            \/ /\ anchors' \in {anchors, Stored(tip[a])}
               /\ Return(a, "failed")
               /\ Fault
    /\ UNCHANGED <<rows, appends, verifyVars, damage, target>>

\* The process dies, or SQLite raises before the commit.
Crash(a) ==
    /\ pc[a] # "idle"
    /\ Fault
    /\ Return(a, "failed")
    /\ UNCHANGED <<rows, anchors, appends, verifyVars, damage, target>>

-----------------------------------------------------------------------------
(* verify_chain.                                                            *)

\* anchor_history: what is anchored is read first ...
ReadAnchor(v) ==
    /\ vpc[v] = "idle"
    /\ \/ /\ pins' = [pins EXCEPT ![v] = anchors]
          /\ known' = [known EXCEPT ![v] = acked]
          /\ vpc' = [vpc EXCEPT ![v] = "rows"]
          /\ verdict' = [verdict EXCEPT ![v] = "none"]
          /\ UNCHANGED faults
       \/ /\ verdict' = [verdict EXCEPT ![v] = "not_verifiable"]
          /\ Fault
          /\ UNCHANGED <<vpc, pins, known>>
    /\ UNCHANGED <<rows, anchors, appendVars, damage, target>>

\* Mutant of WalkRows: only the newest anchored tip is pinned.
WalkRowsNewestPin(v) ==
    /\ vpc[v] = "rows"
    /\ verdict' = [verdict EXCEPT ![v] =
                     VerifyRows(rows, {t \in pins[v] : \A u \in pins[v] : u.seq <= t.seq})]
    /\ vpc' = [vpc EXCEPT ![v] = "idle"]
    /\ pins' = [pins EXCEPT ![v] = {}]
    /\ known' = [known EXCEPT ![v] = {}]
    /\ UNCHANGED <<rows, anchors, appendVars, faults, damage, target>>

\* ... and then the rows, in insertion order.
WalkRows(v) ==
    /\ vpc[v] = "rows"
    /\ verdict' = [verdict EXCEPT ![v] = VerifyRows(rows, pins[v])]
    /\ vpc' = [vpc EXCEPT ![v] = "idle"]
    /\ pins' = [pins EXCEPT ![v] = {}]
    /\ known' = [known EXCEPT ![v] = {}]
    /\ UNCHANGED <<rows, anchors, appendVars, faults, damage, target>>

-----------------------------------------------------------------------------
(* What happens to the file behind the ledger's back.                       *)

\* A well-formed chain with the given bodies.
Rechained(bodies) ==
    LET hash(n) == [k \in 1..n |-> <<k, bodies[k]>>]
    IN  [n \in DOMAIN bodies |->
           [seq |-> n, body |-> bodies[n], prev |-> hash(n - 1), hash |-> hash(n)]]

BodiesOf(log) == [i \in DOMAIN log |-> log[i].body]

Without(log, i) == [j \in 1..Len(log) - 1 |-> IF j < i THEN log[j] ELSE log[j + 1]]

\* An older copy is restored, an entry is lost, an entry is edited in place, or
\* the table is written again with a different entry and hashes to match.
Damage ==
    /\ damage < MaxDamage
    /\ damage' = damage + 1
    /\ \E i \in DOMAIN rows :
          \/ rows' = SubSeq(rows, 1, i - 1)
          \/ rows' = Without(rows, i)
          \/ rows' = [rows EXCEPT ![i].body = 0]
          \/ rows' = Rechained([BodiesOf(rows) EXCEPT ![i] = 0])
    /\ UNCHANGED <<anchors, appendVars, verifyVars, faults, target>>

-----------------------------------------------------------------------------
Next ==
    \/ \E a \in Appenders :
         Begin(a) \/ ReadTip(a) \/ Insert(a) \/ Guard(a) \/ Put(a) \/ Crash(a)
    \/ \E v \in Verifiers : ReadAnchor(v) \/ WalkRows(v)
    \/ Damage

Spec == Init /\ [][Next]_vars

-----------------------------------------------------------------------------
(* Properties.                                                              *)

\* The verifier never accuses an honest ledger: as long as nobody changes the
\* stored rows, no interleaving of appends, crashes, failing anchors and the two
\* reads of verify_chain ends in broken or truncated ("the anchored tip never
\* names an entry the ledger does not have").
HonestVerifies ==
    damage = 0 => \A v \in Verifiers : verdict[v] \notin {"broken", "truncated"}

\* An append is written at most once, whatever it retries, and not at all when
\* it gives up; and one that returned its seq is in the chain at that seq,
\* whoever appended next to it.
AppendsExactlyOnce ==
    damage = 0 =>
        /\ \A i, j \in DOMAIN rows : rows[i].body = rows[j].body => i = j
        /\ \A i \in DOMAIN rows : outcome[rows[i].body] # "gave_up"
        /\ \A t \in acked : t.seq \in DOMAIN rows /\ t = TipOf(rows[t.seq])

\* Against an append-only target a valid verdict is worth something: every
\* append that was acknowledged before the verification began is still there,
\* and so is everything before it, however the rows were changed and however
\* far the chain was extended afterwards.
ValidMeansNothingLost ==
    [][\A v \in Verifiers :
          (target # "file" /\ vpc[v] = "rows" /\ verdict'[v] = "valid") =>
              \A t \in known[v] :
                  /\ t.seq <= Len(rows)
                  /\ \A k \in 1..t.seq : rows[k].body = t.hash[k][2]]_vars
=============================================================================
