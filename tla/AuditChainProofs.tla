--------------------------- MODULE AuditChainProofs ---------------------------
(***************************************************************************)
(* Proofs about AuditChain, for every set of appenders and verifiers, every *)
(* anchor target and every bound.                                           *)
(***************************************************************************)
EXTENDS AuditChain, WellFoundedInduction, TLAPS

\* The tip t names an entry the chain has, with the hash it has there.
InChain(log, t) == t.seq \in DOMAIN log /\ log[t.seq].hash = t.hash

\* What holds of a ledger nobody has tampered with: its entries are linked, and
\* whatever is anchored, about to be anchored, or pinned by a verifier that has
\* not walked the rows yet names an entry of the chain.
HonestInv ==
    damage = 0 =>
        /\ \A i \in DOMAIN rows : Linked(rows, i)
        /\ \A t \in anchors : InChain(rows, t)
        /\ \A a \in Appenders : pc[a] = "insert" => tip[a] = Genesis \/ InChain(rows, tip[a])
        /\ \A a \in Appenders : pc[a] \in {"guard", "put"} => InChain(rows, tip[a])
        /\ \A v \in Verifiers : vpc[v] = "rows" => \A t \in pins[v] : InChain(rows, t)

-----------------------------------------------------------------------------
(* Lemmas about the operators of the chain.                                 *)

\* The genesis tip, the tip of a row and the row that continues a tip are typed.
LEMMA ChainTypes ==
    /\ Genesis \in Tips
    /\ \A row \in Row : TipOf(row) \in Tips
    /\ \A t \in Tips, b \in Bodies : NewRow(t, b) \in Row
<1>1. <<>> \in Hashes
  BY DEF Hashes
<1>2. ASSUME NEW t \in Tips, NEW b \in Bodies PROVE NewRow(t, b) \in Row
  <2>1. t.seq + 1 \in Nat /\ t.hash \in Hashes
    BY DEF Tips
  <2>2. <<t.seq + 1, b>> \in Nat \X Bodies
    BY <2>1
  <2>3. Append(t.hash, <<t.seq + 1, b>>) \in Hashes
    BY <2>1, <2>2 DEF Hashes
  <2> QED BY <2>1, <2>3 DEF NewRow, Row, EntryHash
<1> QED BY <1>1, <1>2 DEF Genesis, Tips, TipOf, Row

\* Entries stay where they are when one is appended.
LEMMA AppendKeeps ==
    ASSUME NEW log \in Seq(Row), NEW row \in Row
    PROVE  /\ Append(log, row) \in Seq(Row)
           /\ Len(Append(log, row)) = Len(log) + 1
           /\ DOMAIN log = 1..Len(log)
           /\ DOMAIN Append(log, row) = 1..(Len(log) + 1)
           /\ \A i \in DOMAIN log : Append(log, row)[i] = log[i]
           /\ Append(log, row)[Len(log) + 1] = row
OBVIOUS

\* A tip that names an entry still names it after an append.
LEMMA InChainGrows ==
    ASSUME NEW log \in Seq(Row), NEW row \in Row, NEW t, InChain(log, t)
    PROVE  InChain(Append(log, row), t)
BY AppendKeeps DEF InChain

\* A row that continues the last entry of a linked chain, and whose seq no
\* entry has, is linked to it.  This is what UNIQUE(seq) is for.
LEMMA AppendLinks ==
    ASSUME NEW log \in Seq(Row), NEW t \in Tips, NEW b \in Bodies,
           \A i \in DOMAIN log : Linked(log, i),
           t = Genesis \/ InChain(log, t),
           \A i \in DOMAIN log : log[i].seq # NewRow(t, b).seq
    PROVE  LET new == Append(log, NewRow(t, b))
           IN  /\ \A i \in DOMAIN new : Linked(new, i)
               /\ InChain(new, TipOf(NewRow(t, b)))
<1> DEFINE row == NewRow(t, b)
           new == Append(log, row)
<1>0. row \in Row /\ row.seq = t.seq + 1 /\ row.prev = t.hash /\ row.body = b
      /\ row.hash = EntryHash(t.seq + 1, b, t.hash) /\ t.seq \in Nat
  BY ChainTypes DEF NewRow, Tips
<1>1. /\ DOMAIN log = 1..Len(log) /\ Len(log) \in Nat
      /\ DOMAIN new = 1..(Len(log) + 1)
      /\ \A i \in DOMAIN log : new[i] = log[i]
      /\ new[Len(log) + 1] = row
  BY <1>0, AppendKeeps
<1>2. t.seq <= Len(log)
  BY <1>1 DEF InChain, Genesis
<1>3. t.seq = Len(log)
  <2>1. CASE t.seq + 1 \in DOMAIN log
    BY <2>1, <1>0 DEF Linked
  <2>2. CASE t.seq + 1 \notin DOMAIN log
    BY <2>2, <1>0, <1>1, <1>2
  <2> QED BY <2>1, <2>2
<1>4. Linked(new, Len(log) + 1)
  <2>1. CASE Len(log) = 0
    <3>1. t = Genesis
      BY <2>1, <1>1 DEF InChain
    <3> QED BY <2>1, <3>1, <1>0, <1>1, <1>3 DEF Linked, Genesis
  <2>2. CASE Len(log) # 0
    <3>1. InChain(log, t) /\ Len(log) \in DOMAIN log
      BY <2>2, <1>1, <1>3 DEF Genesis
    <3>2. new[Len(log)].hash = t.hash
      BY <3>1, <1>1, <1>3 DEF InChain
    <3>3. (Len(log) + 1) - 1 = Len(log) /\ Len(log) + 1 # 1
      BY <2>2, <1>1
    <3> HIDE DEF row, new
    <3> QED BY <3>2, <3>3, <1>0, <1>1, <1>3 DEF Linked
  <2> QED BY <2>1, <2>2
<1>5. ASSUME NEW i \in DOMAIN log PROVE Linked(new, i)
  <2>1. Linked(log, i) /\ new[i] = log[i]
    BY <1>1
  <2>2. i # 1 => i - 1 \in DOMAIN log
    BY <1>1
  <2> QED BY <2>1, <2>2, <1>1 DEF Linked
<1>6. InChain(new, TipOf(row))
  BY <1>0, <1>1, <1>3 DEF InChain, TipOf
<1> QED BY <1>1, <1>4, <1>5, <1>6

\* A linked chain that has every pinned entry is not accused of anything.
LEMMA NoAccusation ==
    ASSUME NEW log \in Seq(Row), NEW tips,
           \A i \in DOMAIN log : Linked(log, i),
           \A t \in tips : InChain(log, t)
    PROVE  VerifyRows(log, tips) = "valid"
<1>1. \A t \in tips : t.seq \in 1..Len(log) /\ Len(log) \in Nat
  BY DEF InChain
<1>2. ~ \E t \in tips : t.seq > Len(log)
  BY <1>1
<1> QED BY <1>2 DEF VerifyRows, InChain

-----------------------------------------------------------------------------
(* Types.                                                                   *)

\* The steps with which an append ends keep the types of its locals.
LEMMA ReturnType ==
    ASSUME TypeOK, NEW a \in Appenders, NEW end \in Ends, Return(a, end)
    PROVE  /\ pc' \in [Appenders -> Phases]
           /\ body' \in [Appenders -> Bodies]
           /\ tries' \in [Appenders -> 0..MaxTries]
           /\ tip' \in [Appenders -> Tips]
           /\ outcome' \in [Calls -> Ends]
           /\ acked' \subseteq Tips
<1>1. 0 \in Bodies /\ 0 \in 0..MaxTries /\ Genesis \in Tips
  BY ChainTypes, ChainAssumption DEF Bodies
<1> QED BY <1>1 DEF TypeOK, Return, Phases

\* Whatever is done to the stored rows, they stay a sequence of rows.
LEMMA DamageType ==
    ASSUME TypeOK, Damage
    PROVE  rows' \in Seq(Row)
<1>1. PICK i \in DOMAIN rows :
          \/ rows' = SubSeq(rows, 1, i - 1)
          \/ rows' = Without(rows, i)
          \/ rows' = [rows EXCEPT ![i].body = 0]
          \/ rows' = Rechained([BodiesOf(rows) EXCEPT ![i] = 0])
  BY DEF Damage
<1>2. /\ rows \in Seq(Row) /\ Len(rows) \in Nat /\ DOMAIN rows = 1..Len(rows)
      /\ \A j \in DOMAIN rows : rows[j] \in Row
      /\ i \in 1..Len(rows) /\ 0 \in Bodies
  BY ChainAssumption DEF TypeOK, Bodies
<1>3. CASE rows' = SubSeq(rows, 1, i - 1)
  BY <1>2, <1>3
<1>4. CASE rows' = Without(rows, i)
  <2>1. \A j \in 1..Len(rows) - 1 : (IF j < i THEN rows[j] ELSE rows[j + 1]) \in Row
    BY <1>2
  <2>2. Len(rows) - 1 \in Nat
    BY <1>2
  <2> QED BY <1>4, <2>1, <2>2 DEF Without
<1>5. CASE rows' = [rows EXCEPT ![i].body = 0]
  <2>1. [rows[i] EXCEPT !.body = 0] \in Row
    BY <1>2 DEF Row
  <2> QED BY <1>2, <1>5, <2>1
<1>6. CASE rows' = Rechained([BodiesOf(rows) EXCEPT ![i] = 0])
  <2> DEFINE bodies == [BodiesOf(rows) EXCEPT ![i] = 0]
             hash(n) == [k \in 1..n |-> <<k, bodies[k]>>]
  <2>1. bodies \in [1..Len(rows) -> Bodies]
    BY <1>2 DEF BodiesOf, Row
  <2>2. ASSUME NEW n \in 0..Len(rows) PROVE hash(n) \in Hashes
    <3>1. \A k \in 1..n : k \in Nat /\ k \in 1..Len(rows)
      BY <1>2
    <3>2. \A k \in 1..n : <<k, bodies[k]>> \in Nat \X Bodies
      BY <2>1, <3>1
    <3>3. n \in Nat
      OBVIOUS
    <3> HIDE DEF bodies
    <3> QED BY <3>2, <3>3 DEF Hashes
  <2>3. \A n \in 1..Len(rows) : n - 1 \in 0..Len(rows) /\ n \in 0..Len(rows) /\ n \in Nat
    BY <1>2
  <2> DEFINE row(n) == [seq |-> n, body |-> bodies[n], prev |-> hash(n - 1), hash |-> hash(n)]
  <2>4. \A n \in 1..Len(rows) : row(n) \in Row
    <3> HIDE DEF bodies, hash
    <3> QED BY <2>1, <2>2, <2>3 DEF Row
  <2>5. rows' = [n \in DOMAIN bodies |-> row(n)]
    BY <1>6 DEF Rechained
  <2> HIDE DEF bodies, row
  <2> QED BY <1>2, <2>1, <2>4, <2>5
<1> QED BY <1>1, <1>3, <1>4, <1>5, <1>6

\* Every step of the chain keeps the types of its variables.
LEMMA TypeStep ==
    ASSUME TypeOK, [Next]_vars
    PROVE  TypeOK'
<1>0. Genesis \in Tips /\ \A i \in DOMAIN rows : TipOf(rows[i]) \in Tips
  BY ChainTypes DEF TypeOK
<1>1. ASSUME NEW a \in Appenders, Begin(a) PROVE TypeOK'
  <2>1. appends + 1 \in 0..MaxAppends
    BY <1>1, ChainAssumption DEF TypeOK, Begin
  <2> QED BY <1>1, <2>1 DEF TypeOK, Begin, verifyVars, Phases, Bodies
<1>2. ASSUME NEW a \in Appenders, ReadTip(a) PROVE TypeOK'
  <2>1. CASE tries[a] = MaxTries
    <3>1. Return(a, "gave_up") /\ "gave_up" \in Ends
      BY <1>2, <2>1 DEF ReadTip, Ends
    <3> QED BY <1>2, <3>1, ReturnType DEF TypeOK, ReadTip, verifyVars
  <2>2. CASE tries[a] # MaxTries
    <3>1. tries[a] + 1 \in 0..MaxTries
      BY <2>2, ChainAssumption DEF TypeOK
    <3>2. PICK t \in Tips : tip' = [tip EXCEPT ![a] = t]
      BY <1>2, <2>2, <1>0 DEF ReadTip
    <3> QED BY <1>2, <2>2, <3>1, <3>2 DEF TypeOK, ReadTip, verifyVars, Phases
  <2> QED BY <2>1, <2>2
<1>3. ASSUME NEW a \in Appenders, Insert(a) PROVE TypeOK'
  <2>1. NewRow(tip[a], body[a]) \in Row /\ TipOf(NewRow(tip[a], body[a])) \in Tips
    BY ChainTypes DEF TypeOK
  <2>2. Append(rows, NewRow(tip[a], body[a])) \in Seq(Row)
    BY <2>1, AppendKeeps DEF TypeOK
  <2> QED BY <1>3, <2>1, <2>2 DEF TypeOK, Insert, verifyVars, Phases
<1>4. ASSUME NEW a \in Appenders, Guard(a) PROVE TypeOK'
  <2>1. faults' \in 0..MaxFaults
    BY <1>4, ChainAssumption DEF Guard, Fault, TypeOK
  <2>2. CASE \E end \in {"rewind", "ok", "failed"} : Return(a, end)
    <3>1. PICK end \in Ends : Return(a, end)
      BY <2>2 DEF Ends
    <3> QED BY <1>4, <2>1, <3>1, ReturnType DEF TypeOK, Guard, verifyVars
  <2>3. CASE pc' = [pc EXCEPT ![a] = "put"] /\ UNCHANGED <<body, tries, tip, outcome, acked>>
    BY <1>4, <2>1, <2>3 DEF TypeOK, Guard, verifyVars, Phases
  <2> QED BY <1>4, <2>2, <2>3 DEF Guard
<1>5. ASSUME NEW a \in Appenders, Put(a) PROVE TypeOK'
  <2>1. faults' \in 0..MaxFaults
    BY <1>5, ChainAssumption DEF Put, Fault, TypeOK
  <2>2. anchors' \subseteq Tips
    BY <1>5 DEF Put, Stored, TypeOK
  <2>3. PICK end \in Ends : Return(a, end)
    BY <1>5 DEF Put, Ends
  <2> QED BY <1>5, <2>1, <2>2, <2>3, ReturnType DEF TypeOK, Put, verifyVars
<1>6. ASSUME NEW a \in Appenders, Crash(a) PROVE TypeOK'
  <2>1. Return(a, "failed") /\ "failed" \in Ends
    BY <1>6 DEF Crash, Ends
  <2>2. faults' \in 0..MaxFaults
    BY <1>6, ChainAssumption DEF Crash, Fault, TypeOK
  <2> QED BY <1>6, <2>1, <2>2, ReturnType DEF TypeOK, Crash, verifyVars
<1>7. ASSUME NEW v \in Verifiers, ReadAnchor(v) PROVE TypeOK'
  <2>1. faults' \in 0..MaxFaults
    BY <1>7, ChainAssumption DEF ReadAnchor, Fault, TypeOK
  <2> QED BY <1>7, <2>1 DEF TypeOK, ReadAnchor, appendVars, Verdicts
<1>8. ASSUME NEW v \in Verifiers, WalkRows(v) PROVE TypeOK'
  <2>1. VerifyRows(rows, pins[v]) \in Verdicts
    BY DEF VerifyRows, Verdicts
  <2> QED BY <1>8, <2>1 DEF TypeOK, WalkRows, appendVars
<1>9. ASSUME Damage PROVE TypeOK'
  <2>1. damage' \in 0..MaxDamage
    BY <1>9, ChainAssumption DEF Damage, TypeOK
  <2> QED BY <1>9, <2>1, DamageType DEF TypeOK, Damage, appendVars, verifyVars
<1>10. CASE UNCHANGED vars
  BY <1>10 DEF TypeOK, vars, appendVars, verifyVars
<1> QED BY <1>1, <1>2, <1>3, <1>4, <1>5, <1>6, <1>7, <1>8, <1>9, <1>10 DEF Next

\* TypeOK: the table, the anchor and the locals of every append and of every
\* verification keep their types, under any damage to the stored rows.
THEOREM ChainTypeCorrect == Spec => []TypeOK
<1>1. Init => TypeOK
  BY ChainTypes, ChainAssumption
  DEF Init, TypeOK, Bodies, Calls, Phases, Ends, Verdicts
<1> QED BY <1>1, TypeStep, PTL DEF Spec

-----------------------------------------------------------------------------
(* An honest ledger is never accused.                                       *)

\* Every step of a ledger whose stored rows nobody has changed keeps HonestInv
\* and accuses nobody.
LEMMA HonestStep ==
    ASSUME TypeOK, HonestInv, HonestVerifies, [Next]_vars
    PROVE  HonestInv' /\ HonestVerifies'
<1> SUFFICES ASSUME damage' = 0 PROVE HonestInv' /\ HonestVerifies'
  BY DEF HonestInv, HonestVerifies
<1>0. damage = 0 /\ damage' = damage
  BY DEF TypeOK, Next, Begin, ReadTip, Insert, Guard, Put, Crash, ReadAnchor, WalkRows, Damage, vars
<1>1. /\ \A i \in DOMAIN rows : Linked(rows, i)
      /\ \A t \in anchors : InChain(rows, t)
      /\ \A a \in Appenders : pc[a] = "insert" => tip[a] = Genesis \/ InChain(rows, tip[a])
      /\ \A a \in Appenders : pc[a] \in {"guard", "put"} => InChain(rows, tip[a])
      /\ \A v \in Verifiers : vpc[v] = "rows" => \A t \in pins[v] : InChain(rows, t)
      /\ \A v \in Verifiers : verdict[v] \notin {"broken", "truncated"}
  BY <1>0 DEF HonestInv, HonestVerifies
<1>2. ASSUME NEW a \in Appenders, NEW end, Return(a, end),
             UNCHANGED <<rows, vpc, pins, verdict>>,
             \A t \in anchors' : InChain(rows, t)
      PROVE  HonestInv' /\ HonestVerifies'
  <2>1. \A b \in Appenders : b # a => pc'[b] = pc[b] /\ tip'[b] = tip[b]
    BY <1>2 DEF Return, TypeOK
  <2>2. pc'[a] = "idle"
    BY <1>2 DEF Return, TypeOK
  <2> QED BY <1>1, <1>2, <2>1, <2>2 DEF HonestInv, HonestVerifies
<1>3. ASSUME NEW a \in Appenders, Begin(a) PROVE HonestInv' /\ HonestVerifies'
  BY <1>1, <1>3 DEF Begin, HonestInv, HonestVerifies, TypeOK, verifyVars
<1>4. ASSUME NEW a \in Appenders, ReadTip(a) PROVE HonestInv' /\ HonestVerifies'
  <2>1. CASE tries[a] = MaxTries
    BY <1>1, <1>2, <1>4, <2>1 DEF ReadTip, verifyVars
  <2>2. CASE tries[a] # MaxTries
    <3>1. PICK t \in {Genesis} \cup {TipOf(rows[i]) : i \in DOMAIN rows} :
              tip' = [tip EXCEPT ![a] = t]
      BY <1>4, <2>2 DEF ReadTip
    <3>2. t = Genesis \/ InChain(rows, t)
      BY <1>1, <3>1 DEF InChain, Linked, TipOf
    <3>3. pc' = [pc EXCEPT ![a] = "insert"] /\ UNCHANGED <<rows, anchors, vpc, pins, verdict>>
      BY <1>4, <2>2 DEF ReadTip, verifyVars
    <3> QED BY <1>1, <3>1, <3>2, <3>3 DEF HonestInv, HonestVerifies, TypeOK
  <2> QED BY <2>1, <2>2
<1>5. ASSUME NEW a \in Appenders, Insert(a) PROVE HonestInv' /\ HonestVerifies'
  <2> DEFINE row == NewRow(tip[a], body[a])
  <2>1. CASE \A i \in DOMAIN rows : rows[i].seq # row.seq
    <3>1. /\ rows' = Append(rows, row)
          /\ tip' = [tip EXCEPT ![a] = TipOf(row)]
          /\ pc' = [pc EXCEPT ![a] = "guard"]
          /\ UNCHANGED <<anchors, vpc, pins, verdict>>
      BY <1>5, <2>1 DEF Insert, verifyVars
    <3>2. rows \in Seq(Row) /\ tip[a] \in Tips /\ body[a] \in Bodies /\ row \in Row
      BY ChainTypes DEF TypeOK
    <3>3. tip[a] = Genesis \/ InChain(rows, tip[a])
      BY <1>1, <1>5 DEF Insert
    <3>4. (\A i \in DOMAIN rows' : Linked(rows', i)) /\ InChain(rows', TipOf(row))
      BY <1>1, <2>1, <3>1, <3>2, <3>3, AppendLinks
    <3>5. \A t : InChain(rows, t) => InChain(rows', t)
      BY <3>1, <3>2, InChainGrows
    <3> HIDE DEF row
    <3>6. tip'[a] = TipOf(row) /\ pc'[a] = "guard"
          /\ \A b \in Appenders : b # a => tip'[b] = tip[b] /\ pc'[b] = pc[b]
      BY <3>1 DEF TypeOK
    <3> QED BY <1>1, <3>1, <3>4, <3>5, <3>6 DEF HonestInv, HonestVerifies
  <2>2. CASE ~ \A i \in DOMAIN rows : rows[i].seq # row.seq
    <3>1. pc' = [pc EXCEPT ![a] = "read"] /\ UNCHANGED <<rows, tip, anchors, vpc, pins, verdict>>
      BY <1>5, <2>2 DEF Insert, verifyVars
    <3> QED BY <1>1, <3>1 DEF HonestInv, HonestVerifies, TypeOK
  <2> QED BY <2>1, <2>2
<1>6. ASSUME NEW a \in Appenders, Guard(a) PROVE HonestInv' /\ HonestVerifies'
  <2>1. UNCHANGED <<rows, anchors, vpc, pins, verdict>> /\ pc[a] = "guard"
    BY <1>6 DEF Guard, verifyVars
  <2>2. CASE \E end \in {"rewind", "ok", "failed"} : Return(a, end)
    BY <1>1, <1>2, <2>1, <2>2
  <2>3. CASE pc' = [pc EXCEPT ![a] = "put"] /\ UNCHANGED tip
    BY <1>1, <2>1, <2>3 DEF HonestInv, HonestVerifies, TypeOK
  <2> QED BY <1>6, <2>2, <2>3 DEF Guard
<1>7. ASSUME NEW a \in Appenders, Put(a) PROVE HonestInv' /\ HonestVerifies'
  <2>1. UNCHANGED <<rows, vpc, pins, verdict>> /\ InChain(rows, tip[a])
    BY <1>1, <1>7 DEF Put, verifyVars
  <2>2. anchors' \subseteq anchors \cup {tip[a]}
    BY <1>7 DEF Put, Stored
  <2>3. PICK end : Return(a, end)
    BY <1>7 DEF Put
  <2> QED BY <1>1, <1>2, <2>1, <2>2, <2>3
<1>8. ASSUME NEW a \in Appenders, Crash(a) PROVE HonestInv' /\ HonestVerifies'
  BY <1>1, <1>2, <1>8 DEF Crash, verifyVars
<1>9. ASSUME NEW v \in Verifiers, ReadAnchor(v) PROVE HonestInv' /\ HonestVerifies'
  <2>1. UNCHANGED <<rows, anchors, pc, tip>>
    BY <1>9 DEF ReadAnchor, appendVars
  <2>2. \A w \in Verifiers : /\ vpc'[w] = "rows" => pins'[w] \subseteq anchors \/ (vpc[w] = "rows" /\ pins'[w] = pins[w])
                             /\ verdict'[w] \notin {"broken", "truncated"}
    BY <1>1, <1>9 DEF ReadAnchor, TypeOK
  <2> QED BY <1>1, <2>1, <2>2 DEF HonestInv, HonestVerifies
<1>10. ASSUME NEW v \in Verifiers, WalkRows(v) PROVE HonestInv' /\ HonestVerifies'
  <2>1. UNCHANGED <<rows, anchors, pc, tip>>
    BY <1>10 DEF WalkRows, appendVars
  <2>2. VerifyRows(rows, pins[v]) = "valid"
    BY <1>1, <1>10, NoAccusation DEF WalkRows, TypeOK
  <2>3. \A w \in Verifiers : /\ vpc'[w] = "rows" => vpc[w] = "rows" /\ pins'[w] = pins[w]
                             /\ verdict'[w] \notin {"broken", "truncated"}
    BY <1>1, <1>10, <2>2 DEF WalkRows, TypeOK
  <2> QED BY <1>1, <2>1, <2>3 DEF HonestInv, HonestVerifies
<1>11. CASE UNCHANGED vars
  BY <1>1, <1>11 DEF HonestInv, HonestVerifies, vars, appendVars, verifyVars
<1>12. ~ Damage
  BY <1>0 DEF Damage, TypeOK
<1> QED BY <1>3, <1>4, <1>5, <1>6, <1>7, <1>8, <1>9, <1>10, <1>11, <1>12 DEF Next

\* HonestVerifies, for any number of concurrent appenders and verifiers, any
\* target, any faults and any number of retries: as long as nobody changes the
\* stored rows, verify_chain reports neither broken nor truncated.
THEOREM HonestLedgerVerifies == Spec => []HonestVerifies
<1>1. Init => HonestInv /\ HonestVerifies
  BY DEF Init, HonestInv, HonestVerifies
<1> QED BY <1>1, HonestStep, ChainTypeCorrect, PTL DEF Spec

-----------------------------------------------------------------------------
(* An append is written exactly once.                                       *)

\* What an append in progress is called: each runs under a number of its own,
\* which is of a call that has begun and has no outcome yet.
CallsInv ==
    /\ \A a \in Appenders : pc[a] = "idle" => body[a] = 0
    /\ \A a \in Appenders : pc[a] # "idle" => body[a] \in 1..appends /\ outcome[body[a]] = "none"
    /\ \A a, b \in Appenders : body[a] = body[b] /\ body[a] # 0 => a = b
    /\ \A c \in Calls : c > appends => outcome[c] = "none"

\* What of it is written in a ledger nobody has tampered with: one row for each
\* call at most, none before the INSERT and none for a call that gave up, and
\* every acknowledged tip is an entry.
WrittenInv ==
    damage = 0 =>
        /\ \A i \in DOMAIN rows : rows[i].body \in 1..appends
        /\ \A i, j \in DOMAIN rows : rows[i].body = rows[j].body => i = j
        /\ \A a \in Appenders : pc[a] \in {"read", "insert"} =>
               \A i \in DOMAIN rows : rows[i].body # body[a]
        /\ \A i \in DOMAIN rows : outcome[rows[i].body] # "gave_up"
        /\ \A t \in acked : InChain(rows, t)

\* What the end of an append changes: the outcome of its call and its locals.
LEMMA ReturnEffect ==
    ASSUME TypeOK, NEW a \in Appenders, NEW end, Return(a, end)
    PROVE  /\ pc'[a] = "idle" /\ body'[a] = 0
           /\ \A b \in Appenders : b # a => pc'[b] = pc[b] /\ body'[b] = body[b]
           /\ \A c \in Calls : outcome'[c] = IF c = body[a] THEN end ELSE outcome[c]
           /\ acked' = IF end = "ok" THEN acked \cup {tip[a]} ELSE acked
BY DEF TypeOK, Return

\* Every step keeps the numbers of the appends in progress apart.
LEMMA CallsStep ==
    ASSUME TypeOK, CallsInv, [Next]_vars
    PROVE  CallsInv'
<1>0. appends \in Nat /\ \A c : c \in 1..appends => c \in Calls /\ c # 0
  BY ChainAssumption DEF TypeOK, Calls
<1>1. ASSUME NEW a \in Appenders, NEW end, Return(a, end), appends' = appends, pc[a] # "idle"
      PROVE  CallsInv'
  <2>1. body[a] \in 1..appends
    BY <1>1 DEF CallsInv
  <2>2. \A b \in Appenders : b # a /\ pc[b] # "idle" => body[b] # body[a]
    BY <2>1, <1>0 DEF CallsInv
  <2>3. \A b \in Appenders : b # a /\ pc[b] # "idle" =>
            body'[b] \in 1..appends /\ outcome'[body'[b]] = "none"
    BY <1>0, <1>1, <2>2, ReturnEffect DEF CallsInv
  <2>4. \A b, c \in Appenders : body'[b] = body'[c] /\ body'[b] # 0 => b = c
    BY <1>1, ReturnEffect DEF CallsInv
  <2>5. \A c \in Calls : c > appends => outcome'[c] = "none"
    BY <1>1, <2>1, <1>0, ReturnEffect DEF CallsInv, Calls
  <2>6. \A b \in Appenders : pc'[b] = "idle" => body'[b] = 0
    BY <1>1, ReturnEffect DEF CallsInv
  <2>7. \A b \in Appenders : pc'[b] # "idle" => b # a /\ pc[b] # "idle"
    BY <1>1, ReturnEffect
  <2> QED BY <1>1, <2>3, <2>4, <2>5, <2>6, <2>7 DEF CallsInv
<1>2. ASSUME NEW a \in Appenders, Begin(a) PROVE CallsInv'
  <2>1. /\ pc'[a] = "read" /\ body'[a] = appends + 1 /\ appends' = appends + 1
        /\ \A b \in Appenders : b # a => pc'[b] = pc[b] /\ body'[b] = body[b]
        /\ outcome' = outcome /\ appends + 1 \in Calls
    BY <1>0, <1>2, ChainAssumption DEF Begin, TypeOK, Calls
  <2>2. \A b \in Appenders : body[b] # appends + 1
    BY <1>0 DEF CallsInv
  <2>3. \A b \in Appenders : pc'[b] # "idle" => body'[b] \in 1..(appends + 1) /\ outcome[body'[b]] = "none"
    BY <1>0, <2>1 DEF CallsInv
  <2>4. \A b, c \in Appenders : body'[b] = body'[c] /\ body'[b] # 0 => b = c
    BY <2>1, <2>2 DEF CallsInv
  <2>5. \A c \in Calls : c > appends + 1 => outcome[c] = "none"
    BY <1>0 DEF CallsInv, Calls
  <2> QED BY <2>1, <2>3, <2>4, <2>5 DEF CallsInv
<1>3. ASSUME NEW a \in Appenders, NEW p \in Phases \ {"idle"}, pc[a] # "idle",
             pc' = [pc EXCEPT ![a] = p], UNCHANGED <<body, outcome, appends>>
      PROVE  CallsInv'
  BY <1>3 DEF CallsInv, TypeOK
<1>4. ASSUME NEW a \in Appenders, ReadTip(a) \/ Insert(a) \/ Guard(a) \/ Put(a) \/ Crash(a)
      PROVE  CallsInv'
  <2>1. appends' = appends /\ pc[a] # "idle"
    BY <1>4 DEF ReadTip, Insert, Guard, Put, Crash
  <2>2. \/ \E end : Return(a, end)
        \/ /\ \E p \in Phases \ {"idle"} : pc' = [pc EXCEPT ![a] = p]
           /\ UNCHANGED <<body, outcome>>
    <3>1. CASE ReadTip(a)
      BY <3>1 DEF ReadTip, Phases
    <3>2. CASE Insert(a)
      BY <3>2 DEF Insert, Phases
    <3>3. CASE Guard(a)
      BY <3>3 DEF Guard, Phases
    <3>4. CASE Put(a) \/ Crash(a)
      BY <3>4 DEF Put, Crash
    <3> QED BY <1>4, <3>1, <3>2, <3>3, <3>4
  <2> QED BY <1>1, <1>3, <2>1, <2>2
<1>5. CASE \E v \in Verifiers : ReadAnchor(v) \/ WalkRows(v)
  BY <1>5 DEF ReadAnchor, WalkRows, appendVars, CallsInv
<1>6. CASE Damage \/ UNCHANGED vars
  BY <1>6 DEF Damage, vars, appendVars, CallsInv
<1> QED BY <1>2, <1>4, <1>5, <1>6 DEF Next

\* Every step of a ledger whose stored rows nobody has changed keeps WrittenInv.
LEMMA WrittenStep ==
    ASSUME TypeOK, HonestInv, CallsInv, WrittenInv, [Next]_vars
    PROVE  WrittenInv'
<1> SUFFICES ASSUME damage' = 0 PROVE WrittenInv'
  BY DEF WrittenInv
<1>0. damage = 0 /\ ~ Damage
  BY DEF TypeOK, Next, Begin, ReadTip, Insert, Guard, Put, Crash, ReadAnchor, WalkRows, Damage, vars
<1>1. /\ \A i \in DOMAIN rows : rows[i].body \in 1..appends
      /\ \A i, j \in DOMAIN rows : rows[i].body = rows[j].body => i = j
      /\ \A a \in Appenders : pc[a] \in {"read", "insert"} =>
             \A i \in DOMAIN rows : rows[i].body # body[a]
      /\ \A i \in DOMAIN rows : outcome[rows[i].body] # "gave_up"
      /\ \A t \in acked : InChain(rows, t)
      /\ \A a \in Appenders : pc[a] \in {"guard", "put"} => InChain(rows, tip[a])
  BY <1>0 DEF WrittenInv, HonestInv
<1>2. appends \in Nat /\ \A i \in DOMAIN rows : rows[i].body \in Calls
  BY <1>1, ChainAssumption DEF TypeOK, Calls
<1>3. ASSUME NEW a \in Appenders, NEW end, Return(a, end), UNCHANGED <<rows, appends>>,
             end = "gave_up" => pc[a] = "read",
             end = "ok" => pc[a] \in {"guard", "put"}
      PROVE  WrittenInv'
  <2>1. \A b \in Appenders : pc'[b] \in {"read", "insert"} => body'[b] = body[b] /\ pc'[b] = pc[b]
    BY <1>3, ReturnEffect
  <2>2. \A i \in DOMAIN rows : outcome'[rows[i].body] # "gave_up"
    BY <1>1, <1>2, <1>3, ReturnEffect
  <2>3. \A t \in acked' : InChain(rows, t)
    BY <1>1, <1>3, ReturnEffect
  <2> QED BY <1>1, <1>3, <2>1, <2>2, <2>3 DEF WrittenInv
<1>4. ASSUME NEW a \in Appenders, Begin(a) PROVE WrittenInv'
  <2>1. /\ rows' = rows /\ outcome' = outcome /\ acked' = acked /\ appends' = appends + 1
        /\ pc'[a] = "read" /\ body'[a] = appends + 1
        /\ \A b \in Appenders : b # a => pc'[b] = pc[b] /\ body'[b] = body[b]
    BY <1>4 DEF Begin, TypeOK
  <2>2. \A i \in DOMAIN rows : rows[i].body \in 1..(appends + 1) /\ rows[i].body # appends + 1
    BY <1>1, <1>2
  <2> QED BY <1>1, <2>1, <2>2 DEF WrittenInv
<1>5. ASSUME NEW a \in Appenders, ReadTip(a) PROVE WrittenInv'
  <2>1. CASE tries[a] = MaxTries
    BY <1>3, <1>5, <2>1 DEF ReadTip
  <2>2. CASE tries[a] # MaxTries
    BY <1>1, <1>5, <2>2 DEF ReadTip, WrittenInv, TypeOK
  <2> QED BY <2>1, <2>2
<1>6. ASSUME NEW a \in Appenders, Insert(a) PROVE WrittenInv'
  <2> DEFINE row == NewRow(tip[a], body[a])
  <2>1. CASE \A i \in DOMAIN rows : rows[i].seq # row.seq
    <3>1. /\ rows' = Append(rows, row) /\ pc' = [pc EXCEPT ![a] = "guard"]
          /\ UNCHANGED <<body, outcome, acked, appends>>
      BY <1>6, <2>1 DEF Insert
    <3>2. rows \in Seq(Row) /\ row \in Row /\ row.body = body[a]
      BY ChainTypes DEF TypeOK, NewRow
    <3>3. /\ body[a] \in 1..appends /\ outcome[body[a]] = "none"
          /\ \A i \in DOMAIN rows : rows[i].body # body[a]
          /\ \A b \in Appenders : b # a => body[b] # body[a]
      BY <1>1, <1>2, <1>6 DEF Insert, CallsInv
    <3>4. \A t : InChain(rows, t) => InChain(rows', t)
      BY <3>1, <3>2, InChainGrows
    <3> HIDE DEF row
    <3>5. /\ DOMAIN rows = 1..Len(rows) /\ Len(rows) \in Nat
          /\ DOMAIN rows' = 1..(Len(rows) + 1)
          /\ \A i \in DOMAIN rows : rows'[i] = rows[i]
          /\ rows'[Len(rows) + 1] = row
      BY <3>1, <3>2, AppendKeeps
    <3>6. \A i \in DOMAIN rows' : (i \in DOMAIN rows /\ rows'[i] = rows[i])
                                  \/ (i = Len(rows) + 1 /\ rows'[i].body = body[a])
      BY <3>2, <3>5
    <3>7. \A b \in Appenders : pc'[b] \in {"read", "insert"} => b # a /\ pc'[b] = pc[b]
      BY <3>1 DEF TypeOK
    <3>8. \A i, j \in DOMAIN rows' : rows'[i].body = rows'[j].body => i = j
      BY <1>1, <3>3, <3>6
    <3>9. \A b \in Appenders : pc'[b] \in {"read", "insert"} =>
              \A i \in DOMAIN rows' : rows'[i].body # body[b]
      BY <1>1, <3>3, <3>6, <3>7
    <3>10. \A i \in DOMAIN rows' : rows'[i].body \in 1..appends /\ outcome[rows'[i].body] # "gave_up"
      BY <1>1, <3>3, <3>6
    <3> QED BY <1>1, <3>1, <3>4, <3>8, <3>9, <3>10 DEF WrittenInv
  <2>2. CASE ~ \A i \in DOMAIN rows : rows[i].seq # row.seq
    <3>1. /\ pc' = [pc EXCEPT ![a] = "read"] /\ pc[a] = "insert"
          /\ UNCHANGED <<rows, body, outcome, acked, appends>>
      BY <1>6, <2>2 DEF Insert
    <3> QED BY <1>1, <3>1 DEF WrittenInv, TypeOK
  <2> QED BY <2>1, <2>2
<1>7. ASSUME NEW a \in Appenders, Guard(a) PROVE WrittenInv'
  <2>1. UNCHANGED <<rows, appends>> /\ pc[a] = "guard"
    BY <1>7 DEF Guard
  <2>2. CASE \E end \in {"rewind", "ok", "failed"} : Return(a, end)
    BY <1>3, <2>1, <2>2
  <2>3. CASE pc' = [pc EXCEPT ![a] = "put"] /\ UNCHANGED <<body, outcome, acked>>
    BY <1>1, <2>1, <2>3 DEF WrittenInv, TypeOK
  <2> QED BY <1>7, <2>2, <2>3 DEF Guard
<1>8. ASSUME NEW a \in Appenders, Put(a) \/ Crash(a) PROVE WrittenInv'
  <2>1. /\ UNCHANGED <<rows, appends>>
        /\ \E end \in {"rewind", "ok", "failed"} : Return(a, end) /\ (end = "ok" => pc[a] = "put")
    BY <1>8 DEF Put, Crash
  <2> QED BY <1>3, <2>1
<1>9. CASE \E v \in Verifiers : ReadAnchor(v) \/ WalkRows(v)
  BY <1>1, <1>9 DEF ReadAnchor, WalkRows, appendVars, WrittenInv
<1>10. CASE UNCHANGED vars
  BY <1>1, <1>10 DEF vars, appendVars, WrittenInv
<1> QED BY <1>0, <1>4, <1>5, <1>6, <1>7, <1>8, <1>9, <1>10 DEF Next

\* AppendsExactlyOnce, for any number of appenders and of retries: however the
\* read of the tip and the INSERT of concurrent appends interleave, and wherever
\* one of them dies, no call is written twice, none that gave up is written, and
\* every call that returned its seq is the entry at that seq.
THEOREM AppendedExactlyOnce == Spec => []AppendsExactlyOnce
<1>1. Init => CallsInv /\ WrittenInv
  BY DEF Init, CallsInv, WrittenInv
<1>2. Init => HonestInv /\ HonestVerifies
  BY DEF Init, HonestInv, HonestVerifies
<1>3. TypeOK /\ HonestInv /\ WrittenInv => AppendsExactlyOnce
  <2> SUFFICES ASSUME TypeOK, HonestInv, WrittenInv, damage = 0 PROVE AppendsExactlyOnce
    BY DEF AppendsExactlyOnce
  <2>1. ASSUME NEW t \in acked PROVE t.seq \in DOMAIN rows /\ t = TipOf(rows[t.seq])
    <3>1. t \in Tips /\ InChain(rows, t)
      BY DEF TypeOK, WrittenInv
    <3>2. rows[t.seq].seq = t.seq /\ rows[t.seq].hash = t.hash /\ t.seq \in DOMAIN rows
      BY <3>1 DEF InChain, HonestInv, Linked
    <3> QED BY <3>1, <3>2 DEF TipOf, Tips
  <2> QED BY <2>1 DEF AppendsExactlyOnce, WrittenInv
<1> QED BY <1>1, <1>2, <1>3, HonestStep, CallsStep, WrittenStep, ChainTypeCorrect, PTL DEF Spec

-----------------------------------------------------------------------------
(* A valid verdict against an append-only anchor.                           *)

\* A set of natural numbers that is not empty has a least element.
LEMMA LeastNumber ==
    ASSUME NEW T, T \subseteq Nat, T # {}
    PROVE  \E n \in T : \A m \in T : n <= m
<1> DEFINE Less == {ss \in Nat \X Nat : ss[1] < ss[2]}
<1>1. IsWellFoundedOn(Less, Nat)
  BY NatLessThanWellFounded DEF OpToRel
<1> HIDE DEF Less
<1>2. PICK n \in T : \A m \in T : ~ (<<m, n>> \in Less)
  BY <1>1, WFMin
<1> USE DEF Less
<1>3. ASSUME NEW m \in T PROVE n <= m
  <2>1. ~ (<<m, n>> \in Less)
    BY <1>2
  <2>2. ~ (m < n)
    BY <2>1
  <2> QED BY <2>2
<1> QED BY <1>3

\* The hash of an entry of a linked chain commits to the entry and to every one
\* before it: its k-th part is what the k-th entry says.
LEMMA HashCommits ==
    ASSUME NEW log \in Seq(Row), \A i \in DOMAIN log : Linked(log, i)
    PROVE  \A n \in DOMAIN log :
               /\ Len(log[n].hash) = n
               /\ \A k \in 1..n : log[n].hash[k] = <<k, log[k].body>>
<1> DEFINE Commits(n) == /\ Len(log[n].hash) = n
                         /\ \A k \in 1..n : log[n].hash[k] = <<k, log[k].body>>
           Bad == {n \in DOMAIN log : ~ Commits(n)}
<1>0. DOMAIN log = 1..Len(log) /\ Len(log) \in Nat
  OBVIOUS
<1>1. ASSUME NEW n \in DOMAIN log, n = 1 \/ Commits(n - 1) PROVE Commits(n)
  <2>1. /\ log[n] \in Row /\ log[n].prev \in Seq(Nat \X Bodies)
        /\ log[n].seq = n /\ <<n, log[n].body>> \in Nat \X Bodies
    <3>1. log[n] \in Row
      OBVIOUS
    <3>2. log[n].prev \in Seq(Nat \X Bodies) /\ log[n].body \in Bodies /\ n \in Nat
      BY <1>0, <3>1 DEF Row, Hashes
    <3> QED BY <3>1, <3>2 DEF Linked
  <2>2. log[n].hash = Append(log[n].prev, <<n, log[n].body>>)
    BY DEF Linked, EntryHash
  <2>3. log[n].prev = IF n = 1 THEN <<>> ELSE log[n - 1].hash
    BY DEF Linked, Genesis
  <2>4. CASE n = 1
    BY <2>1, <2>2, <2>3, <2>4
  <2>5. CASE n # 1
    <3>1. /\ log[n].prev = log[n - 1].hash /\ n - 1 \in Nat /\ Len(log[n].prev) = n - 1
          /\ \A k \in 1..(n - 1) : log[n].prev[k] = <<k, log[k].body>>
      BY <1>0, <1>1, <2>3, <2>5
    <3>2. /\ Len(log[n].hash) = n /\ log[n].hash[n] = <<n, log[n].body>>
          /\ \A k \in 1..(n - 1) : log[n].hash[k] = log[n].prev[k]
      BY <1>0, <2>1, <2>2, <3>1
    <3>3. \A k \in 1..n : k = n \/ k \in 1..(n - 1)
      BY <1>0
    <3> QED BY <3>1, <3>2, <3>3
  <2> QED BY <2>4, <2>5
<1>2. SUFFICES ASSUME Bad # {} PROVE FALSE
  OBVIOUS
<1>3. PICK n \in Bad : \A m \in Bad : n <= m
  <2>1. Bad \subseteq Nat
    BY <1>0
  <2> HIDE DEF Bad
  <2> QED BY <1>2, <2>1, LeastNumber
<1>4. n \in DOMAIN log /\ ~ Commits(n)
  OBVIOUS
<1>5. n # 1 => Commits(n - 1)
  <2>1. n # 1 => n - 1 \in DOMAIN log /\ ~ (n <= n - 1)
    BY <1>0, <1>4
  <2> HIDE DEF Commits
  <2> QED BY <1>3, <2>1
<1> HIDE DEF Commits
<1> QED BY <1>1, <1>4, <1>5

\* A target that is append-only holds the tip of every acknowledged append, and
\* a verifier has pinned those that were acknowledged when it began; it has no
\* verdict until it has walked the rows.
PinnedInv ==
    /\ target # "file" => acked \subseteq anchors
    /\ \A v \in Verifiers : vpc[v] = "rows" =>
           /\ verdict[v] = "none"
           /\ target # "file" => known[v] \subseteq pins[v]

\* Every step keeps the acknowledged tips anchored.
LEMMA PinnedStep ==
    ASSUME TypeOK, PinnedInv, [Next]_vars
    PROVE  PinnedInv'
<1>0. target = target'
  BY DEF Next, Begin, ReadTip, Insert, Guard, Put, Crash, ReadAnchor, WalkRows, Damage, vars
<1>1. ASSUME NEW a \in Appenders,
             Begin(a) \/ ReadTip(a) \/ Insert(a) \/ Guard(a) \/ Put(a) \/ Crash(a)
      PROVE  PinnedInv'
  <2>1. UNCHANGED <<vpc, known, pins, verdict>>
    BY <1>1 DEF Begin, ReadTip, Insert, Guard, Put, Crash, verifyVars
  <2>2. ASSUME target # "file" PROVE acked' \subseteq anchors'
    <3>0. acked \subseteq anchors
      BY <2>2 DEF PinnedInv
    <3>1. CASE Begin(a) \/ ReadTip(a) \/ Insert(a) \/ Crash(a)
      BY <3>0, <3>1 DEF Begin, ReadTip, Insert, Crash, Return
    <3>2. CASE Guard(a)
      BY <3>0, <3>2 DEF Guard, Held, Return
    <3>3. CASE Put(a)
      BY <2>2, <3>0, <3>3 DEF Put, Stored, Return
    <3> QED BY <1>1, <3>1, <3>2, <3>3
  <2> QED BY <1>0, <2>1, <2>2 DEF PinnedInv
<1>2. ASSUME NEW v \in Verifiers, ReadAnchor(v) PROVE PinnedInv'
  <2>1. UNCHANGED <<acked, anchors>>
    BY <1>2 DEF ReadAnchor, appendVars
  <2>2. \A w \in Verifiers : vpc'[w] = "rows" =>
            \/ vpc[w] = "rows" /\ verdict'[w] = verdict[w]
               /\ known'[w] = known[w] /\ pins'[w] = pins[w]
            \/ verdict'[w] = "none" /\ known'[w] = acked /\ pins'[w] = anchors
    BY <1>2 DEF ReadAnchor, TypeOK
  <2> QED BY <1>0, <2>1, <2>2 DEF PinnedInv
<1>3. ASSUME NEW v \in Verifiers, WalkRows(v) PROVE PinnedInv'
  <2>1. UNCHANGED <<acked, anchors>>
    BY <1>3 DEF WalkRows, appendVars
  <2>2. \A w \in Verifiers : vpc'[w] = "rows" =>
            /\ vpc[w] = "rows" /\ verdict'[w] = verdict[w]
            /\ known'[w] = known[w] /\ pins'[w] = pins[w]
    BY <1>3 DEF WalkRows, TypeOK
  <2> QED BY <1>0, <2>1, <2>2 DEF PinnedInv
<1>4. CASE Damage \/ UNCHANGED vars
  BY <1>4 DEF Damage, vars, appendVars, verifyVars, PinnedInv
<1> QED BY <1>1, <1>2, <1>3, <1>4 DEF Next

\* A linked chain that passes the pins has everything they commit to.
LEMMA ValidHasThePins ==
    ASSUME NEW log \in Seq(Row), NEW tips \in SUBSET Tips,
           VerifyRows(log, tips) = "valid", NEW t \in tips
    PROVE  /\ t.seq <= Len(log)
           /\ \A k \in 1..t.seq : log[k].body = t.hash[k][2]
<1>1. /\ \A i \in DOMAIN log : Linked(log, i)
      /\ ~ (t.seq \in DOMAIN log /\ log[t.seq].hash # t.hash)
      /\ ~ (t.seq > Len(log))
  BY DEF VerifyRows
<1>2. t.seq \in Nat /\ Len(log) \in Nat /\ DOMAIN log = 1..Len(log)
  BY DEF Tips
<1>3. ASSUME NEW k \in 1..t.seq PROVE log[k].body = t.hash[k][2]
  <2>1. t.seq \in DOMAIN log /\ log[t.seq].hash = t.hash
    BY <1>1, <1>2
  <2>2. t.hash[k] = <<k, log[k].body>>
    BY <1>1, <2>1, HashCommits
  <2> QED BY <2>2
<1> QED BY <1>1, <1>2, <1>3

\* ValidMeansNothingLost: when verify_chain calls the chain valid against an
\* anchor that keeps its records, every entry up to each tip acknowledged before
\* the verification began is in the table as it was written, for any damage to
\* the rows and any number of appends after it.
THEOREM ValidLosesNothing == Spec => ValidMeansNothingLost
<1>1. Init => PinnedInv
  BY DEF Init, PinnedInv
<1>2. ASSUME TypeOK, PinnedInv, [Next]_vars
      PROVE  [\A v \in Verifiers :
                 (target # "file" /\ vpc[v] = "rows" /\ verdict'[v] = "valid") =>
                     \A t \in known[v] :
                         /\ t.seq <= Len(rows)
                         /\ \A k \in 1..t.seq : rows[k].body = t.hash[k][2]]_vars
  <2> SUFFICES ASSUME NEW v \in Verifiers, target # "file", vpc[v] = "rows",
                      verdict'[v] = "valid", ~ UNCHANGED vars, NEW t \in known[v]
               PROVE  /\ t.seq <= Len(rows)
                      /\ \A k \in 1..t.seq : rows[k].body = t.hash[k][2]
    OBVIOUS
  <2>1. t \in pins[v] /\ pins[v] \in SUBSET Tips /\ rows \in Seq(Row)
    BY <1>2 DEF PinnedInv, TypeOK
  <2>2. verdict[v] = "none" /\ verdict'[v] # verdict[v]
    BY <1>2 DEF PinnedInv
  <2>3. PICK w \in Verifiers : ReadAnchor(w) \/ WalkRows(w)
    <3>1. CASE \E a \in Appenders :
                 Begin(a) \/ ReadTip(a) \/ Insert(a) \/ Guard(a) \/ Put(a) \/ Crash(a)
      BY <2>2, <3>1 DEF Begin, ReadTip, Insert, Guard, Put, Crash, verifyVars
    <3>2. CASE Damage
      BY <2>2, <3>2 DEF Damage, verifyVars
    <3> QED BY <1>2, <3>1, <3>2 DEF Next
  <2>4. VerifyRows(rows, pins[v]) = "valid"
    <3>1. verdict \in [Verifiers -> Verdicts]
      BY <1>2 DEF TypeOK
    <3>2. CASE ReadAnchor(w)
      BY <2>2, <3>1, <3>2 DEF ReadAnchor
    <3>3. CASE WalkRows(w)
      BY <2>2, <3>1, <3>3 DEF WalkRows
    <3> QED BY <2>3, <3>2, <3>3
  <2> QED BY <2>1, <2>4, ValidHasThePins
<1> QED BY <1>1, <1>2, PinnedStep, ChainTypeCorrect, PTL DEF Spec, ValidMeansNothingLost
=============================================================================
