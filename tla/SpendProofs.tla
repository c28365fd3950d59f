----------------------------- MODULE SpendProofs -----------------------------
(***************************************************************************)
(* Lemmas about Spend: spend_state as a fold, one entry at a time.  The     *)
(* inductions over the entries of a record are by least counterexample,     *)
(* from the well-foundedness of the natural numbers.                        *)
(***************************************************************************)
EXTENDS Spend, WellFoundedInduction, TLAPS

\* A set of natural numbers that is not empty has a least element.
LEMMA LeastNumber ==
    ASSUME NEW T, T \subseteq Nat, T # {}
    PROVE  \E n \in T : \A m \in T : n <= m
<1> DEFINE Less == {ss \in Nat \X Nat : ss[1] < ss[2]}
<1>1. IsWellFoundedOn(Less, Nat)
  BY NatLessThanWellFounded DEF OpToRel
<1> HIDE DEF Less
<1>2. PICK n \in T : \A m \in T : ~ (<<m, n>> \in Less)
  BY <1>1, WFMin
<1>3. ASSUME NEW m \in T PROVE n <= m
  <2>1. ~ (<<m, n>> \in Less)
    BY <1>2
  <2>2. ~ (m < n)
    BY <2>1 DEF Less
  <2> QED BY <2>2
<1> QED BY <1>3

\* f holds the states of the first m entries of s.
Folds(f, s, m) ==
    f = [n \in 0..m |-> IF n = 0 THEN Unspent ELSE Fold(f[n - 1], s[n])]

\* Every record has such states ...
LEMMA FoldExists ==
    ASSUME NEW s, NEW m \in Nat
    PROVE  \E f : Folds(f, s, m)
<1> DEFINE Bad == {n \in Nat : ~ \E f : Folds(f, s, n)}
<1>1. \E f : Folds(f, s, 0)
  <2> DEFINE z == [n \in 0..0 |-> Unspent]
  <2>1. Folds(z, s, 0)
    BY DEF Folds
  <2> QED BY <2>1
<1>2. ASSUME NEW n \in Nat, NEW f, Folds(f, s, n)
      PROVE  \E g : Folds(g, s, n + 1)
  <2> DEFINE z == [k \in 0..(n + 1) |-> IF k = n + 1 THEN Fold(f[n], s[n + 1]) ELSE f[k]]
  <2>1. \A k \in 0..n : f[k] = IF k = 0 THEN Unspent ELSE Fold(f[k - 1], s[k])
    BY <1>2 DEF Folds
  <2>2. ASSUME NEW k \in 0..(n + 1)
        PROVE  z[k] = IF k = 0 THEN Unspent ELSE Fold(z[k - 1], s[k])
    <3>1. CASE k = n + 1
      <4>1. z[k] = Fold(f[n], s[n + 1]) /\ k - 1 = n /\ n \in 0..(n + 1) /\ n # n + 1 /\ k # 0
        BY <3>1
      <4>2. z[n] = f[n]
        BY <4>1
      <4> QED BY <3>1, <4>1, <4>2
    <3>2. CASE k # n + 1
      <4>1. z[k] = f[k] /\ k \in 0..n
        BY <3>2
      <4>2. CASE k = 0
        BY <2>1, <4>1, <4>2
      <4>3. CASE k # 0
        <5>1. k - 1 \in 0..(n + 1) /\ k - 1 # n + 1
          BY <4>1, <4>3
        <5>2. z[k - 1] = f[k - 1]
          BY <5>1
        <5> QED BY <2>1, <4>1, <4>3, <5>2
      <4> QED BY <4>2, <4>3
    <3> QED BY <3>1, <3>2
  <2>3. z = [k \in 0..(n + 1) |-> z[k]]
    OBVIOUS
  <2> HIDE DEF z
  <2>4. Folds(z, s, n + 1)
    BY <2>2, <2>3 DEF Folds
  <2> QED BY <2>4
<1>3. CASE Bad # {}
  <2>1. PICK n \in Bad : \A k \in Bad : n <= k
    BY <1>3, LeastNumber
  <2>2. n \in Nat /\ n # 0 /\ n - 1 \in Nat /\ n - 1 \notin Bad /\ (n - 1) + 1 = n
    BY <1>1, <2>1
  <2>3. \E f : Folds(f, s, n - 1)
    BY <2>2
  <2>4. \E g : Folds(g, s, n)
    BY <1>2, <2>2, <2>3
  <2> QED BY <2>1, <2>4
<1> QED BY <1>3

\* ... and the states of two records agree as long as the records do.
LEMMA FoldUnique ==
    ASSUME NEW s, NEW t, NEW m \in Nat, NEW l \in Nat, NEW f, NEW g, Folds(f, s, m), Folds(g, t, l),
           NEW n \in Nat, n <= m, n <= l, \A k \in 1..n : s[k] = t[k]
    PROVE  f[n] = g[n]
<1> DEFINE Bad == {k \in 0..n : f[k] # g[k]}
<1>1. \A k \in 0..n : /\ f[k] = IF k = 0 THEN Unspent ELSE Fold(f[k - 1], s[k])
                      /\ g[k] = IF k = 0 THEN Unspent ELSE Fold(g[k - 1], t[k])
  BY DEF Folds
<1>2. CASE Bad # {}
  <2>0. Bad \subseteq Nat
    OBVIOUS
  <2>1. PICK k \in Bad : \A j \in Bad : k <= j
    <3> HIDE DEF Bad
    <3> QED BY <1>2, <2>0, LeastNumber
  <2>2. k \in 0..n /\ f[k] # g[k]
    BY <2>1
  <2>3. CASE k = 0
    BY <1>1, <2>2, <2>3
  <2>4. CASE k # 0
    <3>1. k - 1 \in 0..n /\ k \in 1..n /\ ~ (k <= k - 1)
      BY <2>2, <2>4
    <3>2. f[k - 1] = g[k - 1]
      BY <2>1, <3>1
    <3> QED BY <1>1, <2>2, <2>4, <3>1, <3>2
  <2> QED BY <2>3, <2>4
<1> QED BY <1>2

\* spend_state is that fold.
LEMMA SpendStateIsFold ==
    ASSUME NEW s, Len(s) \in Nat
    PROVE  \E f : Folds(f, s, Len(s)) /\ SpendState(s) = f[Len(s)]
<1> DEFINE c == CHOOSE f : f = [n \in 0..Len(s) |-> IF n = 0 THEN Unspent ELSE Fold(f[n - 1], s[n])]
<1>1. \E f : f = [n \in 0..Len(s) |-> IF n = 0 THEN Unspent ELSE Fold(f[n - 1], s[n])]
  BY FoldExists DEF Folds
<1>2. c = [n \in 0..Len(s) |-> IF n = 0 THEN Unspent ELSE Fold(c[n - 1], s[n])]
  BY <1>1
<1>3. SpendState(s) = c[Len(s)]
  BY DEF SpendState
<1> HIDE DEF c
<1> QED BY <1>2, <1>3 DEF Folds

\* A record with no entry reads unspent.
LEMMA SpendStateEmpty == SpendState(<<>>) = Unspent
<1>1. PICK f : Folds(f, <<>>, 0) /\ SpendState(<<>>) = f[0]
  BY SpendStateIsFold
<1> QED BY <1>1 DEF Folds

\* Each entry that is appended is one step of the fold.
LEMMA SpendStateAppend ==
    ASSUME NEW S, NEW s \in Seq(S), NEW e \in S
    PROVE  SpendState(Append(s, e)) = Fold(SpendState(s), e)
<1> DEFINE t == Append(s, e)
<1>0. Len(s) \in Nat /\ Len(t) = Len(s) + 1 /\ t[Len(s) + 1] = e /\ \A k \in 1..Len(s) : s[k] = t[k]
  OBVIOUS
<1> HIDE DEF t
<1>1. PICK f : Folds(f, s, Len(s)) /\ SpendState(s) = f[Len(s)]
  BY <1>0, SpendStateIsFold
<1>2. PICK g : Folds(g, t, Len(s) + 1) /\ SpendState(t) = g[Len(s) + 1]
  BY <1>0, SpendStateIsFold
<1>3. g[Len(s) + 1] = Fold(g[Len(s)], t[Len(s) + 1])
  <2>1. Len(s) + 1 \in 0..(Len(s) + 1) /\ (Len(s) + 1) - 1 = Len(s) /\ Len(s) + 1 # 0
    BY <1>0
  <2> QED BY <1>2, <2>1 DEF Folds
<1>4. f[Len(s)] = g[Len(s)]
  BY <1>0, <1>1, <1>2, FoldUnique
<1>5. SpendState(t) = Fold(SpendState(s), e)
  BY <1>0, <1>1, <1>2, <1>3, <1>4
<1> QED BY <1>5 DEF t

\* What each entry does to a state: it follows one that permits it, or the record
\* does not fold.
LEMMA FoldStatus ==
    ASSUME NEW s, NEW i, NEW n
    PROVE  /\ Fold(s, SpendEntry(i)).status =
                 IF s.status \in {"unspent", "released"} THEN "spent" ELSE "malformed"
           /\ Fold(s, ReleaseEntry).status = IF s.status = "spent" THEN "released" ELSE "malformed"
           /\ Fold(s, CompletedEntry(n)).status = IF s.status = "spent" THEN "completed" ELSE "malformed"
           /\ s.status = "spent" => Fold(s, CompletedEntry(n)).row = n
<1>1. Fold(s, SpendEntry(i)).status = IF s.status \in {"unspent", "released"} THEN "spent" ELSE "malformed"
  BY DEF Fold, SpendEntry, PermittedFrom
<1>2. Fold(s, ReleaseEntry).status = IF s.status = "spent" THEN "released" ELSE "malformed"
  BY DEF Fold, ReleaseEntry, PermittedFrom
<1>3. /\ Fold(s, CompletedEntry(n)).status = IF s.status = "spent" THEN "completed" ELSE "malformed"
      /\ s.status = "spent" => Fold(s, CompletedEntry(n)).row = n
  BY DEF Fold, CompletedEntry, PermittedFrom
<1> QED BY <1>1, <1>2, <1>3
=============================================================================
