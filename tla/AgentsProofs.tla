---------------------------- MODULE AgentsProofs ----------------------------
(***************************************************************************)
(* Proofs about the agent runtimes, for every set of drivers, policies,     *)
(* packets, steps, graphs and graders and any number of tasks: types, what  *)
(* an action was covered by, what a step was told, what a promotion was     *)
(* earned with, and that the swarm implements SingleUse.                    *)
(***************************************************************************)
EXTENDS Agents, SpendProofs, FiniteSetTheorems, SequenceTheorems

-----------------------------------------------------------------------------
(* Helpers.                                                                 *)

\* Min is what it says, of a set of numbers that is not empty.
LEMMA MinIsLeast ==
    ASSUME NEW T, T \subseteq Nat, T # {}
    PROVE  Min(T) \in T
<1>1. \E n \in T : \A m \in T : n <= m
  BY LeastNumber
<1> QED BY <1>1 DEF Min

\* A sequence of one element is that element.
LEMMA Singleton ==
    ASSUME NEW S, NEW t \in Seq(S), Len(t) = 1
    PROVE  t = <<t[1]>>
<1> DEFINE u == <<t[1]>>
<1>1. t[1] \in S
  BY ElementOfSeq
<1>2. u \in Seq(S) /\ Len(u) = 1 /\ u[1] = t[1]
  BY <1>1
<1> HIDE DEF u
<1>3. \A i \in 1..Len(t) : t[i] = u[i]
  BY <1>2
<1>4. t = u
  BY <1>2, <1>3, SeqEqual
<1> QED BY <1>4 DEF u

\* A sequence of two elements is those two.
LEMMA Pair ==
    ASSUME NEW S, NEW t \in Seq(S), Len(t) = 2
    PROVE  t = <<t[1], t[2]>>
<1> DEFINE u == <<t[1], t[2]>>
<1>0. 1 \in 1..Len(t) /\ 2 \in 1..Len(t)
  OBVIOUS
<1>1. t[1] \in S /\ t[2] \in S
  BY <1>0, ElementOfSeq
<1>2. u \in Seq(S) /\ Len(u) = 2 /\ u[1] = t[1] /\ u[2] = t[2]
  BY <1>1
<1> HIDE DEF u
<1>3. \A i \in 1..Len(t) : t[i] = u[i]
  BY <1>2
<1>4. t = u
  BY <1>2, <1>3, SeqEqual
<1> QED BY <1>4 DEF u

\* What the operators on sequences make of one element or two.
LEMMA ShortSeqs ==
    ASSUME NEW a, NEW b
    PROVE  /\ <<a>> \o <<b>> = <<a, b>>
           /\ Append(<<a>>, b) = <<a, b>>
           /\ SubSeq(<<a>>, 1, 1) = <<a>>
           /\ SubSeq(<<a, b>>, 1, 1) = <<a>>
           /\ SubSeq(<<a, b>>, 1, 2) = <<a, b>>
<1> DEFINE S == {a, b}
<1>1. /\ <<a>> \o <<b>> \in Seq(S) /\ Len(<<a>> \o <<b>>) = 2
      /\ (<<a>> \o <<b>>)[1] = a /\ (<<a>> \o <<b>>)[2] = b
  OBVIOUS
<1>2. /\ Append(<<a>>, b) \in Seq(S) /\ Len(Append(<<a>>, b)) = 2
      /\ Append(<<a>>, b)[1] = a /\ Append(<<a>>, b)[2] = b
  OBVIOUS
<1>3. SubSeq(<<a>>, 1, 1) \in Seq(S) /\ Len(SubSeq(<<a>>, 1, 1)) = 1 /\ SubSeq(<<a>>, 1, 1)[1] = a
  OBVIOUS
<1>4. SubSeq(<<a, b>>, 1, 1) \in Seq(S) /\ Len(SubSeq(<<a, b>>, 1, 1)) = 1 /\ SubSeq(<<a, b>>, 1, 1)[1] = a
  OBVIOUS
<1>5. /\ SubSeq(<<a, b>>, 1, 2) \in Seq(S) /\ Len(SubSeq(<<a, b>>, 1, 2)) = 2
      /\ SubSeq(<<a, b>>, 1, 2)[1] = a /\ SubSeq(<<a, b>>, 1, 2)[2] = b
  OBVIOUS
<1> HIDE DEF S
<1>6. <<a>> \o <<b>> = <<a, b>>
  BY <1>1, Pair, Zenon
<1>7. Append(<<a>>, b) = <<a, b>>
  BY <1>2, Pair, Zenon
<1>8. SubSeq(<<a>>, 1, 1) = <<a>>
  BY <1>3, Singleton, Zenon
<1>9. SubSeq(<<a, b>>, 1, 1) = <<a>>
  BY <1>4, Singleton, Zenon
<1>10. SubSeq(<<a, b>>, 1, 2) = <<a, b>>
  BY <1>5, Pair, Zenon
<1> QED BY <1>6, <1>7, <1>8, <1>9, <1>10

-----------------------------------------------------------------------------
(* The order of a workflow.                                                 *)

\* One step of Order: the first of the steps that are ready, if there is one.
Ready(g, s) == {t \in Steps \ ToSet(s) : g[t] \subseteq ToSet(s)}
Further(g, s) == IF Ready(g, s) = {} THEN s ELSE Append(s, Min(Ready(g, s)))

\* f holds the prefixes of the order of graph g, up to length m.
Orders(f, g, m) == f = [n \in 0..m |-> IF n = 0 THEN <<>> ELSE Further(g, f[n - 1])]

\* There are such prefixes, as many as one likes.
LEMMA PrefixesExist ==
    ASSUME NEW g, NEW m \in Nat
    PROVE  \E f : Orders(f, g, m)
<1> DEFINE Bad == {n \in Nat : ~ \E f : Orders(f, g, n)}
<1>1. \E f : Orders(f, g, 0)
  <2> DEFINE z == [n \in 0..0 |-> <<>>]
  <2>1. Orders(z, g, 0)
    BY DEF Orders
  <2> QED BY <2>1
<1>2. ASSUME NEW n \in Nat, NEW f, Orders(f, g, n)
      PROVE  \E h : Orders(h, g, n + 1)
  <2> DEFINE z == [k \in 0..(n + 1) |-> IF k = n + 1 THEN Further(g, f[n]) ELSE f[k]]
  <2>1. \A k \in 0..n : f[k] = IF k = 0 THEN <<>> ELSE Further(g, f[k - 1])
    BY <1>2 DEF Orders
  <2>2. ASSUME NEW k \in 0..(n + 1)
        PROVE  z[k] = IF k = 0 THEN <<>> ELSE Further(g, z[k - 1])
    <3>1. CASE k = n + 1
      <4>1. k # 0 /\ k - 1 = n /\ n \in 0..(n + 1) /\ n # n + 1
        BY <3>1
      <4>2. z[k] = Further(g, f[n]) /\ z[k - 1] = f[n]
        BY <3>1, <4>1
      <4> QED BY <4>1, <4>2
    <3>2. CASE k # n + 1
      <4>1. k \in 0..n
        BY <3>2
      <4>2. k = 0 \/ (k - 1 \in 0..(n + 1) /\ k - 1 # n + 1)
        BY <4>1
      <4>3. z[k] = f[k] /\ (k = 0 \/ z[k - 1] = f[k - 1])
        BY <3>2, <4>2
      <4>4. f[k] = IF k = 0 THEN <<>> ELSE Further(g, f[k - 1])
        BY <2>1, <4>1
      <4> HIDE DEF z
      <4> QED BY <4>3, <4>4
    <3> QED BY <3>1, <3>2
  <2>3. z = [k \in 0..(n + 1) |-> z[k]]
    OBVIOUS
  <2>4. Orders(z, g, n + 1)
    <3> HIDE DEF z
    <3>1. [k \in 0..(n + 1) |-> z[k]] = [k \in 0..(n + 1) |-> IF k = 0 THEN <<>> ELSE Further(g, z[k - 1])]
      BY <2>2
    <3> QED BY <2>3, <3>1 DEF Orders
  <2> QED BY <2>4
<1>3. CASE Bad # {}
  <2>0. Bad \subseteq Nat
    OBVIOUS
  <2>1. PICK n \in Bad : \A k \in Bad : n <= k
    <3> HIDE DEF Bad
    <3> QED BY <1>3, <2>0, LeastNumber
  <2>2. n # 0
    BY <1>1, <2>1
  <2>3. n - 1 \in Nat /\ n - 1 \notin Bad /\ (n - 1) + 1 = n
    <3>1. n \in Nat
      BY <2>1
    <3> HIDE DEF Bad
    <3> QED BY <2>1, <2>2, <3>1
  <2>4. PICK f : Orders(f, g, n - 1)
    BY <2>3
  <2>5. \E h : Orders(h, g, n)
    BY <1>2, <2>3, <2>4
  <2> QED BY <2>1, <2>5
<1> QED BY <1>3

\* A list of steps of which each comes once, after all that it depends on.
Sorted(g, s) ==
    /\ s \in Seq(Steps)
    /\ \A i, j \in 1..Len(s) : s[i] = s[j] => i = j
    /\ \A i \in 1..Len(s) : \A t \in g[s[i]] : \E j \in 1..(i - 1) : s[j] = t

\* Workflow.order lists a step after its dependencies, and lists it once.
LEMMA OrderSorts ==
    ASSUME NEW g \in [Steps -> SUBSET Steps]
    PROVE  Sorted(g, Order(g))
<1> DEFINE m == Cardinality(Steps)
           c == CHOOSE f : f = [n \in 0..m |-> IF n = 0 THEN <<>> ELSE Further(g, f[n - 1])]
<1>1. m \in Nat
  BY StepsAssumption, FS_CardinalityType
<1> HIDE DEF m
<1>2. \E f : f = [n \in 0..m |-> IF n = 0 THEN <<>> ELSE Further(g, f[n - 1])]
  BY <1>1, PrefixesExist DEF Orders
<1>3. c = [n \in 0..m |-> IF n = 0 THEN <<>> ELSE Further(g, c[n - 1])]
  BY <1>2
<1>4. Order(g) = c[m]
  BY DEF Order, Further, Ready, m
<1> HIDE DEF c
<1>5. ASSUME NEW s, Sorted(g, s) PROVE Sorted(g, Further(g, s))
  <2>1. CASE Ready(g, s) = {}
    BY <1>5, <2>1 DEF Further
  <2>2. CASE Ready(g, s) # {}
    <3> DEFINE x == Min(Ready(g, s))
               u == Append(s, x)
    <3>1. x \in Ready(g, s)
      <4>1. Ready(g, s) \subseteq Nat
        BY StepsAssumption DEF Ready
      <4> QED BY <2>2, <4>1, MinIsLeast
    <3> HIDE DEF x
    <3>2. x \in Steps /\ x \notin ToSet(s) /\ g[x] \subseteq ToSet(s)
      BY <3>1 DEF Ready
    <3>3. /\ s \in Seq(Steps) /\ Len(s) \in Nat
          /\ ToSet(s) = {s[i] : i \in 1..Len(s)}
      BY <1>5 DEF Sorted, ToSet
    <3>4. /\ u \in Seq(Steps) /\ Len(u) = Len(s) + 1 /\ u[Len(s) + 1] = x
          /\ \A i \in 1..Len(s) : u[i] = s[i]
      BY <3>2, <3>3
    <3> HIDE DEF u
    <3>5. \A i \in 1..Len(u) : i \in 1..Len(s) \/ i = Len(s) + 1
      BY <3>3, <3>4
    <3>6. \A i \in 1..Len(s) : s[i] # x
      BY <3>2, <3>3
    <3>7. \A i, j \in 1..Len(u) : u[i] = u[j] => i = j
      BY <1>5, <3>4, <3>5, <3>6 DEF Sorted
    <3>8. ASSUME NEW i \in 1..Len(u), NEW t \in g[u[i]]
          PROVE  \E j \in 1..(i - 1) : u[j] = t
      <4>1. CASE i \in 1..Len(s)
        <5>1. PICK j \in 1..(i - 1) : s[j] = t
          BY <1>5, <3>4, <3>8, <4>1 DEF Sorted
        <5>2. j \in 1..Len(s)
          BY <3>3, <4>1
        <5> QED BY <3>4, <5>1, <5>2
      <4>2. CASE i = Len(s) + 1
        <5>1. t \in ToSet(s)
          BY <3>2, <3>4, <3>8, <4>2
        <5>2. PICK j \in 1..Len(s) : s[j] = t
          BY <3>3, <5>1
        <5>3. j \in 1..(i - 1)
          BY <3>3, <4>2
        <5> QED BY <3>4, <5>2, <5>3
      <4> QED BY <3>5, <4>1, <4>2
    <3>9. Further(g, s) = u
      BY <2>2 DEF Further, u, x
    <3> QED BY <3>4, <3>7, <3>8, <3>9 DEF Sorted
  <2> QED BY <2>1, <2>2
<1>6. Sorted(g, <<>>)
  BY DEF Sorted
<1> DEFINE Bad == {n \in 0..m : ~ Sorted(g, c[n])}
<1>7. CASE Bad # {}
  <2>0. Bad \subseteq Nat
    BY <1>1
  <2>1. PICK n \in Bad : \A k \in Bad : n <= k
    <3> HIDE DEF Bad
    <3> QED BY <1>7, <2>0, LeastNumber
  <2>2. n \in 0..m /\ ~ Sorted(g, c[n])
    BY <2>1
  <2>3. c[n] = IF n = 0 THEN <<>> ELSE Further(g, c[n - 1])
    BY <1>3, <2>2
  <2>4. n # 0
    BY <1>6, <2>2, <2>3
  <2>5. n - 1 \in 0..m /\ n - 1 \notin Bad
    <3>1. n - 1 \in 0..m /\ n - 1 < n
      BY <1>1, <2>2, <2>4
    <3>2. n \in Nat /\ n - 1 \in Nat
      BY <1>1, <2>2, <2>4
    <3> HIDE DEF Bad
    <3> QED BY <2>1, <3>1, <3>2
  <2>6. Sorted(g, c[n - 1])
    BY <2>5
  <2> QED BY <1>5, <2>2, <2>3, <2>4, <2>6
<1>8. m \in 0..m
  BY <1>1
<1> QED BY <1>4, <1>7, <1>8

-----------------------------------------------------------------------------
(* What the steps of a workflow are told.                                   *)

StepStates == {"todo", "graded", "unavailable", "halted"}
StepOutcomes == {"none", "approve", "route", "block", "unavailable"}
WorkflowPhases == {"off", "ready", "refused", "next", "assess", "submit", "raised"}

WorkflowShape ==
    /\ workflow = [pc |-> workflow.pc, policy |-> workflow.policy, depends |-> workflow.depends,
                   order |-> workflow.order, steps |-> workflow.steps, grade |-> workflow.grade,
                   class |-> workflow.class, assessment |-> workflow.assessment]
    /\ workflow.pc \in WorkflowPhases
    /\ workflow.depends \in [Steps -> SUBSET Steps]
    /\ workflow.order \in Seq(Steps)
    /\ workflow.steps = [s \in Steps |-> workflow.steps[s]]
    /\ \A s \in Steps : /\ workflow.steps[s].state \in StepStates
                        /\ workflow.steps[s].outcome \in StepOutcomes

\* The steps to come are to do, each comes once, and what it depends on is done or
\* comes before it; the step that is under way depends on nothing that was halted.
OrderInv ==
    LET order == workflow.order
    IN  /\ \A i, j \in 1..Len(order) : order[i] = order[j] => i = j
        /\ \A i \in 1..Len(order) : workflow.steps[order[i]].state = "todo"
        /\ \A i \in 1..Len(order) : \A t \in workflow.depends[order[i]] :
              workflow.steps[t].state # "todo" \/ \E j \in 1..(i - 1) : order[j] = t
        /\ workflow.pc \in {"off", "ready"} =>
              \A s \in Steps : workflow.steps[s].state = "todo" /\ workflow.steps[s].outcome = "none"
        /\ workflow.pc \in {"assess", "submit"} =>
              order # <<>> /\ workflow.depends[Current] \cap Halted = {}

ToldInv == WorkflowShape /\ OrderInv /\ NothingOnUngraded

\* A step is left with a row: what it depends on was graded, unless it is halted.
LEMMA LeaveKeeps ==
    ASSUME ToldInv, workflow.order # <<>>, NEW state \in StepStates \ {"todo"},
           NEW outcome \in StepOutcomes, workflow' = Leave(state, outcome),
           state \in {"graded", "unavailable"} => workflow.depends[Current] \cap Halted = {}
    PROVE  ToldInv'
<1> DEFINE order == workflow.order
           steps == workflow.steps
           w == workflow'
           row == [state |-> state, outcome |-> outcome,
                   approved |-> IF outcome # "approve" THEN None
                                ELSE [grade |-> workflow.grade, class |-> workflow.class,
                                      policy |-> selected]]
<1>1. /\ order \in Seq(Steps) /\ Len(order) \in Nat /\ Len(order) > 0
      /\ Current = order[1] /\ Current \in Steps
  BY DEF ToldInv, WorkflowShape, Current
<1>2. /\ w.pc = "next" /\ w.policy = workflow.policy /\ w.depends = workflow.depends
      /\ w.order = Tail(order) /\ w.steps = [steps EXCEPT ![Current] = row]
      /\ w = [pc |-> w.pc, policy |-> w.policy, depends |-> w.depends, order |-> w.order,
              steps |-> w.steps, grade |-> w.grade, class |-> w.class, assessment |-> w.assessment]
  BY DEF Leave, ToldInv, WorkflowShape
<1>3. /\ w.order \in Seq(Steps) /\ Len(w.order) = Len(order) - 1
      /\ \A i \in 1..Len(w.order) : i + 1 \in 1..Len(order) /\ w.order[i] = order[i + 1]
  BY <1>1, <1>2
<1>4. /\ w.steps = [s \in Steps |-> w.steps[s]]
      /\ w.steps[Current] = row
      /\ \A s \in Steps \ {Current} : w.steps[s] = steps[s]
  <2>1. steps = [s \in Steps |-> steps[s]]
    BY DEF ToldInv, WorkflowShape
  <2> QED BY <1>1, <1>2, <2>1
<1>5. row.state = state /\ row.outcome = outcome
  OBVIOUS
<1> HIDE DEF row, w
<1>6. steps[Current].state = "todo"
  BY <1>1 DEF ToldInv, OrderInv
<1>7. WorkflowShape'
  <2>1. \A s \in Steps : w.steps[s].state \in StepStates /\ w.steps[s].outcome \in StepOutcomes
    BY <1>4, <1>5 DEF ToldInv, WorkflowShape
  <2>2. w.pc \in WorkflowPhases /\ w.depends \in [Steps -> SUBSET Steps]
    BY <1>2 DEF ToldInv, WorkflowShape, WorkflowPhases
  <2> QED BY <1>2, <1>3, <1>4, <2>1, <2>2 DEF WorkflowShape, w
<1>8. OrderInv'
  <2>1. \A i, j \in 1..Len(w.order) : w.order[i] = w.order[j] => i = j
    BY <1>1, <1>3 DEF ToldInv, OrderInv
  <2>2. ASSUME NEW i \in 1..Len(w.order) PROVE w.steps[w.order[i]].state = "todo"
    <3>1. w.order[i] = order[i + 1] /\ i + 1 \in 1..Len(order) /\ i + 1 # 1 /\ 1 \in 1..Len(order)
      BY <1>1, <1>3
    <3>2. order[i + 1] # Current /\ order[i + 1] \in Steps
      BY <1>1, <3>1 DEF ToldInv, OrderInv
    <3> QED BY <1>4, <3>1, <3>2 DEF ToldInv, OrderInv
  <2>3. ASSUME NEW i \in 1..Len(w.order), NEW t \in w.depends[w.order[i]]
        PROVE  w.steps[t].state # "todo" \/ \E j \in 1..(i - 1) : w.order[j] = t
    <3>1. w.order[i] = order[i + 1] /\ i + 1 \in 1..Len(order) /\ order[i + 1] \in Steps
      BY <1>1, <1>3
    <3>2. t \in workflow.depends[order[i + 1]] /\ t \in Steps
      BY <1>2, <3>1 DEF ToldInv, WorkflowShape
    <3>3. steps[t].state # "todo" \/ \E j \in 1..((i + 1) - 1) : order[j] = t
      BY <3>1, <3>2 DEF ToldInv, OrderInv
    <3>4. CASE t = Current
      BY <1>4, <1>5, <3>4
    <3>5. CASE t # Current /\ steps[t].state # "todo"
      BY <1>4, <3>2, <3>5
    <3>6. ASSUME t # Current, NEW j \in 1..((i + 1) - 1), order[j] = t
          PROVE  \E k \in 1..(i - 1) : w.order[k] = t
      <4>1. j # 1
        BY <1>1, <3>6
      <4>2. j - 1 \in 1..(i - 1) /\ j - 1 \in 1..Len(w.order) /\ (j - 1) + 1 = j
        BY <1>1, <1>3, <4>1
      <4> QED BY <1>3, <3>6, <4>2
    <3> QED BY <3>3, <3>4, <3>5, <3>6
  <2> QED BY <1>2, <2>1, <2>2, <2>3 DEF OrderInv, w
<1>9. NothingOnUngraded'
  <2>1. ASSUME NEW s \in Steps, w.steps[s].state \in {"graded", "unavailable"},
               NEW t \in w.depends[s]
        PROVE  w.steps[t].state = "graded"
    <3>0. t \in workflow.depends[s] /\ t \in Steps
      BY <1>2, <2>1 DEF ToldInv, WorkflowShape
    <3>1. CASE s = Current
      <4>1. steps[t].state # "todo" \/ \E j \in 1..(1 - 1) : order[j] = t
        BY <1>1, <3>0, <3>1 DEF ToldInv, OrderInv
      <4>2. steps[t].state # "todo"
        BY <4>1
      <4>3. workflow.depends[Current] \cap Halted = {}
        BY <1>4, <1>5, <2>1, <3>1
      <4>4. steps[t].state = "graded"
        BY <3>0, <3>1, <4>2, <4>3 DEF Halted, ToldInv, WorkflowShape, StepStates
      <4> QED BY <1>4, <1>6, <3>0, <4>4
    <3>2. CASE s # Current
      <4>1. steps[t].state = "graded"
        BY <1>4, <2>1, <3>0, <3>2 DEF ToldInv, NothingOnUngraded
      <4> QED BY <1>4, <1>6, <3>0, <4>1
    <3> QED BY <3>1, <3>2
  <2> QED BY <2>1 DEF NothingOnUngraded, w
<1> QED BY <1>7, <1>8, <1>9 DEF ToldInv

\* A step goes on to its next phase: nothing is written about any step.
LEMMA StepGoesOn ==
    ASSUME ToldInv, WorkflowShape', workflow.pc \in {"next", "assess", "submit"},
           workflow'.pc \in {"assess", "submit", "raised"},
           workflow'.depends = workflow.depends, workflow'.order = workflow.order,
           workflow'.steps = workflow.steps, workflow.order # <<>>,
           workflow.depends[Current] \cap Halted = {}
    PROVE  ToldInv'
<1>1. Current' = Current /\ Halted' = Halted
  BY DEF Current, Halted
<1>2. OrderInv'
  BY <1>1 DEF ToldInv, OrderInv
<1>3. NothingOnUngraded'
  BY DEF ToldInv, NothingOnUngraded
<1> QED BY <1>2, <1>3 DEF ToldInv

\* What a decision says.
LEMMA DecisionSays ==
    ASSUME NEW gate, NEW assessment, NEW action, NEW risk,
           Decide(gate, assessment, action, risk).outcome # "raised"
    PROVE  /\ Decide(gate, assessment, action, risk).outcome \in StepOutcomes
           /\ Decide(gate, assessment, action, risk).authorization # None
<1> DEFINE a == Authorize(assessment, action)
           o == CASE a = None -> "raised"
                  [] a # None /\ assessment.outcome.kind = "unavailable" -> "unavailable"
                  [] OTHER -> GateOutcome(gate, assessment.outcome, risk)
<1>1. Decide(gate, assessment, action, risk) = [outcome |-> o, authorization |-> a]
  BY DEF Decide, GateDecision
<1>2. GateOutcome(gate, assessment.outcome, risk) \in {"block", "route", "approve"}
  BY DEF GateOutcome
<1> HIDE DEF a
<1>3. a # None
  BY <1>1
<1>4. o \in StepOutcomes
  BY <1>2, <1>3 DEF StepOutcomes
<1> QED BY <1>1, <1>3, <1>4

\* Every step of a workflow keeps it.
LEMMA ToldStep ==
    ASSUME ToldInv, WorkflowNext
    PROVE  ToldInv'
<1>0. WorkflowShape /\ OrderInv /\ NothingOnUngraded
  BY DEF ToldInv
<1>1. CASE StartWorkflow
  <2>1. PICK g \in Graphs :
          workflow' = [workflow EXCEPT
              !.pc = IF Len(Order(g)) < Cardinality(Steps) THEN "refused" ELSE "next",
              !.policy = selected, !.depends = g, !.order = Order(g)]
    BY <1>1 DEF StartWorkflow
  <2>2. g \in [Steps -> SUBSET Steps]
    BY StepsAssumption
  <2>3. Sorted(g, Order(g))
    BY <2>2, OrderSorts
  <2>4. /\ workflow'.pc \in {"refused", "next"} /\ workflow'.depends = g
        /\ workflow'.order = Order(g) /\ workflow'.steps = workflow.steps
        /\ workflow' = [pc |-> workflow'.pc, policy |-> workflow'.policy,
                        depends |-> workflow'.depends, order |-> workflow'.order,
                        steps |-> workflow'.steps, grade |-> workflow'.grade,
                        class |-> workflow'.class, assessment |-> workflow'.assessment]
    BY <1>0, <2>1 DEF WorkflowShape
  <2>5. \A s \in Steps : workflow.steps[s].state = "todo"
    BY <1>0, <1>1 DEF StartWorkflow, OrderInv
  <2>6. WorkflowShape'
    BY <1>0, <2>2, <2>3, <2>4 DEF WorkflowShape, Sorted, WorkflowPhases
  <2>7. OrderInv'
    <3>1. \A i \in 1..Len(Order(g)) : Order(g)[i] \in Steps
      BY <2>3 DEF Sorted
    <3> QED BY <2>3, <2>4, <2>5, <3>1 DEF Sorted, OrderInv
  <2>8. NothingOnUngraded'
    BY <2>4, <2>5 DEF NothingOnUngraded
  <2> QED BY <2>6, <2>7, <2>8 DEF ToldInv
<1>2. CASE HaltStep
  <2>1. workflow.order # <<>> /\ workflow' = Leave("halted", "unavailable")
    BY <1>2 DEF HaltStep, AtStep
  <2> QED BY <2>1, LeaveKeeps DEF StepStates, StepOutcomes
<1>3. CASE GradeStep
  <2>1. /\ workflow.pc = "next" /\ workflow.order # <<>>
        /\ workflow.depends[Current] \cap Halted = {}
    BY <1>3 DEF GradeStep, AtStep
  <2>2. \/ workflow' = Leave("unavailable", "unavailable")
        \/ workflow' = Leave("graded", "none")
        \/ \E grade, class : workflow' = [workflow EXCEPT !.pc = "assess", !.grade = grade,
                                                          !.class = class]
    BY <1>3 DEF GradeStep, SendMessage
  <2>3. CASE workflow' = Leave("unavailable", "unavailable") \/ workflow' = Leave("graded", "none")
    BY <2>1, <2>3, LeaveKeeps DEF StepStates, StepOutcomes
  <2>4. ASSUME NEW grade, NEW class,
               workflow' = [workflow EXCEPT !.pc = "assess", !.grade = grade, !.class = class]
        PROVE  ToldInv'
    <3>1. /\ WorkflowShape' /\ workflow'.pc = "assess" /\ workflow'.depends = workflow.depends
          /\ workflow'.order = workflow.order /\ workflow'.steps = workflow.steps
      BY <1>0, <2>4 DEF WorkflowShape, WorkflowPhases
    <3> QED BY <2>1, <3>1, StepGoesOn
  <2> QED BY <2>2, <2>3, <2>4
<1>4. CASE AssessStep
  <2>1. /\ workflow.pc = "assess" /\ workflow.order # <<>>
        /\ workflow.depends[Current] \cap Halted = {}
    BY <1>0, <1>4 DEF AssessStep, OrderInv
  <2>2. \/ workflow' = Leave("graded", "unavailable")
        \/ workflow' = [workflow EXCEPT !.pc = "raised"]
        \/ \E a : workflow' = [workflow EXCEPT !.pc = "submit", !.assessment = a]
    BY <1>4 DEF AssessStep, SendMessage
  <2>3. CASE workflow' = Leave("graded", "unavailable")
    BY <2>1, <2>3, LeaveKeeps DEF StepStates, StepOutcomes
  <2>4. ASSUME \/ workflow' = [workflow EXCEPT !.pc = "raised"]
               \/ \E a : workflow' = [workflow EXCEPT !.pc = "submit", !.assessment = a]
        PROVE  ToldInv'
    <3>1. /\ WorkflowShape' /\ workflow'.pc \in {"raised", "submit"}
          /\ workflow'.depends = workflow.depends
          /\ workflow'.order = workflow.order /\ workflow'.steps = workflow.steps
      BY <1>0, <2>4 DEF WorkflowShape, WorkflowPhases
    <3> QED BY <2>1, <3>1, StepGoesOn
  <2> QED BY <2>2, <2>3, <2>4
<1>5. CASE SubmitStep
  <2>1. /\ workflow.pc = "submit" /\ workflow.order # <<>>
        /\ workflow.depends[Current] \cap Halted = {}
    BY <1>0, <1>5 DEF SubmitStep, OrderInv
  <2>2. PICK risk \in {"low", "medium", "high"} :
          workflow' =
             IF Decide([routeHighRisk |-> TRUE], workflow.assessment, StepAction, risk).outcome = "raised"
             THEN [workflow EXCEPT !.pc = "raised"]
             ELSE SendMessage(Decide([routeHighRisk |-> TRUE], workflow.assessment, StepAction, risk).outcome)
    BY <1>5 DEF SubmitStep
  <2> DEFINE o == Decide([routeHighRisk |-> TRUE], workflow.assessment, StepAction, risk).outcome
  <2>3. CASE o = "raised"
    <3>1. /\ WorkflowShape' /\ workflow'.pc = "raised" /\ workflow'.depends = workflow.depends
          /\ workflow'.order = workflow.order /\ workflow'.steps = workflow.steps
      BY <1>0, <2>2, <2>3 DEF WorkflowShape, WorkflowPhases
    <3> QED BY <2>1, <3>1, StepGoesOn
  <2>4. CASE o # "raised"
    <3>1. o \in StepOutcomes
      BY <2>4, DecisionSays
    <3>2. workflow' = Leave("graded", o)
      BY <2>2, <2>4 DEF SendMessage
    <3> QED BY <2>1, <3>1, <3>2, LeaveKeeps DEF StepStates
  <2> QED BY <2>3, <2>4
<1> QED BY <1>1, <1>2, <1>3, <1>4, <1>5 DEF WorkflowNext

\* A workflow that has not begun.
LEMMA ToldStart ==
    ASSUME NEW deployed, WorkflowInit(deployed)
    PROVE  ToldInv
<1>1. /\ workflow.pc \in {"off", "ready"} /\ workflow.depends = [s \in Steps |-> {}]
      /\ workflow.order = <<>> /\ workflow.steps = [s \in Steps |-> NoStep]
      /\ workflow = [pc |-> workflow.pc, policy |-> workflow.policy, depends |-> workflow.depends,
                     order |-> workflow.order, steps |-> workflow.steps, grade |-> workflow.grade,
                     class |-> workflow.class, assessment |-> workflow.assessment]
  BY DEF WorkflowInit, NoWorkflow
<1>2. WorkflowShape
  BY <1>1 DEF WorkflowShape, WorkflowPhases, NoStep, StepStates, StepOutcomes
<1>3. OrderInv
  BY <1>1 DEF OrderInv, NoStep
<1>4. NothingOnUngraded
  BY <1>1 DEF NothingOnUngraded, NoStep
<1> QED BY <1>2, <1>3, <1>4 DEF ToldInv

\* What a step of another runtime leaves alone.
LEMMA ToldStutter ==
    ASSUME ToldInv, UNCHANGED workflow
    PROVE  ToldInv'
<1>1. WorkflowShape'
  BY DEF ToldInv, WorkflowShape
<1>2. OrderInv'
  <2>1. Current' = Current /\ Halted' = Halted
    BY DEF Current, Halted
  <2> QED BY <2>1 DEF ToldInv, OrderInv
<1>3. NothingOnUngraded'
  BY DEF ToldInv, NothingOnUngraded
<1> QED BY <1>1, <1>2, <1>3 DEF ToldInv

\* An agent proposes, and so acts, only on graded messages: whatever depends on a
\* step that could not be graded, however far, is asked for nothing
\* (Workflow.order, WorkflowRuntime.run).
THEOREM ToldByGraded == Spec => []NothingOnUngraded
<1>1. Init => ToldInv
  BY ToldStart DEF Init
<1>2. ToldInv /\ [Next]_vars => ToldInv'
  <2> SUFFICES ASSUME ToldInv, [Next]_vars PROVE ToldInv'
    OBVIOUS
  <2>1. WorkflowNext \/ UNCHANGED workflow
    BY DEF Next, Rotation, vars
  <2> QED BY <2>1, ToldStep, ToldStutter
<1>3. ToldInv => NothingOnUngraded
  BY DEF ToldInv
<1> QED BY <1>1, <1>2, <1>3, PTL DEF Spec

-----------------------------------------------------------------------------
(* The runs of the swarm.                                                   *)

SwarmPhases == {"off", "ready", "next", "verified", "assessed", "check", "claim", "spend",
                "execute", "complete", "release", "chain_release", "raised"}
SwarmRows == {None, "judged", "rejected", "executed"}

\* Plans, and those that have their action to come.
ActionPlans == {<<"proposed_action">>, <<"proposed_action", "hypothesis">>}
Plans == ActionPlans \cup {<<>>, <<"hypothesis">>}

\* Phases of a run on its action: with an authorization, and with its key.
Authorized == {"check", "claim", "spend", "execute", "complete", "release", "chain_release"}
Acting == {"verified", "assessed"} \cup Authorized
Holding == {"spend", "execute", "complete", "release"}

RunShape(run) ==
    /\ run = [pc |-> run.pc, policy |-> run.policy, plan |-> run.plan, artifact |-> run.artifact,
              cases |-> run.cases, results |-> run.results, assessment |-> run.assessment,
              authorization |-> run.authorization, ran |-> run.ran, row |-> run.row]
    /\ run.pc \in SwarmPhases /\ run.policy \in Policies \cup {None} /\ run.plan \in Plans
    /\ run.artifact \in Artifacts \cup {None} /\ run.ran \in BOOLEAN /\ run.row \in SwarmRows
    /\ Len(run.results) <= 2

\* A run has one action at most, and with it an artifact; what it has done it
\* did under an authorization, which it keeps.
RunSane(run) ==
    /\ run.pc \in Acting \cup {"next"} => run.policy \in Policies
    /\ run.pc \in Acting => run.plan \in ActionPlans
    /\ run.pc \in Acting \cup {"next"} /\ run.plan \in ActionPlans => run.artifact \in Artifacts
    /\ run.pc = "next" /\ run.plan \in ActionPlans => ~ run.ran
    /\ run.ran => run.pc \in {"complete", "next", "raised"}
    /\ run.pc = "complete" => run.ran
    /\ run.pc \in Authorized \/ run.ran => KeyOf(run) \in Keys

Entries == [event : {"spend", "release", "outcome"}, idem : {None}, row : {None}]

SwarmTypes ==
    /\ selected \in Policies
    /\ packet \in Packets \cup {None}
    /\ swarm = [d \in Drivers |-> swarm[d]]
    /\ mutex \subseteq Keys
    /\ spends \in [Keys -> Seq(Entries)]
    /\ \A d \in Drivers : /\ RunShape(swarm[d]) /\ RunSane(swarm[d])
                          /\ swarm[d].pc # "off" => packet \in Packets

\* What is left of a run when its entry is recorded.
LEMMA RecordedRun ==
    ASSUME NEW run, RunShape(run), RunSane(run), run.plan \in ActionPlans, run.policy \in Policies,
           NEW row \in SwarmRows
    PROVE  /\ RunShape(Recorded(run, row)) /\ RunSane(Recorded(run, row))
           /\ Recorded(run, row).pc = "next"
           /\ Recorded(run, row).ran = run.ran
           /\ run.ran => /\ KeyOf(Recorded(run, row)) = KeyOf(run)
                         /\ Recorded(run, row).artifact = run.artifact
                         /\ Recorded(run, row).results = run.results
                         /\ Recorded(run, row).authorization = run.authorization
<1> DEFINE r == Recorded(run, row)
           n == [run EXCEPT !.pc = "next", !.plan = Tail(@), !.row = row]
           p == Tail(run.plan)
<1>0. p \in Plans \ ActionPlans
  <2>1. run.plan = <<"proposed_action">> => p = <<>>
    OBVIOUS
  <2>2. run.plan = <<"proposed_action", "hypothesis">> => p = <<"hypothesis">>
    OBVIOUS
  <2>3. <<>> \notin ActionPlans /\ <<"hypothesis">> \notin ActionPlans
    BY DEF ActionPlans
  <2> QED BY <2>1, <2>2, <2>3 DEF ActionPlans, Plans
<1> HIDE DEF p
<1>1. n = [pc |-> "next", policy |-> run.policy, plan |-> p, artifact |-> run.artifact,
           cases |-> run.cases, results |-> run.results, assessment |-> run.assessment,
           authorization |-> run.authorization, ran |-> run.ran, row |-> row]
  <2>1. n = [run EXCEPT !.pc = "next", !.plan = p, !.row = row]
    BY DEF p
  <2>2. run = [pc |-> run.pc, policy |-> run.policy, plan |-> run.plan, artifact |-> run.artifact,
               cases |-> run.cases, results |-> run.results, assessment |-> run.assessment,
               authorization |-> run.authorization, ran |-> run.ran, row |-> run.row]
    BY DEF RunShape
  <2> HIDE DEF n
  <2> QED BY <2>1, <2>2
<1>2. r = IF run.ran THEN n
          ELSE [n EXCEPT !.artifact = None, !.cases = FALSE, !.results = <<>>,
                         !.assessment = None, !.authorization = None]
  BY DEF Recorded
<1> HIDE DEF n, r
<1>3. CASE run.ran
  <2>1. r = n
    BY <1>2, <1>3
  <2>2. KeyOf(r) = KeyOf(run)
    BY <1>1, <2>1 DEF KeyOf
  <2>3. KeyOf(run) \in Keys
    BY <1>3 DEF RunSane
  <2>4. RunShape(r)
    BY <1>0, <1>1, <2>1 DEF RunShape, SwarmPhases
  <2>5. RunSane(r)
    BY <1>0, <1>1, <1>3, <2>1, <2>2, <2>3 DEF RunSane, Acting, Authorized
  <2> QED BY <1>1, <2>1, <2>2, <2>4, <2>5 DEF r
<1>4. CASE ~ run.ran
  <2>1. r = [pc |-> "next", policy |-> run.policy, plan |-> p, artifact |-> None,
             cases |-> FALSE, results |-> <<>>, assessment |-> None,
             authorization |-> None, ran |-> run.ran, row |-> row]
    BY <1>1, <1>2, <1>4
  <2>2. RunShape(r)
    BY <1>0, <2>1 DEF RunShape, SwarmPhases
  <2>3. RunSane(r)
    BY <1>0, <1>4, <2>1 DEF RunSane, Acting, Authorized
  <2> QED BY <1>4, <2>1, <2>2, <2>3 DEF r
<1> QED BY <1>3, <1>4 DEF RunShape

\* The plan of a run has its action first, if it has one.
LEMMA SelectPlans ==
    ASSUME NEW action \in BOOLEAN, NEW hypothesis \in BOOLEAN, NEW budget \in Nat
    PROVE  /\ Select(action, hypothesis, budget) \in Plans
           /\ Select(action, hypothesis, budget) \in ActionPlans => action
<1> DEFINE first == IF action THEN <<"proposed_action">> ELSE <<>>
           all == first \o (IF hypothesis THEN <<"hypothesis">> ELSE <<>>)
<1>1. all \in Plans /\ (all \in ActionPlans => action)
  <2>1. action /\ hypothesis => all = <<"proposed_action", "hypothesis">>
    BY ShortSeqs
  <2>2. action /\ ~ hypothesis => all = <<"proposed_action">>
    OBVIOUS
  <2>3. ~ action /\ hypothesis => all = <<"hypothesis">>
    OBVIOUS
  <2>4. ~ action /\ ~ hypothesis => all = <<>>
    OBVIOUS
  <2>5. <<>> \notin ActionPlans /\ <<"hypothesis">> \notin ActionPlans
    BY DEF ActionPlans
  <2> HIDE DEF all
  <2> QED BY <2>1, <2>2, <2>3, <2>4, <2>5 DEF Plans, ActionPlans
<1>2. Select(action, hypothesis, budget) =
        IF budget = 0 \/ budget > Len(all) THEN all ELSE SubSeq(all, 1, budget)
  BY DEF Select
<1> HIDE DEF all, first
<1>3. ASSUME budget # 0, ~ (budget > Len(all))
      PROVE  SubSeq(all, 1, budget) \in Plans /\ (SubSeq(all, 1, budget) \in ActionPlans => action)
  <2>1. CASE all = <<>>
    BY <1>3, <2>1
  <2>2. CASE all = <<"hypothesis">>
    <3>1. budget = 1
      BY <1>3, <2>2
    <3>2. SubSeq(all, 1, budget) = <<"hypothesis">>
      BY <2>2, <3>1, ShortSeqs
    <3> QED BY <3>2 DEF Plans, ActionPlans
  <2>3. CASE all = <<"proposed_action">>
    <3>1. budget = 1
      BY <1>3, <2>3
    <3>2. SubSeq(all, 1, budget) = <<"proposed_action">>
      BY <2>3, <3>1, ShortSeqs
    <3> QED BY <1>1, <2>3, <3>2 DEF Plans, ActionPlans
  <2>4. CASE all = <<"proposed_action", "hypothesis">>
    <3>1. budget = 1 \/ budget = 2
      BY <1>3, <2>4
    <3>2. SubSeq(all, 1, budget) \in ActionPlans
      BY <2>4, <3>1, ShortSeqs DEF ActionPlans
    <3>3. action
      BY <1>1, <2>4 DEF ActionPlans
    <3> QED BY <3>2, <3>3 DEF Plans
  <2> QED BY <1>1, <2>1, <2>2, <2>3, <2>4 DEF Plans, ActionPlans
<1> QED BY <1>1, <1>2, <1>3

\* The chain has an outcome for a key.
DoneIn(s) == \E i \in DOMAIN s : s[i].event = "outcome"

\* What a step of driver d may do to the authorizations: nothing; take a key that
\* is free; run under it; report the outcome; or give the key back.
Moved(d) == \A e \in Drivers \ {d} : swarm'[e] = swarm[e]

SameKey(d) == KeyOf(swarm'[d]) = KeyOf(swarm[d])

Idles(d) ==
    /\ mutex' = mutex
    /\ \A k \in Keys : DoneIn(spends'[k]) <=> DoneIn(spends[k])
    /\ swarm'[d].ran = swarm[d].ran
    /\ swarm[d].ran => SameKey(d)
    /\ swarm'[d].pc \in Holding => swarm[d].pc \in Holding /\ SameKey(d)

Takes(d) ==
    /\ swarm[d].pc = "claim" /\ swarm'[d].pc = "spend" /\ SameKey(d)
    /\ ~ swarm[d].ran /\ ~ swarm'[d].ran
    /\ KeyOf(swarm[d]) \notin mutex /\ mutex' = mutex \cup {KeyOf(swarm[d])}
    /\ spends' = spends

RunsIt(d) ==
    /\ swarm[d].pc = "execute" /\ swarm'[d].pc \in {"complete", "raised"} /\ SameKey(d)
    /\ ~ swarm[d].ran /\ swarm'[d].ran
    /\ mutex' = mutex /\ spends' = spends

Reports(d) ==
    /\ swarm[d].pc = "complete" /\ swarm'[d].pc = "next" /\ SameKey(d)
    /\ swarm[d].ran /\ swarm'[d].ran
    /\ mutex' = mutex
    /\ DoneIn(spends'[KeyOf(swarm[d])])
    /\ \A k \in Keys \ {KeyOf(swarm[d])} : spends'[k] = spends[k]

Returns(d) ==
    /\ swarm[d].pc = "release" /\ swarm'[d].pc = "chain_release" /\ SameKey(d)
    /\ ~ swarm[d].ran /\ ~ swarm'[d].ran
    /\ mutex' = mutex \ {KeyOf(swarm[d])}
    /\ spends' = spends

Effect(d) == Moved(d) /\ (Idles(d) \/ Takes(d) \/ RunsIt(d) \/ Reports(d) \/ Returns(d))

\* One more entry is an outcome, or changes nothing of that.
LEMMA DoneAppend ==
    ASSUME NEW s \in Seq(Entries), NEW e \in Entries
    PROVE  /\ Append(s, e) \in Seq(Entries)
           /\ DoneIn(Append(s, e)) <=> DoneIn(s) \/ e.event = "outcome"
<1>1. /\ Append(s, e) \in Seq(Entries) /\ DOMAIN s = 1..Len(s) /\ Len(s) \in Nat
      /\ DOMAIN Append(s, e) = 1..(Len(s) + 1) /\ Append(s, e)[Len(s) + 1] = e
      /\ \A i \in 1..Len(s) : Append(s, e)[i] = s[i]
  OBVIOUS
<1>2. \A i \in 1..(Len(s) + 1) : i \in 1..Len(s) \/ i = Len(s) + 1
  BY <1>1
<1>3. Len(s) + 1 \in 1..(Len(s) + 1) /\ \A i \in 1..Len(s) : i \in 1..(Len(s) + 1)
  BY <1>1
<1> DEFINE u == Append(s, e)
<1> HIDE DEF u
<1>4. DoneIn(u) <=> DoneIn(s) \/ e.event = "outcome"
  BY <1>1, <1>2, <1>3 DEF DoneIn, u
<1> QED BY <1>1, <1>4 DEF u

\* The run of one driver is replaced, and stays a run.
LEMMA RunReplaced ==
    ASSUME SwarmTypes, NEW d \in Drivers, NEW r, swarm' = [swarm EXCEPT ![d] = r],
           RunShape(r), RunSane(r), r.pc # "off", swarm[d].pc # "off",
           mutex' \subseteq Keys, spends' \in [Keys -> Seq(Entries)],
           UNCHANGED <<selected, packet>>
    PROVE  SwarmTypes' /\ Moved(d) /\ swarm'[d] = r
<1>1. swarm = [e \in Drivers |-> swarm[e]]
  BY DEF SwarmTypes
<1>2. /\ swarm' = [e \in Drivers |-> swarm'[e]] /\ swarm'[d] = r
      /\ \A e \in Drivers \ {d} : swarm'[e] = swarm[e]
  BY <1>1
<1>3. ASSUME NEW e \in Drivers
      PROVE  /\ RunShape(swarm'[e]) /\ RunSane(swarm'[e])
             /\ swarm'[e].pc # "off" => packet' \in Packets
  <2>1. CASE e = d
    BY <1>2, <2>1 DEF SwarmTypes
  <2>2. CASE e # d
    BY <1>2, <2>2 DEF SwarmTypes
  <2> QED BY <2>1, <2>2
<1>4. SwarmTypes'
  <2>1. selected' \in Policies /\ packet' \in Packets \cup {None}
    BY DEF SwarmTypes
  <2> QED BY <1>2, <1>3, <2>1 DEF SwarmTypes
<1> QED BY <1>2, <1>4 DEF Moved

\* A run that goes on to another phase.
LEMMA PhaseRun ==
    ASSUME NEW run, RunShape(run), NEW x \in SwarmPhases
    PROVE  LET r == [run EXCEPT !.pc = x]
           IN  /\ RunShape(r) /\ r.pc = x /\ KeyOf(r) = KeyOf(run)
               /\ r.policy = run.policy /\ r.plan = run.plan /\ r.artifact = run.artifact
               /\ r.results = run.results /\ r.assessment = run.assessment
               /\ r.authorization = run.authorization /\ r.ran = run.ran
<1> DEFINE r == [run EXCEPT !.pc = x]
<1>1. run = [pc |-> run.pc, policy |-> run.policy, plan |-> run.plan, artifact |-> run.artifact,
             cases |-> run.cases, results |-> run.results, assessment |-> run.assessment,
             authorization |-> run.authorization, ran |-> run.ran, row |-> run.row]
  BY DEF RunShape
<1>2. r = [pc |-> x, policy |-> run.policy, plan |-> run.plan, artifact |-> run.artifact,
           cases |-> run.cases, results |-> run.results, assessment |-> run.assessment,
           authorization |-> run.authorization, ran |-> run.ran, row |-> run.row]
  BY <1>1
<1> HIDE DEF r
<1>3. RunShape(r)
  BY <1>2 DEF RunShape
<1>4. KeyOf(r) = KeyOf(run)
  BY <1>2 DEF KeyOf
<1> QED BY <1>2, <1>3, <1>4 DEF r

\* An authorization names the policy that was selected when it was given.
LEMMA AuthorizedUnder ==
    ASSUME NEW assessment, NEW action, Authorize(assessment, action) # None
    PROVE  /\ Authorize(assessment, action).policy = selected
           /\ Resolve(selected, action) # None
           /\ Resolve(selected, action) = assessment.snapshot
BY DEF Authorize, AuthorizedExecution, SameDigest

\* The run of a driver begins.
LEMMA StartStep ==
    ASSUME SwarmTypes, NEW d \in Drivers, Start(d)
    PROVE  SwarmTypes' /\ Moved(d) /\ Idles(d)
<1> DEFINE run == swarm[d]
<1>1. RunShape(run) /\ RunSane(run) /\ run.pc = "ready" /\ packet \in Packets
  BY DEF SwarmTypes, Start
<1>2. PICK p \in Proposals :
        swarm' = [swarm EXCEPT ![d] =
              [swarm[d] EXCEPT !.pc = "next", !.policy = selected, !.artifact = p.artifact,
                        !.cases = p.cases,
                        !.plan = Select(p.artifact # None, p.hypothesis, packet.budget)]]
  BY DEF Start, SwarmTypes
<1> DEFINE plan == Select(p.artifact # None, p.hypothesis, packet.budget)
           r == [swarm[d] EXCEPT !.pc = "next", !.policy = selected, !.artifact = p.artifact,
                                 !.cases = p.cases, !.plan = plan]
<1>3. p.artifact \in Artifacts \cup {None} /\ p.hypothesis \in BOOLEAN
  BY DEF Proposals
<1>4. plan \in Plans /\ (plan \in ActionPlans => p.artifact # None)
  <2>1. packet.budget \in Nat
    BY <1>1, PacketsAssumption
  <2>2. (p.artifact # None) \in BOOLEAN
    OBVIOUS
  <2> QED BY <1>3, <2>1, <2>2, SelectPlans
<1> HIDE DEF plan
<1>5. r = [pc |-> "next", policy |-> selected, plan |-> plan, artifact |-> p.artifact,
           cases |-> p.cases, results |-> run.results, assessment |-> run.assessment,
           authorization |-> run.authorization, ran |-> run.ran, row |-> run.row]
  <2>1. run = [pc |-> run.pc, policy |-> run.policy, plan |-> run.plan, artifact |-> run.artifact,
               cases |-> run.cases, results |-> run.results, assessment |-> run.assessment,
               authorization |-> run.authorization, ran |-> run.ran, row |-> run.row]
    BY <1>1 DEF RunShape
  <2>2. r = [run EXCEPT !.pc = "next", !.policy = selected, !.artifact = p.artifact,
                        !.cases = p.cases, !.plan = plan]
    OBVIOUS
  <2> HIDE DEF r, run
  <2> QED BY <2>1, <2>2
<1>6. swarm' = [swarm EXCEPT ![d] = r]
  BY <1>2 DEF plan
<1> HIDE DEF r
<1>7. ~ run.ran /\ selected \in Policies
  BY <1>1 DEF RunSane, SwarmTypes
<1>8. RunShape(r)
  BY <1>1, <1>3, <1>4, <1>5, <1>7 DEF RunShape, SwarmPhases
<1>9. RunSane(r)
  BY <1>3, <1>4, <1>5, <1>7 DEF RunSane, Acting, Authorized
<1>10. /\ mutex' \subseteq Keys /\ spends' \in [Keys -> Seq(Entries)]
       /\ mutex' = mutex /\ spends' = spends /\ UNCHANGED <<selected, packet>>
  BY DEF Start, SwarmTypes
<1>11. SwarmTypes' /\ Moved(d) /\ swarm'[d] = r
  BY <1>1, <1>5, <1>6, <1>8, <1>9, <1>10, RunReplaced
<1> QED BY <1>1, <1>5, <1>7, <1>10, <1>11 DEF Idles, Holding

\* A run ends its entry, with nothing written to the record of the authorizations
\* but what is no outcome.
LEMMA EndStep ==
    ASSUME SwarmTypes, NEW d \in Drivers, NEW row \in SwarmRows,
           swarm' = [swarm EXCEPT ![d] = Recorded(@, row)],
           swarm[d].plan \in ActionPlans, swarm[d].policy \in Policies, swarm[d].pc # "off",
           mutex' = mutex, spends' \in [Keys -> Seq(Entries)],
           \A k \in Keys : DoneIn(spends'[k]) <=> DoneIn(spends[k]),
           UNCHANGED <<selected, packet>>
    PROVE  SwarmTypes' /\ Moved(d) /\ Idles(d)
<1> DEFINE r == Recorded(swarm[d], row)
<1>1. RunShape(swarm[d]) /\ RunSane(swarm[d]) /\ mutex' \subseteq Keys
  BY DEF SwarmTypes
<1>2. /\ RunShape(r) /\ RunSane(r) /\ r.pc = "next" /\ r.ran = swarm[d].ran
      /\ swarm[d].ran => KeyOf(r) = KeyOf(swarm[d])
  BY <1>1, RecordedRun
<1>3. swarm' = [swarm EXCEPT ![d] = r]
  BY DEF SwarmTypes
<1> HIDE DEF r
<1>4. SwarmTypes' /\ Moved(d) /\ swarm'[d] = r
  BY <1>1, <1>2, <1>3, RunReplaced
<1> QED BY <1>2, <1>4 DEF Idles, SameKey, Holding

\* A run raises: what it has done stays done.
LEMMA RaiseStep ==
    ASSUME SwarmTypes, NEW d \in Drivers,
           swarm' = [swarm EXCEPT ![d] = Raised(@)], swarm[d].pc # "off",
           UNCHANGED <<selected, packet, mutex, spends>>
    PROVE  SwarmTypes' /\ Moved(d) /\ Idles(d)
<1> DEFINE r == [swarm[d] EXCEPT !.pc = "raised"]
<1>1. /\ RunShape(swarm[d]) /\ RunSane(swarm[d]) /\ mutex' \subseteq Keys
      /\ spends' \in [Keys -> Seq(Entries)]
  BY DEF SwarmTypes
<1>2. /\ RunShape(r) /\ r.pc = "raised" /\ KeyOf(r) = KeyOf(swarm[d]) /\ r.ran = swarm[d].ran
      /\ r.plan = swarm[d].plan /\ r.policy = swarm[d].policy
  BY <1>1, PhaseRun DEF SwarmPhases
<1>3. swarm' = [swarm EXCEPT ![d] = r]
  BY DEF SwarmTypes, Raised
<1> HIDE DEF r
<1>4. RunSane(r)
  BY <1>1, <1>2 DEF RunSane, Acting, Authorized
<1>5. SwarmTypes' /\ Moved(d) /\ swarm'[d] = r
  BY <1>1, <1>2, <1>3, <1>4, RunReplaced
<1> QED BY <1>2, <1>5 DEF Idles, SameKey, Holding

\* A run goes on in _execute_once, to a phase in which it has not run.
LEMMA GotoStep ==
    ASSUME SwarmTypes, NEW d \in Drivers, NEW x \in Authorized \ {"complete"}, Goto(d, x),
           swarm[d].pc \in Authorized \ {"complete"},
           mutex' \subseteq Keys, spends' \in [Keys -> Seq(Entries)],
           UNCHANGED <<selected, packet>>
    PROVE  /\ SwarmTypes' /\ Moved(d) /\ swarm'[d].pc = x /\ SameKey(d)
           /\ ~ swarm[d].ran /\ ~ swarm'[d].ran
           /\ swarm'[d] = [swarm[d] EXCEPT !.pc = x]
<1> DEFINE r == [swarm[d] EXCEPT !.pc = x]
<1>1. RunShape(swarm[d]) /\ RunSane(swarm[d]) /\ swarm[d].pc # "off" /\ x # "off"
  BY DEF SwarmTypes, Authorized
<1>2. /\ RunShape(r) /\ r.pc = x /\ KeyOf(r) = KeyOf(swarm[d]) /\ r.ran = swarm[d].ran
      /\ r.plan = swarm[d].plan /\ r.policy = swarm[d].policy /\ r.artifact = swarm[d].artifact
  <2>1. x \in SwarmPhases
    BY DEF SwarmPhases, Authorized
  <2> QED BY <1>1, <2>1, PhaseRun
<1>3. swarm' = [swarm EXCEPT ![d] = r]
  BY DEF SwarmTypes, Goto
<1>4. ~ swarm[d].ran
  BY <1>1 DEF RunSane, Authorized
<1> HIDE DEF r
<1>5. RunSane(r)
  BY <1>1, <1>2, <1>4 DEF RunSane, Acting, Authorized
<1>6. SwarmTypes' /\ Moved(d) /\ swarm'[d] = r
  BY <1>1, <1>2, <1>3, <1>5, RunReplaced
<1> QED BY <1>2, <1>4, <1>6 DEF SameKey, r

\* An entry is appended to the chain of the run's key.
LEMMA ChainStep ==
    ASSUME SwarmTypes, NEW d \in Drivers, KeyOf(swarm[d]) \in Keys, NEW e \in Entries, Chain(d, e)
    PROVE  /\ spends' \in [Keys -> Seq(Entries)]
           /\ \A k \in Keys \ {KeyOf(swarm[d])} : spends'[k] = spends[k]
           /\ DoneIn(spends'[KeyOf(swarm[d])]) <=> DoneIn(spends[KeyOf(swarm[d])]) \/ e.event = "outcome"
<1> DEFINE key == KeyOf(swarm[d])
<1>1. spends \in [Keys -> Seq(Entries)]
  BY DEF SwarmTypes
<1>2. /\ Append(spends[key], e) \in Seq(Entries)
      /\ DoneIn(Append(spends[key], e)) <=> DoneIn(spends[key]) \/ e.event = "outcome"
  BY <1>1, DoneAppend
<1>3. spends' = [spends EXCEPT ![key] = Append(spends[key], e)]
  BY <1>1 DEF Chain
<1> HIDE DEF key
<1>4. key \in Keys
  BY DEF key
<1>5. /\ spends' \in [Keys -> Seq(Entries)] /\ spends'[key] = Append(spends[key], e)
      /\ \A k \in Keys \ {key} : spends'[k] = spends[k]
  BY <1>1, <1>2, <1>3, <1>4
<1> QED BY <1>2, <1>5 DEF key

\* What the chain entries of a driver are.
LEMMA EntriesAre ==
    /\ SpendEntry(None) \in Entries /\ SpendEntry(None).event = "spend"
    /\ ReleaseEntry \in Entries /\ ReleaseEntry.event = "release"
    /\ CompletedEntry(None) \in Entries /\ CompletedEntry(None).event = "outcome"
BY DEF Entries, SpendEntry, ReleaseEntry, CompletedEntry

\* Every step of a driver keeps the types and has one of the effects.
LEMMA DriverStep ==
    ASSUME SwarmTypes, NEW d \in Drivers,
           \/ Start(d) \/ JudgeHypothesis(d) \/ Unresolved(d) \/ Verify(d) \/ AssessEntry(d)
           \/ DecideEntry(d) \/ CheckSpend(d) \/ Claim(d) \/ ChainSpend(d) \/ Execute(d)
           \/ Complete(d) \/ Release(d) \/ ChainRelease(d) \/ CrashDriver(d)
    PROVE  SwarmTypes' /\ Effect(d)
<1> DEFINE run == swarm[d]
<1>0. /\ RunShape(run) /\ RunSane(run) /\ mutex \subseteq Keys /\ spends \in [Keys -> Seq(Entries)]
      /\ selected \in Policies
  BY DEF SwarmTypes
<1>a. run.pc \in Acting => run.plan \in ActionPlans /\ run.policy \in Policies /\ run.pc # "off"
  BY <1>0 DEF RunSane, Acting, Authorized
<1>b. run.pc \in Authorized => KeyOf(run) \in Keys
  BY <1>0 DEF RunSane
<1>c. {"judged", "rejected", "executed"} \subseteq SwarmRows
  BY DEF SwarmRows
<1>d. At(d, "proposed_action") => run.plan \in ActionPlans /\ run.policy \in Policies /\ run.pc = "next"
  <2>1. run.plan \in Plans
    BY <1>0 DEF RunShape
  <2>2. <<"hypothesis">> # <<>> => Head(<<"hypothesis">>) # "proposed_action"
    OBVIOUS
  <2>3. At(d, "proposed_action") => run.plan # <<"hypothesis">> /\ run.plan # <<>> /\ run.pc = "next"
    BY <2>2 DEF At
  <2> QED BY <1>0, <2>1, <2>3 DEF Plans, RunSane
<1>1. CASE Start(d)
  BY <1>1, StartStep DEF Effect
<1>2. CASE JudgeHypothesis(d)
  <2> DEFINE r == [run EXCEPT !.plan = Tail(@)]
  <2>1. swarm' = [swarm EXCEPT ![d] = r] /\ run.pc = "next" /\ UNCHANGED <<selected, packet, mutex, spends>>
    BY <1>2 DEF JudgeHypothesis, At, SwarmTypes
  <2>2. Tail(run.plan) = <<>>
    <3>1. run.plan \in Plans /\ run.plan # <<>> /\ Head(run.plan) = "hypothesis"
      BY <1>0, <1>2 DEF RunShape, JudgeHypothesis, At
    <3>2. Head(<<"proposed_action">>) # "hypothesis" /\ Head(<<"proposed_action", "hypothesis">>) # "hypothesis"
      OBVIOUS
    <3>3. run.plan = <<"hypothesis">>
      BY <3>1, <3>2 DEF Plans, ActionPlans
    <3> QED BY <3>3
  <2>3. run = [pc |-> run.pc, policy |-> run.policy, plan |-> run.plan, artifact |-> run.artifact,
               cases |-> run.cases, results |-> run.results, assessment |-> run.assessment,
               authorization |-> run.authorization, ran |-> run.ran, row |-> run.row]
    BY <1>0 DEF RunShape
  <2>4. r = [run EXCEPT !.plan = <<>>]
    BY <2>2
  <2> HIDE DEF r
  <2>5. r = [pc |-> run.pc, policy |-> run.policy, plan |-> <<>>, artifact |-> run.artifact,
             cases |-> run.cases, results |-> run.results, assessment |-> run.assessment,
             authorization |-> run.authorization, ran |-> run.ran, row |-> run.row]
    <3> HIDE DEF run
    <3> QED BY <2>3, <2>4
  <2>6. RunShape(r)
    BY <1>0, <2>5 DEF RunShape, Plans
  <2>7. KeyOf(r) = KeyOf(run) /\ <<>> \notin ActionPlans
    BY <2>5 DEF KeyOf, ActionPlans
  <2>8. RunSane(r)
    BY <1>0, <2>1, <2>5, <2>7 DEF RunSane, Acting, Authorized
  <2>9. SwarmTypes' /\ Moved(d) /\ swarm'[d] = r
    BY <1>0, <2>1, <2>5, <2>6, <2>8, RunReplaced
  <2>10. Idles(d)
    BY <2>1, <2>5, <2>7, <2>9 DEF Idles, SameKey, Holding
  <2> QED BY <2>9, <2>10 DEF Effect
<1>3. CASE Unresolved(d)
  <2>1. /\ At(d, "proposed_action") /\ swarm' = [swarm EXCEPT ![d] = Recorded(@, "judged")]
        /\ UNCHANGED <<selected, packet, mutex, spends>>
    BY <1>3 DEF Unresolved
  <2> QED BY <1>0, <1>c, <1>d, <2>1, EndStep DEF Effect
<1>4. CASE Verify(d)
  <2>1. PICK results : /\ Len(results) <= 2
                       /\ swarm' = [swarm EXCEPT ![d] = [@ EXCEPT !.pc = "verified", !.results = results]]
    <3>1. \A a, b : Len(<<a>> \o <<>>) <= 2 /\ Len(<<a>> \o <<b>>) <= 2
      OBVIOUS
    <3> QED BY <1>4, <3>1 DEF Verify
  <2>2. /\ At(d, "proposed_action") /\ UNCHANGED <<selected, packet, mutex, spends>>
    BY <1>4 DEF Verify
  <2> DEFINE r == [run EXCEPT !.pc = "verified", !.results = results]
  <2>3. run = [pc |-> run.pc, policy |-> run.policy, plan |-> run.plan, artifact |-> run.artifact,
               cases |-> run.cases, results |-> run.results, assessment |-> run.assessment,
               authorization |-> run.authorization, ran |-> run.ran, row |-> run.row]
    BY <1>0 DEF RunShape
  <2>4. r = [pc |-> "verified", policy |-> run.policy, plan |-> run.plan, artifact |-> run.artifact,
             cases |-> run.cases, results |-> results, assessment |-> run.assessment,
             authorization |-> run.authorization, ran |-> run.ran, row |-> run.row]
    <3>1. r = [run EXCEPT !.pc = "verified", !.results = results]
      OBVIOUS
    <3> HIDE DEF run, r
    <3> QED BY <2>3, <3>1
  <2>5. swarm' = [swarm EXCEPT ![d] = r]
    BY <2>1
  <2> HIDE DEF r
  <2>6. RunShape(r)
    BY <1>0, <2>1, <2>4 DEF RunShape, SwarmPhases
  <2>7. RunSane(r) /\ ~ run.ran
    BY <1>0, <1>d, <2>2, <2>4 DEF RunSane, Acting, Authorized
  <2>a. r.pc # "off" /\ run.pc # "off" /\ mutex' \subseteq Keys /\ spends' \in [Keys -> Seq(Entries)]
    BY <1>0, <1>d, <2>2, <2>4
  <2>8. SwarmTypes' /\ Moved(d) /\ swarm'[d] = r
    BY <2>2, <2>5, <2>6, <2>7, <2>a, RunReplaced
  <2>9. Idles(d)
    BY <2>2, <2>4, <2>7, <2>8 DEF Idles, Holding
  <2> QED BY <2>8, <2>9 DEF Effect
<1>5. CASE AssessEntry(d)
  <2>1. run.pc = "verified" /\ run.pc \in Acting /\ UNCHANGED <<selected, packet, mutex, spends>>
    BY <1>5 DEF AssessEntry, Acting
  <2>2. \/ swarm' = [swarm EXCEPT ![d] = Raised(@)]
        \/ swarm' = [swarm EXCEPT ![d] = Recorded(@, "judged")]
        \/ \E a : swarm' = [swarm EXCEPT ![d] = [@ EXCEPT !.pc = "assessed", !.assessment = a]]
    BY <1>5 DEF AssessEntry
  <2>3. CASE swarm' = [swarm EXCEPT ![d] = Raised(@)]
    BY <1>a, <2>1, <2>3, RaiseStep DEF Effect
  <2>4. CASE swarm' = [swarm EXCEPT ![d] = Recorded(@, "judged")]
    BY <1>0, <1>a, <1>c, <2>1, <2>4, EndStep DEF Effect
  <2>5. ASSUME NEW a, swarm' = [swarm EXCEPT ![d] = [@ EXCEPT !.pc = "assessed", !.assessment = a]]
        PROVE  SwarmTypes' /\ Effect(d)
    <3> DEFINE r == [run EXCEPT !.pc = "assessed", !.assessment = a]
    <3>1. run = [pc |-> run.pc, policy |-> run.policy, plan |-> run.plan, artifact |-> run.artifact,
                 cases |-> run.cases, results |-> run.results, assessment |-> run.assessment,
                 authorization |-> run.authorization, ran |-> run.ran, row |-> run.row]
      BY <1>0 DEF RunShape
    <3>2. r = [pc |-> "assessed", policy |-> run.policy, plan |-> run.plan, artifact |-> run.artifact,
               cases |-> run.cases, results |-> run.results, assessment |-> a,
               authorization |-> run.authorization, ran |-> run.ran, row |-> run.row]
      <4>1. r = [run EXCEPT !.pc = "assessed", !.assessment = a]
        OBVIOUS
      <4> HIDE DEF run, r
      <4> QED BY <3>1, <4>1
    <3>3. swarm' = [swarm EXCEPT ![d] = r]
      BY <2>5
    <3> HIDE DEF r
    <3>4. RunShape(r)
      BY <1>0, <3>2 DEF RunShape, SwarmPhases
    <3>5. RunSane(r) /\ ~ run.ran
      BY <1>0, <1>a, <2>1, <3>2 DEF RunSane, Acting, Authorized
    <3>a. r.pc # "off" /\ run.pc # "off" /\ mutex' \subseteq Keys /\ spends' \in [Keys -> Seq(Entries)]
      BY <1>0, <2>1, <3>2
    <3>6. SwarmTypes' /\ Moved(d) /\ swarm'[d] = r
      BY <2>1, <3>3, <3>4, <3>5, <3>a, RunReplaced
    <3>7. Idles(d)
      BY <2>1, <3>2, <3>5, <3>6 DEF Idles, Holding
    <3> QED BY <3>6, <3>7 DEF Effect
  <2> QED BY <2>2, <2>3, <2>4, <2>5
<1>6. CASE DecideEntry(d)
  <2> DEFINE decision == Decide([routeHighRisk |-> FALSE], run.assessment, ActionOf(run.artifact), packet.risk)
  <2>1. run.pc = "assessed" /\ run.pc \in Acting /\ UNCHANGED <<selected, packet, mutex, spends>>
    BY <1>6 DEF DecideEntry, Acting
  <2>2. \/ swarm' = [swarm EXCEPT ![d] = Raised(@)]
        \/ swarm' = [swarm EXCEPT ![d] = Recorded(@, "rejected")]
        \/ /\ decision.outcome = "approve"
           /\ swarm' = [swarm EXCEPT ![d] = [@ EXCEPT !.pc = "check", !.authorization = decision.authorization]]
    BY <1>6 DEF DecideEntry
  <2>3. CASE swarm' = [swarm EXCEPT ![d] = Raised(@)]
    BY <1>a, <2>1, <2>3, RaiseStep DEF Effect
  <2>4. CASE swarm' = [swarm EXCEPT ![d] = Recorded(@, "rejected")]
    BY <1>0, <1>a, <1>c, <2>1, <2>4, EndStep DEF Effect
  <2>5. ASSUME decision.outcome = "approve",
               swarm' = [swarm EXCEPT ![d] = [@ EXCEPT !.pc = "check", !.authorization = decision.authorization]]
        PROVE  SwarmTypes' /\ Effect(d)
    <3> DEFINE a == decision.authorization
               r == [run EXCEPT !.pc = "check", !.authorization = a]
    <3>0. a.policy = selected
      <4>1. a # None
        BY <2>5, DecisionSays
      <4>2. a = Authorize(run.assessment, ActionOf(run.artifact))
        BY DEF Decide, GateDecision
      <4> QED BY <4>1, <4>2, AuthorizedUnder
    <3>1. run = [pc |-> run.pc, policy |-> run.policy, plan |-> run.plan, artifact |-> run.artifact,
                 cases |-> run.cases, results |-> run.results, assessment |-> run.assessment,
                 authorization |-> run.authorization, ran |-> run.ran, row |-> run.row]
      BY <1>0 DEF RunShape
    <3>3. swarm' = [swarm EXCEPT ![d] = r]
      BY <2>5
    <3> HIDE DEF a
    <3>2. r = [pc |-> "check", policy |-> run.policy, plan |-> run.plan, artifact |-> run.artifact,
               cases |-> run.cases, results |-> run.results, assessment |-> run.assessment,
               authorization |-> a, ran |-> run.ran, row |-> run.row]
      <4>1. r = [run EXCEPT !.pc = "check", !.authorization = a]
        OBVIOUS
      <4> HIDE DEF run, r
      <4> QED BY <3>1, <4>1
    <3> HIDE DEF r
    <3>4. RunShape(r)
      BY <1>0, <3>2 DEF RunShape, SwarmPhases
    <3>5. run.artifact \in Artifacts /\ ~ run.ran
      BY <1>0, <1>a, <2>1 DEF RunSane, Acting
    <3>6. KeyOf(r) \in Keys
      BY <1>0, <3>0, <3>2, <3>5 DEF KeyOf, Keys
    <3>7. RunSane(r)
      BY <1>a, <2>1, <3>2, <3>5, <3>6 DEF RunSane, Acting, Authorized
    <3>8. SwarmTypes' /\ Moved(d) /\ swarm'[d] = r
      BY <1>0, <2>1, <3>2, <3>3, <3>4, <3>7, RunReplaced
    <3>9. Idles(d)
      BY <2>1, <3>2, <3>5, <3>8 DEF Idles, Holding
    <3> QED BY <3>8, <3>9 DEF Effect
  <2> QED BY <2>2, <2>3, <2>4, <2>5
<1>7. CASE CheckSpend(d)
  <2>1. /\ run.pc = "check" /\ run.pc \in Acting /\ run.pc \in Authorized \ {"complete"}
        /\ UNCHANGED <<selected, packet, mutex, spends>>
        /\ Goto(d, "claim") \/ EndEntry(d)
    BY <1>7 DEF CheckSpend, Acting, Authorized
  <2>2. CASE Goto(d, "claim")
    <3>1. /\ SwarmTypes' /\ Moved(d) /\ swarm'[d].pc = "claim" /\ SameKey(d)
          /\ ~ swarm[d].ran /\ ~ swarm'[d].ran
      BY <1>0, <2>1, <2>2, GotoStep DEF Authorized
    <3>2. swarm'[d].ran = swarm[d].ran
      <4>1. SwarmTypes
        OBVIOUS
      <4> QED BY <3>1, <4>1 DEF SwarmTypes, RunShape
    <3> QED BY <2>1, <3>1, <3>2 DEF Effect, Idles, Holding
  <2>3. CASE EndEntry(d)
    BY <1>0, <1>a, <1>c, <2>1, <2>3, EndStep DEF Effect, EndEntry
  <2> QED BY <2>1, <2>2, <2>3
<1>8. CASE Claim(d)
  <2>1. /\ run.pc = "claim" /\ run.pc \in Acting /\ run.pc \in Authorized \ {"complete"}
        /\ UNCHANGED <<selected, packet, spends>>
        /\ mutex' = mutex \cup {KeyOf(run)}
        /\ IF KeyOf(run) \notin mutex THEN Goto(d, "spend") ELSE EndEntry(d)
    BY <1>8 DEF Claim, Acting, Authorized
  <2>2. mutex' \subseteq Keys
    BY <1>0, <1>b, <2>1
  <2>3. CASE KeyOf(run) \notin mutex
    <3>1. /\ SwarmTypes' /\ Moved(d) /\ swarm'[d].pc = "spend" /\ SameKey(d)
          /\ ~ swarm[d].ran /\ ~ swarm'[d].ran
      BY <1>0, <2>1, <2>2, <2>3, GotoStep DEF Authorized
    <3> QED BY <2>1, <2>3, <3>1 DEF Effect, Takes
  <2>4. CASE KeyOf(run) \in mutex
    <3>1. mutex' = mutex /\ EndEntry(d)
      BY <2>1, <2>4
    <3> QED BY <1>0, <1>a, <1>c, <2>1, <3>1, EndStep DEF Effect, EndEntry
  <2> QED BY <2>3, <2>4
<1>9. CASE ChainSpend(d)
  <2>1. /\ run.pc = "spend" /\ run.pc \in Authorized \ {"complete"} /\ run.pc \in Holding
        /\ Chain(d, SpendEntry(None)) /\ Goto(d, "execute") /\ UNCHANGED <<selected, packet, mutex>>
    BY <1>9 DEF ChainSpend, Authorized, Holding
  <2>2. /\ spends' \in [Keys -> Seq(Entries)]
        /\ \A k \in Keys : DoneIn(spends'[k]) <=> DoneIn(spends[k])
    BY <1>b, <2>1, ChainStep, EntriesAre
  <2>3. /\ SwarmTypes' /\ Moved(d) /\ swarm'[d].pc = "execute" /\ SameKey(d)
        /\ ~ swarm[d].ran /\ ~ swarm'[d].ran
    BY <1>0, <2>1, <2>2, GotoStep DEF Authorized
  <2>4. swarm'[d].ran = swarm[d].ran
    BY <2>3 DEF SwarmTypes, RunShape
  <2> QED BY <2>1, <2>2, <2>3, <2>4 DEF Effect, Idles
<1>10. CASE Execute(d)
  <2>1. /\ run.pc = "execute" /\ run.pc \in Authorized \ {"complete"} /\ run.pc \in Holding
        /\ UNCHANGED <<selected, packet, mutex, spends>>
        /\ \/ \E x \in {"complete", "raised"} :
                 swarm' = [swarm EXCEPT ![d] = [@ EXCEPT !.pc = x, !.ran = TRUE]]
           \/ Goto(d, "release")
    BY <1>10 DEF Execute, Authorized, Holding
  <2>2. CASE Goto(d, "release")
    <3>1. /\ SwarmTypes' /\ Moved(d) /\ swarm'[d].pc = "release" /\ SameKey(d)
          /\ ~ swarm[d].ran /\ ~ swarm'[d].ran
      BY <1>0, <2>1, <2>2, GotoStep DEF Authorized
    <3>2. swarm'[d].ran = swarm[d].ran
      BY <3>1 DEF SwarmTypes, RunShape
    <3> QED BY <2>1, <3>1, <3>2 DEF Effect, Idles
  <2>3. ASSUME NEW x \in {"complete", "raised"},
               swarm' = [swarm EXCEPT ![d] = [@ EXCEPT !.pc = x, !.ran = TRUE]]
        PROVE  SwarmTypes' /\ Effect(d)
    <3> DEFINE r == [run EXCEPT !.pc = x, !.ran = TRUE]
    <3>1. run = [pc |-> run.pc, policy |-> run.policy, plan |-> run.plan, artifact |-> run.artifact,
                 cases |-> run.cases, results |-> run.results, assessment |-> run.assessment,
                 authorization |-> run.authorization, ran |-> run.ran, row |-> run.row]
      BY <1>0 DEF RunShape
    <3>2. r = [pc |-> x, policy |-> run.policy, plan |-> run.plan, artifact |-> run.artifact,
               cases |-> run.cases, results |-> run.results, assessment |-> run.assessment,
               authorization |-> run.authorization, ran |-> TRUE, row |-> run.row]
      <4>1. r = [run EXCEPT !.pc = x, !.ran = TRUE]
        OBVIOUS
      <4> HIDE DEF run, r
      <4> QED BY <3>1, <4>1
    <3>3. swarm' = [swarm EXCEPT ![d] = r]
      BY <2>3
    <3> HIDE DEF r
    <3>4. RunShape(r)
      BY <1>0, <3>2 DEF RunShape, SwarmPhases
    <3>5. KeyOf(r) = KeyOf(run) /\ KeyOf(run) \in Keys
      BY <1>b, <2>1, <3>2 DEF KeyOf
    <3>6. RunSane(r) /\ ~ run.ran
      BY <1>0, <1>a, <2>1, <3>2, <3>5 DEF RunSane, Acting, Authorized
    <3>a. r.pc # "off" /\ run.pc # "off" /\ mutex' \subseteq Keys /\ spends' \in [Keys -> Seq(Entries)]
      BY <1>0, <2>1, <3>2
    <3>7. SwarmTypes' /\ Moved(d) /\ swarm'[d] = r
      BY <2>1, <3>3, <3>4, <3>6, <3>a, RunReplaced
    <3>8. RunsIt(d)
      BY <2>1, <3>2, <3>5, <3>6, <3>7 DEF RunsIt, SameKey
    <3> QED BY <3>7, <3>8 DEF Effect
  <2> QED BY <2>1, <2>2, <2>3
<1>11. CASE Complete(d)
  <2>1. /\ run.pc = "complete" /\ run.pc \in Authorized /\ run.pc \in Acting
        /\ Chain(d, CompletedEntry(None)) /\ UNCHANGED <<selected, packet, mutex>>
        /\ swarm' = [swarm EXCEPT ![d] = Recorded(@, "executed")]
    BY <1>11 DEF Complete, EndEntry, Authorized, Acting
  <2>2. /\ spends' \in [Keys -> Seq(Entries)]
        /\ \A k \in Keys \ {KeyOf(run)} : spends'[k] = spends[k]
        /\ DoneIn(spends'[KeyOf(run)])
    BY <1>b, <2>1, ChainStep, EntriesAre
  <2> DEFINE r == Recorded(run, "executed")
  <2>3. run.ran
    BY <1>0, <2>1 DEF RunSane
  <2>4. /\ RunShape(r) /\ RunSane(r) /\ r.pc = "next" /\ r.ran = run.ran /\ KeyOf(r) = KeyOf(run)
    BY <1>0, <1>a, <1>c, <2>1, <2>3, RecordedRun
  <2>5. swarm' = [swarm EXCEPT ![d] = r]
    BY <2>1
  <2> HIDE DEF r
  <2>6. SwarmTypes' /\ Moved(d) /\ swarm'[d] = r
    BY <1>0, <1>a, <2>1, <2>2, <2>4, <2>5, RunReplaced
  <2>7. Reports(d)
    BY <2>1, <2>2, <2>3, <2>4, <2>6 DEF Reports, SameKey
  <2> QED BY <2>6, <2>7 DEF Effect
<1>12. CASE Release(d)
  <2>1. /\ run.pc = "release" /\ run.pc \in Authorized \ {"complete"}
        /\ mutex' = mutex \ {KeyOf(run)} /\ Goto(d, "chain_release") /\ UNCHANGED <<selected, packet, spends>>
    BY <1>12 DEF Release, Authorized
  <2>2. mutex' \subseteq Keys
    BY <1>0, <2>1
  <2>3. /\ SwarmTypes' /\ Moved(d) /\ swarm'[d].pc = "chain_release" /\ SameKey(d)
        /\ ~ swarm[d].ran /\ ~ swarm'[d].ran
    BY <1>0, <2>1, <2>2, GotoStep DEF Authorized
  <2> QED BY <2>1, <2>3 DEF Effect, Returns
<1>13. CASE ChainRelease(d)
  <2>1. /\ run.pc = "chain_release" /\ run.pc \in Authorized /\ run.pc \in Acting
        /\ Chain(d, ReleaseEntry) /\ UNCHANGED <<selected, packet, mutex>>
        /\ swarm' = [swarm EXCEPT ![d] = Recorded(@, "executed")]
    BY <1>13 DEF ChainRelease, EndEntry, Authorized, Acting
  <2>2. /\ spends' \in [Keys -> Seq(Entries)]
        /\ \A k \in Keys : DoneIn(spends'[k]) <=> DoneIn(spends[k])
    BY <1>b, <2>1, ChainStep, EntriesAre
  <2> QED BY <1>a, <1>c, <2>1, <2>2, EndStep DEF Effect
<1>14. CASE CrashDriver(d)
  <2>1. /\ run.pc # "off" /\ swarm' = [swarm EXCEPT ![d] = Raised(@)]
        /\ UNCHANGED <<selected, packet, mutex, spends>>
    BY <1>14 DEF CrashDriver
  <2> QED BY <2>1, RaiseStep DEF Effect
<1> QED BY <1>1, <1>2, <1>3, <1>4, <1>5, <1>6, <1>7, <1>8, <1>9, <1>10, <1>11, <1>12, <1>13, <1>14


\* Steps of the other runtimes, and of the policy supplier.
LEMMA SwarmTypesStep ==
    ASSUME SwarmTypes, [Next]_vars
    PROVE  /\ SwarmTypes'
           /\ UNCHANGED <<swarm, mutex, spends>> \/ \E d \in Drivers : Effect(d)
<1>1. CASE SwarmNext
  <2>1. PICK d \in Drivers :
           \/ Start(d) \/ JudgeHypothesis(d) \/ Unresolved(d) \/ Verify(d) \/ AssessEntry(d)
           \/ DecideEntry(d) \/ CheckSpend(d) \/ Claim(d) \/ ChainSpend(d) \/ Execute(d)
           \/ Complete(d) \/ Release(d) \/ ChainRelease(d) \/ CrashDriver(d)
    BY <1>1 DEF SwarmNext
  <2>2. SwarmTypes' /\ Effect(d)
    BY <2>1, DriverStep
  <2> QED BY <2>2
<1>2. CASE UNCHANGED swarmVars /\ selected' \in Policies
  <2>1. UNCHANGED <<packet, swarm, mutex, spends>>
    BY <1>2 DEF swarmVars
  <2>2. /\ swarm' = [d \in Drivers |-> swarm'[d]] /\ mutex' \subseteq Keys
        /\ spends' \in [Keys -> Seq(Entries)] /\ packet' \in Packets \cup {None}
    BY <2>1 DEF SwarmTypes
  <2>3. \A d \in Drivers : /\ RunShape(swarm'[d]) /\ RunSane(swarm'[d])
                           /\ swarm'[d].pc # "off" => packet' \in Packets
    BY <2>1 DEF SwarmTypes
  <2> QED BY <1>2, <2>1, <2>2, <2>3 DEF SwarmTypes
<1>3. SwarmNext \/ (UNCHANGED swarmVars /\ selected' \in Policies)
  <2>1. selected \in Policies
    BY DEF SwarmTypes
  <2>2. CASE WorkflowNext /\ UNCHANGED <<rotations, swarmVars, loopVars>>
    BY <2>1, <2>2 DEF WorkflowNext, StartWorkflow, HaltStep, GradeStep, AssessStep, SubmitStep
  <2>3. CASE Rotation
    BY <2>3 DEF Rotation, Rotate
  <2>4. CASE UNCHANGED <<selected, swarmVars>>
    BY <2>1, <2>4
  <2> QED BY <2>2, <2>3, <2>4 DEF Next, vars
<1> QED BY <1>1, <1>2, <1>3

\* No driver has begun: nothing is claimed, nothing has run.
LEMMA SwarmTypesStart ==
    ASSUME Init
    PROVE  /\ SwarmTypes /\ mutex = {} /\ spends = [k \in Keys |-> <<>>]
           /\ \A d \in Drivers : swarm[d].pc \in {"off", "ready"} /\ ~ swarm[d].ran
<1>1. PICK deployed \in Deployments :
        /\ selected \in IF "loop" \in deployed THEN {CHOOSE p \in Policies : TRUE} ELSE Policies
        /\ SwarmInit(deployed)
  BY DEF Init
<1>2. selected \in Policies
  BY <1>1, ProfilesAssumption
<1>3. /\ packet \in IF deployed \cap Drivers = {} THEN {None} ELSE Packets
      /\ swarm = [d \in Drivers |-> [NoRun EXCEPT !.pc = IF d \in deployed THEN "ready" ELSE "off"]]
      /\ mutex = {} /\ spends = [k \in Keys |-> <<>>]
  BY <1>1 DEF SwarmInit
<1>4. ASSUME NEW d \in Drivers
      PROVE  /\ RunShape(swarm[d]) /\ RunSane(swarm[d]) /\ swarm[d].pc \in {"off", "ready"}
             /\ ~ swarm[d].ran
             /\ swarm[d].pc # "off" => packet \in Packets
  <2> DEFINE x == IF d \in deployed THEN "ready" ELSE "off"
  <2>1. swarm[d] = [pc |-> x, policy |-> None, plan |-> <<>>, artifact |-> None, cases |-> FALSE,
                    results |-> <<>>, assessment |-> None, authorization |-> None, ran |-> FALSE,
                    row |-> None]
    BY <1>3 DEF NoRun
  <2>2. x \in {"off", "ready"} /\ (x # "off" => packet \in Packets)
    BY <1>3
  <2> HIDE DEF x
  <2>3. RunShape(swarm[d])
    BY <2>1, <2>2 DEF RunShape, SwarmPhases, SwarmRows, Plans
  <2>4. RunSane(swarm[d])
    BY <2>1, <2>2 DEF RunSane, Acting, Authorized
  <2> QED BY <2>1, <2>2, <2>3, <2>4
<1>5. spends \in [Keys -> Seq(Entries)]
  BY <1>3
<1>6. SwarmTypes
  <2>1. /\ swarm = [d \in Drivers |-> swarm[d]] /\ mutex \subseteq Keys
        /\ packet \in Packets \cup {None}
    BY <1>3
  <2> QED BY <1>2, <1>4, <1>5, <2>1 DEF SwarmTypes
<1> QED BY <1>3, <1>4, <1>6

-----------------------------------------------------------------------------
(* The swarm implements SingleUse.                                          *)

\* A run that has its key, or has had its effect under it.
Using(run) == run.pc \in Holding \/ run.ran

\* Whoever uses a key has the row of it in the table, and alone; a key with an
\* outcome keeps its row, and nobody has it to run under.
UseInv ==
    /\ \A d \in Drivers : Using(swarm[d]) => KeyOf(swarm[d]) \in mutex
    /\ \A d, e \in Drivers :
          Using(swarm[d]) /\ Using(swarm[e]) /\ KeyOf(swarm[d]) = KeyOf(swarm[e]) => d = e
    /\ \A k \in Keys : DoneIn(spends[k]) =>
          k \in mutex /\ \A d \in Drivers : swarm[d].pc \in Holding => KeyOf(swarm[d]) # k

\* A driver's step leaves every key with one user at most.
LEMMA UseStep ==
    ASSUME SwarmTypes, UseInv, NEW d \in Drivers, Effect(d)
    PROVE  UseInv'
<1> DEFINE key == KeyOf(swarm[d])
<1>0. \A e \in Drivers : e # d => swarm'[e] = swarm[e]
  BY DEF Effect, Moved
<1>k. \A e \in Drivers : Using(swarm[e]) => KeyOf(swarm[e]) \in Keys
  BY DEF SwarmTypes, UseInv
<1>1. CASE Idles(d)
  <2>1. Using(swarm'[d]) => Using(swarm[d]) /\ KeyOf(swarm'[d]) = KeyOf(swarm[d])
    BY <1>1 DEF Idles, SameKey, Using
  <2>2. \A e \in Drivers : Using(swarm'[e]) => Using(swarm[e]) /\ KeyOf(swarm'[e]) = KeyOf(swarm[e])
    BY <1>0, <2>1
  <2>3. \A e \in Drivers : swarm'[e].pc \in Holding =>
            swarm[e].pc \in Holding /\ KeyOf(swarm'[e]) = KeyOf(swarm[e])
    BY <1>0, <1>1 DEF Idles, SameKey
  <2>4. mutex' = mutex /\ \A k \in Keys : DoneIn(spends'[k]) <=> DoneIn(spends[k])
    BY <1>1 DEF Idles
  <2> QED BY <2>2, <2>3, <2>4 DEF UseInv
<1>2. CASE Takes(d)
  <2>1. /\ key \notin mutex /\ mutex' = mutex \cup {key} /\ spends' = spends
        /\ KeyOf(swarm'[d]) = key
    BY <1>2 DEF Takes, SameKey
  <2>2. \A e \in Drivers : Using(swarm[e]) => KeyOf(swarm[e]) # key
    BY <2>1 DEF UseInv
  <2>3. \A k \in Keys : DoneIn(spends[k]) => k # key
    BY <2>1 DEF UseInv
  <2> HIDE DEF key
  <2> QED BY <1>0, <2>1, <2>2, <2>3 DEF UseInv, Using
<1>3. CASE RunsIt(d)
  <2>1. /\ KeyOf(swarm'[d]) = key /\ Using(swarm[d]) /\ swarm[d].pc \in Holding
        /\ mutex' = mutex /\ spends' = spends
    BY <1>3 DEF RunsIt, SameKey, Using, Holding
  <2>2. \A e \in Drivers : Using(swarm'[e]) => Using(swarm[e]) /\ KeyOf(swarm'[e]) = KeyOf(swarm[e])
    BY <1>0, <2>1
  <2>3. \A e \in Drivers : swarm'[e].pc \in Holding =>
            swarm[e].pc \in Holding /\ KeyOf(swarm'[e]) = KeyOf(swarm[e])
    BY <1>0, <2>1
  <2> QED BY <2>1, <2>2, <2>3 DEF UseInv
<1>4. CASE Reports(d)
  <2>1. /\ KeyOf(swarm'[d]) = key /\ Using(swarm[d]) /\ swarm'[d].pc = "next"
        /\ mutex' = mutex /\ \A k \in Keys \ {key} : spends'[k] = spends[k]
    BY <1>4 DEF Reports, SameKey, Using, Holding
  <2>2. \A e \in Drivers : Using(swarm'[e]) => Using(swarm[e]) /\ KeyOf(swarm'[e]) = KeyOf(swarm[e])
    BY <1>0, <2>1
  <2>3. \A e \in Drivers : swarm'[e].pc \in Holding => e # d /\ swarm[e].pc \in Holding /\ swarm'[e] = swarm[e]
    BY <1>0, <2>1 DEF Holding
  <2>4. key \in mutex /\ \A e \in Drivers : Using(swarm[e]) /\ e # d => KeyOf(swarm[e]) # key
    BY <2>1 DEF UseInv
  <2>5. \A k \in Keys : DoneIn(spends'[k]) =>
            k \in mutex' /\ \A e \in Drivers : swarm'[e].pc \in Holding => KeyOf(swarm'[e]) # k
    <3> HIDE DEF key
    <3> QED BY <2>1, <2>3, <2>4 DEF UseInv, Using
  <2> QED BY <2>1, <2>2, <2>5 DEF UseInv
<1>5. CASE Returns(d)
  <2>1. /\ Using(swarm[d]) /\ swarm[d].pc \in Holding /\ ~ Using(swarm'[d])
        /\ swarm'[d].pc \notin Holding
        /\ mutex' = mutex \ {key} /\ spends' = spends
    BY <1>5 DEF Returns, Using, Holding
  <2>2. \A e \in Drivers : Using(swarm'[e]) => e # d /\ Using(swarm[e]) /\ swarm'[e] = swarm[e]
    BY <1>0, <2>1
  <2>3. \A e \in Drivers : Using(swarm[e]) /\ e # d => KeyOf(swarm[e]) # key
    BY <2>1 DEF UseInv
  <2>4. \A k \in Keys : DoneIn(spends[k]) => k # key
    BY <2>1 DEF UseInv
  <2>5. \A e \in Drivers : swarm'[e].pc \in Holding => swarm'[e] = swarm[e]
    BY <1>0, <2>1
  <2> HIDE DEF key
  <2> QED BY <2>1, <2>2, <2>3, <2>4, <2>5 DEF UseInv
<1> QED BY <1>1, <1>2, <1>3, <1>4, <1>5 DEF Effect

\* The abstract variables of one key under the mapping.
RecordOf(k) ==
    CASE \E i \in DOMAIN spends[k] : spends[k][i].event = "outcome" -> "done"
      [] k \in mutex /\ \A i \in DOMAIN spends[k] : spends[k][i].event # "outcome" -> "claimed"
      [] OTHER -> "open"
RanUnder(k) == {d \in Drivers : swarm[d].ran /\ KeyOf(swarm[d]) = k}

\* What the two are, by the keys in use.
LEMMA RecordIs ==
    ASSUME NEW k
    PROVE  RecordOf(k) = IF DoneIn(spends[k]) THEN "done" ELSE IF k \in mutex THEN "claimed" ELSE "open"
BY DEF RecordOf, DoneIn

\* The same of the state after the step.
LEMMA RecordBecomes ==
    ASSUME NEW k
    PROVE  RecordOf(k)' = IF DoneIn(spends'[k]) THEN "done"
                          ELSE IF k \in mutex' THEN "claimed" ELSE "open"
BY DEF RecordOf, DoneIn

\* Every effect of a step on the authorizations is one that SingleUse allows.
LEMMA SpendingStep ==
    ASSUME SwarmTypes, UseInv, NEW d \in Drivers, Effect(d)
    PROVE  [Spending!SingleUseNext]_(Spending!singleUseVars)
<1> DEFINE key == KeyOf(swarm[d])
           rec == [k \in Keys |-> RecordOf(k)]
           eff == [k \in Keys |-> Cardinality(RanUnder(k))]
           recP == [k \in Keys |-> RecordOf(k)']
           effP == [k \in Keys |-> Cardinality(RanUnder(k)')]
<1>0. \A e \in Drivers : e # d => swarm'[e] = swarm[e]
  BY DEF Effect, Moved
<1>a. ASSUME rec = recP, eff = effP
      PROVE  UNCHANGED Spending!singleUseVars
  BY <1>a DEF Spending!singleUseVars, RecordOf, RanUnder
<1>b. ASSUME NEW k \in Keys, rec[k] = "open", recP = [rec EXCEPT ![k] = "claimed"], effP = eff
      PROVE  Spending!SingleUseNext
  <2>1. Spending!Claim(k)
    BY <1>b DEF Spending!Claim, Spending!Moves, RecordOf, RanUnder
  <2> QED BY <2>1 DEF Spending!SingleUseNext
<1>c. ASSUME NEW k \in Keys, rec[k] = "claimed", eff[k] = 0, recP = rec,
             effP = [eff EXCEPT ![k] = 1]
      PROVE  Spending!SingleUseNext
  <2>1. Spending!TakeEffect(k)
    BY <1>c DEF Spending!TakeEffect, RecordOf, RanUnder
  <2> QED BY <2>1 DEF Spending!SingleUseNext
<1>d. ASSUME NEW k \in Keys, rec[k] = "claimed", recP = [rec EXCEPT ![k] = "open"],
             effP = eff, eff[k] = 0
      PROVE  Spending!SingleUseNext
  <2>1. Spending!GiveBack(k)
    BY <1>d DEF Spending!GiveBack, Spending!Moves, RecordOf, RanUnder
  <2> QED BY <2>1 DEF Spending!SingleUseNext
<1>e. ASSUME NEW k \in Keys, rec[k] = "claimed", recP = [rec EXCEPT ![k] = "done"], effP = eff
      PROVE  Spending!SingleUseNext
  <2>1. Spending!Settle(k)
    BY <1>e DEF Spending!Settle, Spending!Moves, RecordOf, RanUnder
  <2> QED BY <2>1 DEF Spending!SingleUseNext
<1>f. ASSUME swarm'[d].ran <=> swarm[d].ran, swarm[d].ran => SameKey(d)
      PROVE  effP = eff
  <2>1. \A k \in Keys : RanUnder(k)' = RanUnder(k)
    BY <1>0, <1>f DEF RanUnder, SameKey
  <2> QED BY <2>1
<1>g. swarm[d].pc \in Holding => /\ key \in Keys /\ key \in mutex /\ ~ DoneIn(spends[key])
                                 /\ \A e \in Drivers : swarm[e].ran /\ e # d => KeyOf(swarm[e]) # key
  BY DEF UseInv, Using, SwarmTypes
<1>h. swarm[d].pc \in Holding => rec[key] = "claimed"
  BY <1>g, RecordIs
<1>i. swarm[d].pc \in Holding /\ ~ swarm[d].ran => RanUnder(key) = {} /\ Cardinality(RanUnder(key)) = 0
  BY <1>g, FS_EmptySet DEF RanUnder
<1> HIDE DEF rec, eff, recP, effP
<1>1. CASE Idles(d)
  <2>1. effP = eff
    BY <1>1, <1>f DEF Idles
  <2>2. recP = rec
    BY <1>1, RecordIs, RecordBecomes DEF Idles, rec, recP
  <2> QED BY <1>a, <2>1, <2>2
<1>2. CASE Takes(d)
  <2>1. effP = eff
    BY <1>2, <1>f DEF Takes
  <2>2. key \in Keys
    BY <1>2 DEF Takes, SwarmTypes, RunSane, Authorized
  <2>3. key \notin mutex /\ ~ DoneIn(spends[key]) /\ spends' = spends /\ mutex' = mutex \cup {key}
    BY <1>2, <2>2 DEF Takes, UseInv
  <2> HIDE DEF key
  <2>4. rec[key] = "open" /\ recP = [rec EXCEPT ![key] = "claimed"]
    BY <2>2, <2>3, RecordIs, RecordBecomes DEF rec, recP
  <2> QED BY <1>b, <2>1, <2>2, <2>4
<1>3. CASE RunsIt(d)
  <2>1. /\ swarm[d].pc \in Holding /\ ~ swarm[d].ran /\ swarm'[d].ran /\ KeyOf(swarm'[d]) = key
        /\ mutex' = mutex /\ spends' = spends
    BY <1>3 DEF RunsIt, Holding, SameKey
  <2>2. recP = rec
    BY <2>1, RecordIs, RecordBecomes DEF rec, recP
  <2>3. \A k : k = key => RanUnder(k)' = {d}
    BY <1>0, <1>g, <2>1 DEF RanUnder
  <2>4. \A k \in Keys \ {key} : RanUnder(k)' = RanUnder(k)
    BY <1>0, <2>1 DEF RanUnder
  <2>5. \A k : k = key => Cardinality(RanUnder(k)') = 1
    BY <2>3, FS_Singleton
  <2>6. key \in Keys
    BY <1>g, <2>1
  <2>7. eff[key] = 0 /\ rec[key] = "claimed"
    BY <1>h, <1>i, <2>1, <2>6 DEF eff
  <2> HIDE DEF key
  <2>8. effP = [eff EXCEPT ![key] = 1]
    <3>1. \A k \in Keys : effP[k] = IF k = key THEN 1 ELSE eff[k]
      BY <2>4, <2>5 DEF eff, effP
    <3>2. effP = [k \in Keys |-> effP[k]] /\ eff = [k \in Keys |-> eff[k]]
      BY DEF eff, effP
    <3> QED BY <2>6, <3>1, <3>2
  <2> QED BY <1>c, <2>2, <2>6, <2>7, <2>8
<1>4. CASE Reports(d)
  <2>1. /\ swarm[d].pc \in Holding /\ mutex' = mutex /\ DoneIn(spends'[key])
        /\ \A k \in Keys \ {key} : spends'[k] = spends[k]
    BY <1>4 DEF Reports, Holding
  <2>2. effP = eff
    BY <1>4, <1>f DEF Reports
  <2>3. key \in Keys /\ rec[key] = "claimed"
    BY <1>g, <1>h, <2>1
  <2> HIDE DEF key
  <2>4. recP = [rec EXCEPT ![key] = "done"]
    BY <2>1, <2>3, RecordIs, RecordBecomes DEF rec, recP
  <2> QED BY <1>e, <2>2, <2>3, <2>4
<1>5. CASE Returns(d)
  <2>1. /\ swarm[d].pc \in Holding /\ mutex' = mutex \ {key} /\ spends' = spends
        /\ ~ swarm[d].ran /\ ~ swarm'[d].ran
    BY <1>5 DEF Returns, Holding
  <2>2. effP = eff
    BY <1>5, <1>f DEF Returns
  <2>3. key \in Keys /\ rec[key] = "claimed" /\ ~ DoneIn(spends[key])
    BY <1>g, <1>h, <2>1
  <2>4. eff[key] = 0
    BY <1>i, <2>1, <2>3 DEF eff
  <2> HIDE DEF key
  <2>5. recP = [rec EXCEPT ![key] = "open"]
    BY <2>1, <2>3, RecordIs, RecordBecomes DEF rec, recP
  <2> QED BY <1>d, <2>2, <2>3, <2>4, <2>5
<1> QED BY <1>1, <1>2, <1>3, <1>4, <1>5 DEF Effect

\* Drivers that run the same packet, however many and however their steps
\* interleave with crashes and rotations, execute its action at most once, and
\* give an authorization back only where it was not executed (_execute_once,
\* claim_authorization, release_authorization).
THEOREM SwarmIsSingleUse == Spec => SwarmSingleUse
<1>1. Init => SwarmTypes /\ UseInv
  <2> SUFFICES ASSUME Init PROVE SwarmTypes /\ UseInv
    OBVIOUS
  <2>1. /\ SwarmTypes /\ mutex = {} /\ spends = [k \in Keys |-> <<>>]
        /\ \A d \in Drivers : swarm[d].pc \in {"off", "ready"} /\ ~ swarm[d].ran
    BY SwarmTypesStart
  <2>2. \A d \in Drivers : ~ Using(swarm[d])
    BY <2>1 DEF Using, Holding
  <2>3. \A k \in Keys : ~ DoneIn(spends[k])
    BY <2>1 DEF DoneIn
  <2> QED BY <2>1, <2>2, <2>3 DEF UseInv
<1>2. Init => Spending!SingleUseInit
  <2> SUFFICES ASSUME Init PROVE Spending!SingleUseInit
    OBVIOUS
  <2>1. /\ mutex = {} /\ spends = [k \in Keys |-> <<>>]
        /\ \A d \in Drivers : ~ swarm[d].ran
    BY SwarmTypesStart
  <2>2. \A k \in Keys : ~ DoneIn(spends[k])
    BY <2>1 DEF DoneIn
  <2>3. \A k \in Keys : RecordOf(k) = "open"
    BY <2>1, <2>2, RecordIs
  <2>4. \A k \in Keys : RanUnder(k) = {}
    BY <2>1 DEF RanUnder
  <2>5. \A k \in Keys : Cardinality(RanUnder(k)) = 0
    BY <2>4, FS_EmptySet
  <2> QED BY <2>3, <2>5 DEF Spending!SingleUseInit, RecordOf, RanUnder
<1>3. SwarmTypes /\ UseInv /\ [Next]_vars =>
        SwarmTypes' /\ UseInv' /\ [Spending!SingleUseNext]_(Spending!singleUseVars)
  <2> SUFFICES ASSUME SwarmTypes, UseInv, [Next]_vars
               PROVE  SwarmTypes' /\ UseInv' /\ [Spending!SingleUseNext]_(Spending!singleUseVars)
    OBVIOUS
  <2>1. SwarmTypes' /\ (UNCHANGED <<swarm, mutex, spends>> \/ \E d \in Drivers : Effect(d))
    BY SwarmTypesStep
  <2>2. CASE UNCHANGED <<swarm, mutex, spends>>
    <3>1. UseInv'
      BY <2>2 DEF UseInv
    <3>2. UNCHANGED Spending!singleUseVars
      BY <2>2 DEF Spending!singleUseVars
    <3> QED BY <2>1, <3>1, <3>2
  <2>3. CASE \E d \in Drivers : Effect(d)
    BY <2>1, <2>3, UseStep, SpendingStep
  <2> QED BY <2>1, <2>2, <2>3
<1> QED BY <1>1, <1>2, <1>3, PTL DEF Spec, SwarmSingleUse, Spending!SingleUseSpec

-----------------------------------------------------------------------------
(* What coverage and an approval mean.                                      *)

\* A requirement without a problem has an authoritative PASS to its name.
LEMMA RequirementMet ==
    ASSUME NEW requirement, NEW results, RequirementProblem(requirement, results) = "none"
    PROVE  \E r \in ToSet(results) : r.check = requirement.check /\ Satisfies(r.outcome)
<1> DEFINE outcomes == {r.outcome : r \in {s \in ToSet(results) : s.check = requirement.check}}
           verdicts == {o.says : o \in outcomes} \cap Verdicts
           certain  == \E o \in outcomes : Satisfies(o)
<1>1. RequirementProblem(requirement, results) =
        CASE Cardinality(verdicts) > 1 -> "ambiguous"
          [] verdicts = {"FAIL"} -> "unsatisfactory"
          [] verdicts = {"PASS"} /\ certain -> "none"
          [] verdicts = {"PASS"} /\ ~certain -> "advisory_only"
          [] verdicts = {"ABSTAIN"} -> "abstained"
          [] verdicts = {} -> "incomplete"
  BY DEF RequirementProblem
<1>2. verdicts \subseteq {"PASS", "FAIL", "ABSTAIN"}
  BY DEF Verdicts
<1>3. certain => \E r \in ToSet(results) : r.check = requirement.check /\ Satisfies(r.outcome)
  OBVIOUS
<1> HIDE DEF verdicts, certain
<1>4. \/ Cardinality(verdicts) > 1 \/ verdicts = {"PASS"} \/ verdicts = {"FAIL"}
      \/ verdicts = {"ABSTAIN"} \/ verdicts = {}
  <2>1. IsFiniteSet({"PASS", "FAIL", "ABSTAIN"})
    <3>1. IsFiniteSet({"PASS"})
      BY FS_Singleton
    <3>2. IsFiniteSet({"PASS"} \cup {"FAIL"})
      BY <3>1, FS_AddElement
    <3>3. IsFiniteSet(({"PASS"} \cup {"FAIL"}) \cup {"ABSTAIN"})
      BY <3>2, FS_AddElement
    <3>4. {"PASS", "FAIL", "ABSTAIN"} = ({"PASS"} \cup {"FAIL"}) \cup {"ABSTAIN"}
      OBVIOUS
    <3> QED BY <3>3, <3>4
  <2>2. IsFiniteSet(verdicts) /\ Cardinality(verdicts) \in Nat
    BY <1>2, <2>1, FS_Subset, FS_CardinalityType
  <2>3. ASSUME NEW a \in verdicts, NEW b \in verdicts, a # b
        PROVE  Cardinality(verdicts) > 1
    <3>1. Cardinality({a}) = 1 /\ {a} \subseteq verdicts /\ {a} # verdicts
      BY <2>3, FS_Singleton
    <3> QED BY <2>2, <3>1, FS_Subset
  <2>4. CASE \E a, b \in verdicts : a # b
    BY <2>3, <2>4
  <2>5. CASE \A a, b \in verdicts : a = b
    BY <1>2, <2>5
  <2> QED BY <2>4, <2>5
<1>5. certain
  BY <1>1, <1>4
<1> QED BY <1>3, <1>5

\* A result without a problem is about this attempt, and by an implementation
\* that every requirement of its check permits.
LEMMA ResultMet ==
    ASSUME NEW snapshot, NEW results, NEW i, ResultProblem(snapshot, results, i) = "none"
    PROVE  /\ results[i].digest = snapshot
           /\ \A q \in Required(snapshot, results[i].check) : results[i].implementation \in q.permitted
           /\ results[i].outcome.by = results[i].implementation
BY DEF ResultProblem, SameDigest

\* Results without a problem answer every requirement.
LEMMA CoverageMet ==
    ASSUME NEW snapshot, NEW results, DOMAIN results \subseteq Nat,
           DOMAIN snapshot.requires \subseteq Nat, CoverageProblem(snapshot, results) = "none"
    PROVE  \A q \in ToSet(snapshot.requires) : AnsweredBy(results, q, snapshot)
<1> DEFINE rejected == {i \in DOMAIN results : ResultProblem(snapshot, results, i) # "none"}
           unmet    == {i \in DOMAIN snapshot.requires :
                          RequirementProblem(snapshot.requires[i], results) # "none"}
<1>1. CoverageProblem(snapshot, results) =
        CASE rejected # {} -> ResultProblem(snapshot, results, Min(rejected))
          [] rejected = {} /\ unmet # {} ->
                RequirementProblem(snapshot.requires[Min(unmet)], results)
          [] OTHER -> "none"
  BY DEF CoverageProblem
<1>2. rejected = {}
  <2>1. ASSUME rejected # {} PROVE FALSE
    <3>1. Min(rejected) \in rejected
      BY <2>1, MinIsLeast
    <3>2. ResultProblem(snapshot, results, Min(rejected)) # "none"
      BY <3>1
    <3> HIDE DEF rejected
    <3> QED BY <1>1, <2>1, <3>2
  <2> QED BY <2>1
<1>3. unmet = {}
  <2>1. ASSUME unmet # {} PROVE FALSE
    <3>1. Min(unmet) \in unmet
      BY <2>1, MinIsLeast
    <3>2. RequirementProblem(snapshot.requires[Min(unmet)], results) # "none"
      BY <3>1
    <3> HIDE DEF rejected, unmet
    <3> QED BY <1>1, <1>2, <2>1, <3>2
  <2> QED BY <2>1
<1>4. ASSUME NEW q \in ToSet(snapshot.requires) PROVE AnsweredBy(results, q, snapshot)
  <2>1. RequirementProblem(q, results) = "none"
    BY <1>3 DEF ToSet
  <2>2. PICK r \in ToSet(results) : r.check = q.check /\ Satisfies(r.outcome)
    BY <2>1, RequirementMet
  <2>3. PICK i \in DOMAIN results : r = results[i]
    BY <2>2 DEF ToSet
  <2>4. ResultProblem(snapshot, results, i) = "none"
    BY <1>2
  <2>5. /\ r.digest = snapshot /\ r.outcome.by = r.implementation
        /\ \A p \in Required(snapshot, r.check) : r.implementation \in p.permitted
    BY <2>3, <2>4, ResultMet
  <2>6. q \in Required(snapshot, r.check)
    BY <2>2 DEF Required
  <2> QED BY <2>2, <2>5, <2>6 DEF AnsweredBy, Satisfies
<1> QED BY <1>4

\* What the gate approves is authorized under the policy selected now, for the
\* snapshot that was assessed, on an authoritative PASS of enough confidence.
LEMMA Approved ==
    ASSUME NEW gate, NEW assessment, NEW action, NEW risk,
           Decide(gate, assessment, action, risk).outcome = "approve"
    PROVE  /\ Authorize(assessment, action) # None
           /\ Decide(gate, assessment, action, risk).authorization = Authorize(assessment, action)
           /\ assessment.outcome.kind # "unavailable"
           /\ assessment.outcome.verdict = "PASS" /\ assessment.outcome.authoritative
           /\ ~ Below(assessment.outcome.odds, 3, 4)
<1> DEFINE authorization == Authorize(assessment, action)
           outcome == CASE authorization = None -> "raised"
                        [] authorization # None /\ assessment.outcome.kind = "unavailable" ->
                             "unavailable"
                        [] OTHER -> GateOutcome(gate, assessment.outcome, risk)
<1>1. Decide(gate, assessment, action, risk) = [outcome |-> outcome, authorization |-> authorization]
  BY DEF Decide, GateDecision
<1>2. outcome = "approve"
  BY <1>1
<1> HIDE DEF authorization
<1>3. /\ authorization # None /\ assessment.outcome.kind # "unavailable"
      /\ GateOutcome(gate, assessment.outcome, risk) = "approve"
  BY <1>2
<1>4. /\ assessment.outcome.verdict = "PASS" /\ assessment.outcome.authoritative
      /\ ~ Below(assessment.outcome.odds, 3, 4)
  BY <1>3 DEF GateOutcome
<1> QED BY <1>1, <1>3, <1>4 DEF authorization

\* A judgment that is a PASS was made of covered results.
LEMMA JudgedOnCover ==
    ASSUME NEW t, NEW snapshot, NEW results,
           JudgeWithCoverage(t, snapshot, results).kind # "unavailable",
           JudgeWithCoverage(t, snapshot, results).verdict = "PASS"
    PROVE  /\ CoverageProblem(snapshot, results) = "none"
           /\ JudgeWithCoverage(t, snapshot, results) =
                 Judge(t, Graded([i \in DOMAIN results |-> results[i].outcome])).outcome
BY DEF JudgeWithCoverage, Unavailable, Judgment

-----------------------------------------------------------------------------
(* What the bank makes of one outcome or two.                               *)

Keep(items, set, n, s) == IF items[n] \in set THEN Append(s, items[n]) ELSE s

\* Among goes through the outcomes one by one.
LEMMA AmongUnfolds ==
    ASSUME NEW items, NEW set, Len(items) \in 0..2
    PROVE  Among(items, set) =
              IF Len(items) = 0 THEN <<>>
              ELSE IF Len(items) = 1 THEN Keep(items, set, 1, <<>>)
              ELSE Keep(items, set, 2, Keep(items, set, 1, <<>>))
<1> DEFINE m == Len(items)
           z1 == Keep(items, set, 1, <<>>)
           z2 == Keep(items, set, 2, z1)
           w == [n \in 0..m |-> IF n = 0 THEN <<>> ELSE IF n = 1 THEN z1 ELSE z2]
           F(f) == [n \in 0..m |-> IF n = 0 THEN <<>> ELSE Keep(items, set, n, f[n - 1])]
           c == CHOOSE f : f = F(f)
<1>0. m = 0 \/ m = 1 \/ m = 2
  OBVIOUS
<1>1. Among(items, set) = c[m]
  BY DEF Among, Keep
<1> HIDE DEF m
<1>2. w = F(w)
  <2>1. \A n \in 0..m : w[n] = IF n = 0 THEN <<>> ELSE Keep(items, set, n, w[n - 1])
    <3>1. ASSUME NEW n \in 0..m PROVE w[n] = IF n = 0 THEN <<>> ELSE Keep(items, set, n, w[n - 1])
      <4>1. n = 0 \/ n = 1 \/ n = 2
        BY <1>0
      <4>2. CASE n = 0
        BY <4>2
      <4>3. CASE n = 1
        <5>1. w[n] = z1 /\ w[n - 1] = <<>>
          BY <1>0, <4>3
        <5> HIDE DEF w
        <5> QED BY <4>3, <5>1
      <4>4. CASE n = 2
        <5>1. w[n] = z2 /\ w[n - 1] = z1
          BY <1>0, <4>4
        <5> HIDE DEF w, z1
        <5> QED BY <4>4, <5>1
      <4> QED BY <4>1, <4>2, <4>3, <4>4
    <3> QED BY <3>1
  <2>2. w = [n \in 0..m |-> w[n]]
    OBVIOUS
  <2> HIDE DEF w
  <2> QED BY <2>1, <2>2
<1>3. c = F(c)
  <2> HIDE DEF w
  <2> QED BY <1>2
<1> HIDE DEF c
<1>4. /\ c[0] = <<>> /\ (m >= 1 => c[1] = Keep(items, set, 1, c[0]))
      /\ m = 2 => c[2] = Keep(items, set, 2, c[1])
  <2>1. \A n \in 0..m : c[n] = IF n = 0 THEN <<>> ELSE Keep(items, set, n, c[n - 1])
    BY <1>3
  <2>2. 1 - 1 = 0 /\ 2 - 1 = 1
    OBVIOUS
  <2> QED BY <1>0, <2>1, <2>2
<1>5. CASE m = 0
  BY <1>1, <1>4, <1>5 DEF m
<1>6. CASE m = 1
  BY <1>1, <1>4, <1>6 DEF m
<1>7. CASE m = 2
  BY <1>1, <1>4, <1>7 DEF m
<1> QED BY <1>0, <1>5, <1>6, <1>7

Weigh(t, items, n, o) ==
    LET r == LikelihoodRatio(t[items[n].by], items[n].says) IN <<o[1] * r[1], o[2] * r[2]>>

\* Odds multiplies the ratios one by one.
LEMMA OddsUnfolds ==
    ASSUME NEW t, NEW items, Len(items) \in 0..2
    PROVE  Odds(t, items) =
              IF Len(items) = 0 THEN <<1, 1>>
              ELSE IF Len(items) = 1 THEN Weigh(t, items, 1, <<1, 1>>)
              ELSE Weigh(t, items, 2, Weigh(t, items, 1, <<1, 1>>))
<1> DEFINE m == Len(items)
           z1 == Weigh(t, items, 1, <<1, 1>>)
           z2 == Weigh(t, items, 2, z1)
           w == [n \in 0..m |-> IF n = 0 THEN <<1, 1>> ELSE IF n = 1 THEN z1 ELSE z2]
           F(f) == [n \in 0..m |-> IF n = 0 THEN <<1, 1>> ELSE Weigh(t, items, n, f[n - 1])]
           c == CHOOSE f : f = F(f)
<1>0. m = 0 \/ m = 1 \/ m = 2
  OBVIOUS
<1>1. Odds(t, items) = c[m]
  BY DEF Odds, Weigh
<1> HIDE DEF m
<1>2. w = F(w)
  <2>1. \A n \in 0..m : w[n] = IF n = 0 THEN <<1, 1>> ELSE Weigh(t, items, n, w[n - 1])
    <3>1. ASSUME NEW n \in 0..m PROVE w[n] = IF n = 0 THEN <<1, 1>> ELSE Weigh(t, items, n, w[n - 1])
      <4>1. n = 0 \/ n = 1 \/ n = 2
        BY <1>0
      <4>2. CASE n = 0
        BY <4>2
      <4>3. CASE n = 1
        <5>1. w[n] = z1 /\ w[n - 1] = <<1, 1>>
          BY <1>0, <4>3
        <5> HIDE DEF w
        <5> QED BY <4>3, <5>1
      <4>4. CASE n = 2
        <5>1. w[n] = z2 /\ w[n - 1] = z1
          BY <1>0, <4>4
        <5> HIDE DEF w, z1
        <5> QED BY <4>4, <5>1
      <4> QED BY <4>1, <4>2, <4>3, <4>4
    <3> QED BY <3>1
  <2>2. w = [n \in 0..m |-> w[n]]
    OBVIOUS
  <2> HIDE DEF w
  <2> QED BY <2>1, <2>2
<1>3. c = F(c)
  <2> HIDE DEF w
  <2> QED BY <1>2
<1> HIDE DEF c
<1>4. /\ c[0] = <<1, 1>> /\ (m >= 1 => c[1] = Weigh(t, items, 1, c[0]))
      /\ m = 2 => c[2] = Weigh(t, items, 2, c[1])
  <2>1. \A n \in 0..m : c[n] = IF n = 0 THEN <<1, 1>> ELSE Weigh(t, items, n, c[n - 1])
    BY <1>3
  <2>2. 1 - 1 = 0 /\ 2 - 1 = 1
    OBVIOUS
  <2> QED BY <1>0, <2>1, <2>2
<1>5. CASE m = 0
  BY <1>1, <1>4, <1>5 DEF m
<1>6. CASE m = 1
  BY <1>1, <1>4, <1>6 DEF m
<1>7. CASE m = 2
  BY <1>1, <1>4, <1>7 DEF m
<1> QED BY <1>0, <1>5, <1>6, <1>7

Learn(t, items, verdict, n, s) ==
    Put(s, items[n].by, Updated(t[items[n].by], items[n].says, verdict))

\* Calibrated settles the reports one by one.
LEMMA CalibratedUnfolds ==
    ASSUME NEW t, NEW items, NEW verdict, Len(items) \in 0..2
    PROVE  Calibrated(t, items, verdict) =
              IF Len(items) = 0 THEN t
              ELSE IF Len(items) = 1 THEN Learn(t, items, verdict, 1, t)
              ELSE Learn(t, items, verdict, 2, Learn(t, items, verdict, 1, t))
<1> DEFINE m == Len(items)
           z1 == Learn(t, items, verdict, 1, t)
           z2 == Learn(t, items, verdict, 2, z1)
           w == [n \in 0..m |-> IF n = 0 THEN t ELSE IF n = 1 THEN z1 ELSE z2]
           F(f) == [n \in 0..m |-> IF n = 0 THEN t ELSE Learn(t, items, verdict, n, f[n - 1])]
           c == CHOOSE f : f = F(f)
<1>0. m = 0 \/ m = 1 \/ m = 2
  OBVIOUS
<1>1. Calibrated(t, items, verdict) = c[m]
  BY DEF Calibrated, Learn
<1> HIDE DEF m
<1>2. w = F(w)
  <2>1. \A n \in 0..m : w[n] = IF n = 0 THEN t ELSE Learn(t, items, verdict, n, w[n - 1])
    <3>1. ASSUME NEW n \in 0..m PROVE w[n] = IF n = 0 THEN t ELSE Learn(t, items, verdict, n, w[n - 1])
      <4>1. n = 0 \/ n = 1 \/ n = 2
        BY <1>0
      <4>2. CASE n = 0
        BY <4>2
      <4>3. CASE n = 1
        <5>1. w[n] = z1 /\ w[n - 1] = t
          BY <1>0, <4>3
        <5> HIDE DEF w
        <5> QED BY <4>3, <5>1
      <4>4. CASE n = 2
        <5>1. w[n] = z2 /\ w[n - 1] = z1
          BY <1>0, <4>4
        <5> HIDE DEF w, z1
        <5> QED BY <4>4, <5>1
      <4> QED BY <4>1, <4>2, <4>3, <4>4
    <3> QED BY <3>1
  <2>2. w = [n \in 0..m |-> w[n]]
    OBVIOUS
  <2> HIDE DEF w
  <2> QED BY <2>1, <2>2
<1>3. c = F(c)
  <2> HIDE DEF w
  <2> QED BY <1>2
<1> HIDE DEF c
<1>4. /\ c[0] = t /\ (m >= 1 => c[1] = Learn(t, items, verdict, 1, c[0]))
      /\ m = 2 => c[2] = Learn(t, items, verdict, 2, c[1])
  <2>1. \A n \in 0..m : c[n] = IF n = 0 THEN t ELSE Learn(t, items, verdict, n, c[n - 1])
    BY <1>3
  <2>2. 1 - 1 = 0 /\ 2 - 1 = 1
    OBVIOUS
  <2> QED BY <1>0, <2>1, <2>2
<1>5. CASE m = 0
  BY <1>1, <1>4, <1>5 DEF m
<1>6. CASE m = 1
  BY <1>1, <1>4, <1>6 DEF m
<1>7. CASE m = 2
  BY <1>1, <1>4, <1>7 DEF m
<1> QED BY <1>0, <1>5, <1>6, <1>7

\* The first of two outcomes where it is kept, and the second.
Kept(a, b, first, second) ==
    IF first THEN IF second THEN <<a, b>> ELSE <<a>> ELSE IF second THEN <<b>> ELSE <<>>

One(s, a) == s = <<a>>
Two(s, a, b) == s = <<a, b>>

\* What Among keeps of no outcome, of one and of two.
LEMMA AmongShort ==
    ASSUME NEW a, NEW b, NEW set
    PROVE  /\ Among(<<>>, set) = <<>>
           /\ Among(<<a>>, set) = IF a \in set THEN <<a>> ELSE <<>>
           /\ \A s : s = <<a, b>> => Among(s, set) = Kept(a, b, a \in set, b \in set)
<1>1. Len(<<>>) = 0 /\ Len(<<a>>) = 1 /\ Len(<<a, b>>) = 2
  OBVIOUS
<1>2. /\ Among(<<>>, set) = <<>>
      /\ Among(<<a>>, set) = Keep(<<a>>, set, 1, <<>>)
      /\ Among(<<a, b>>, set) = Keep(<<a, b>>, set, 2, Keep(<<a, b>>, set, 1, <<>>))
  BY <1>1, AmongUnfolds
<1>3. Keep(<<a>>, set, 1, <<>>) = IF a \in set THEN <<a>> ELSE <<>>
  BY DEF Keep
<1>4. Keep(<<a, b>>, set, 1, <<>>) = IF a \in set THEN <<a>> ELSE <<>>
  BY DEF Keep
<1>5. Append(<<a>>, b) = <<a, b>> /\ Append(<<>>, b) = <<b>>
  <2>1. Append(<<>>, b) = <<b>>
    OBVIOUS
  <2>2. Append(<<a>>, b) = <<a, b>>
    BY ShortSeqs
  <2> QED BY <2>1, <2>2
<1>6. \A s : Keep(<<a, b>>, set, 2, s) = IF b \in set THEN Append(s, b) ELSE s
  <2>1. <<a, b>>[2] = b
    OBVIOUS
  <2> QED BY <2>1 DEF Keep
<1> QED BY <1>2, <1>3, <1>4, <1>5, <1>6 DEF Kept

\* Outcomes by what they say and by the tier their verifier is stored with.
LEMMA SortNone ==
    ASSUME NEW words, NEW t, NEW tiers
    PROVE  Saying(<<>>, words) = <<>> /\ Judged(t, <<>>, tiers) = <<>>
BY AmongShort DEF Saying, Judged

\* Sorting a single outcome keeps it or drops it.
LEMMA SortOne ==
    ASSUME NEW a, NEW s, One(s, a), NEW words, NEW t, NEW tiers
    PROVE  /\ Saying(s, words) = IF a.says \in words THEN s ELSE <<>>
           /\ Judged(t, s, tiers) = IF t[a.by].tier \in tiers THEN s ELSE <<>>
<1>0. s = <<a>> /\ a \in ToSet(<<a>>)
  BY DEF One, ToSet
<1>1. Saying(<<a>>, words) = IF a.says \in words THEN <<a>> ELSE <<>>
  <2>1. a \in {o \in ToSet(<<a>>) : o.says \in words} <=> a.says \in words
    BY <1>0
  <2> QED BY <2>1, AmongShort DEF Saying
<1>2. Judged(t, <<a>>, tiers) = IF t[a.by].tier \in tiers THEN <<a>> ELSE <<>>
  <2>1. a \in {o \in ToSet(<<a>>) : t[o.by].tier \in tiers} <=> t[a.by].tier \in tiers
    BY <1>0
  <2> QED BY <2>1, AmongShort DEF Judged
<1> QED BY <1>0, <1>1, <1>2

\* Sorting two outcomes keeps each or drops it, in their order.
LEMMA SortTwo ==
    ASSUME NEW a, NEW b, NEW s, Two(s, a, b), NEW words, NEW t, NEW tiers
    PROVE  /\ a.says \in words /\ b.says \in words => Saying(s, words) = s
           /\ a.says \in words /\ b.says \notin words => One(Saying(s, words), a)
           /\ a.says \notin words /\ b.says \in words => One(Saying(s, words), b)
           /\ a.says \notin words /\ b.says \notin words => Saying(s, words) = <<>>
           /\ t[a.by].tier \in tiers /\ t[b.by].tier \in tiers => Judged(t, s, tiers) = s
           /\ t[a.by].tier \in tiers /\ t[b.by].tier \notin tiers => One(Judged(t, s, tiers), a)
           /\ t[a.by].tier \notin tiers /\ t[b.by].tier \in tiers => One(Judged(t, s, tiers), b)
           /\ t[a.by].tier \notin tiers /\ t[b.by].tier \notin tiers => Judged(t, s, tiers) = <<>>
<1>0. s = <<a, b>> /\ a \in ToSet(s) /\ b \in ToSet(s)
  BY DEF Two, ToSet
<1>1. Saying(s, words) = Kept(a, b, a.says \in words, b.says \in words)
  <2> DEFINE S == {o \in ToSet(s) : o.says \in words}
  <2>1. (a \in S <=> a.says \in words) /\ (b \in S <=> b.says \in words)
    BY <1>0
  <2>2. Saying(s, words) = Among(s, S)
    BY DEF Saying
  <2> HIDE DEF S
  <2>3. Among(s, S) = Kept(a, b, a \in S, b \in S)
    BY <1>0, AmongShort DEF Kept
  <2> QED BY <2>1, <2>2, <2>3 DEF Kept
<1>2. Judged(t, s, tiers) = Kept(a, b, t[a.by].tier \in tiers, t[b.by].tier \in tiers)
  <2> DEFINE S == {o \in ToSet(s) : t[o.by].tier \in tiers}
  <2>1. (a \in S <=> t[a.by].tier \in tiers) /\ (b \in S <=> t[b.by].tier \in tiers)
    BY <1>0
  <2>2. Judged(t, s, tiers) = Among(s, S)
    BY DEF Judged
  <2> HIDE DEF S
  <2>3. Among(s, S) = Kept(a, b, a \in S, b \in S)
    BY <1>0, AmongShort DEF Kept
  <2> QED BY <2>1, <2>2, <2>3 DEF Kept
<1> QED BY <1>0, <1>1, <1>2 DEF Kept, One

\* What a fresh hard verifier's report is worth.
LEMMA HardRatio ==
    /\ LikelihoodRatio(TrustStats("hard"), "PASS") = <<380, 20>>
    /\ LikelihoodRatio(TrustStats("hard"), "FAIL") = <<20, 380>>
<1>1. Prior("hard") = <<19, 1>>
  BY DEF Prior
<1>2. /\ TrustStats("hard").tier = "hard" /\ TrustStats("hard").tp = 0 /\ TrustStats("hard").fn = 0
      /\ TrustStats("hard").tn = 0 /\ TrustStats("hard").fp = 0
  BY DEF TrustStats
<1>3. <<19, 1>>[1] = 19 /\ <<19, 1>>[2] = 1
  OBVIOUS
<1>4. LikelihoodRatio(TrustStats("hard"), "PASS") =
         <<(0 + 19) * (0 + 0 + 19 + 1), (0 + 0 + 19 + 1) * (0 + 1)>>
  BY <1>1, <1>2, <1>3 DEF LikelihoodRatio
<1>5. LikelihoodRatio(TrustStats("hard"), "FAIL") =
         <<(0 + 1) * (0 + 0 + 19 + 1), (0 + 0 + 19 + 1) * (0 + 19)>>
  BY <1>1, <1>2, <1>3 DEF LikelihoodRatio
<1> QED BY <1>4, <1>5

\* One hard report is the verdict; two that disagree are a tie.
LEMMA HardOne ==
    ASSUME NEW t, NEW a, NEW s, One(s, a), t[a.by] = TrustStats("hard")
    PROVE  /\ a.says = "PASS" => Fused(Odds(t, s)) = "PASS"
           /\ a.says = "FAIL" => Fused(Odds(t, s)) = "FAIL"
<1>1. Len(s) = 1 /\ s[1] = a
  BY DEF One
<1>2. Odds(t, s) = Weigh(t, s, 1, <<1, 1>>)
  BY <1>1, OddsUnfolds
<1>3. a.says = "PASS" => Weigh(t, s, 1, <<1, 1>>) = <<380, 20>>
  BY <1>1, HardRatio DEF Weigh
<1>4. a.says = "FAIL" => Weigh(t, s, 1, <<1, 1>>) = <<20, 380>>
  BY <1>1, HardRatio DEF Weigh
<1>5. Fused(<<380, 20>>) = "PASS" /\ Fused(<<20, 380>>) = "FAIL"
  BY DEF Fused
<1> QED BY <1>2, <1>3, <1>4, <1>5

\* Two hard verifiers that disagree cancel out.
LEMMA HardTie ==
    ASSUME NEW t, NEW a, NEW b, NEW s, Two(s, a, b),
           t[a.by] = TrustStats("hard"), t[b.by] = TrustStats("hard"),
           a.says \in {"PASS", "FAIL"}, b.says \in {"PASS", "FAIL"}, a.says # b.says
    PROVE  Odds(t, s) = <<7600, 7600>>
<1>1. Len(s) = 2 /\ s[1] = a /\ s[2] = b
  BY DEF Two
<1>2. Odds(t, s) = Weigh(t, s, 2, Weigh(t, s, 1, <<1, 1>>))
  <2>1. Len(s) \in 0..2 /\ Len(s) # 0 /\ Len(s) # 1
    BY <1>1
  <2>2. Odds(t, s) = IF Len(s) = 0 THEN <<1, 1>>
                     ELSE IF Len(s) = 1 THEN Weigh(t, s, 1, <<1, 1>>)
                     ELSE Weigh(t, s, 2, Weigh(t, s, 1, <<1, 1>>))
    BY <2>1, OddsUnfolds
  <2> QED BY <2>1, <2>2
<1>3. a.says = "PASS" => Weigh(t, s, 1, <<1, 1>>) = <<380, 20>>
  BY <1>1, HardRatio DEF Weigh
<1>4. a.says = "FAIL" => Weigh(t, s, 1, <<1, 1>>) = <<20, 380>>
  BY <1>1, HardRatio DEF Weigh
<1>5. b.says = "PASS" => Weigh(t, s, 2, <<20, 380>>) = <<7600, 7600>>
  BY <1>1, HardRatio DEF Weigh
<1>6. b.says = "FAIL" => Weigh(t, s, 2, <<380, 20>>) = <<7600, 7600>>
  BY <1>1, HardRatio DEF Weigh
<1> QED BY <1>2, <1>3, <1>4, <1>5, <1>6

\* A judgment on two hard reports that disagree does not have the confidence to act on.
LEMMA TieIsUnsure ==
    ASSUME NEW a, NEW b, NEW s, Two(s, a, b),
           a.by \in {"swarm-checks", "subprocess-tests"}, b.by \in {"swarm-checks", "subprocess-tests"},
           a.says \in {"PASS", "FAIL"}, b.says \in {"PASS", "FAIL"}, a.says # b.says
    PROVE  Below(Judge(SwarmTrust, Graded(s)).outcome.odds, 3, 4)
<1> DEFINE T == SwarmTrust
<1>0. Two(s, a, b) /\ s = <<a, b>>
  BY DEF Two
<1>1. T[a.by] = TrustStats("hard") /\ T[b.by] = TrustStats("hard")
  BY DEF SwarmTrust
<1>2. T[a.by].tier = "hard" /\ T[b.by].tier = "hard"
  BY <1>1 DEF TrustStats
<1>3. Graded(s) = s
  <2> QED BY <1>0, SortTwo DEF Graded, Verdicts
<1>4. Saying(s, Verdicts \ {"ABSTAIN"}) = s
  <2> QED BY <1>0, SortTwo DEF Verdicts
<1>5. Ensured(T, s) = T
  <2>1. ToSet(s) = {a, b}
    BY <1>0 DEF ToSet
  <2>2. DOMAIN T = {"swarm-checks", "subprocess-tests"}
    BY DEF SwarmTrust
  <2>3. DOMAIN T \cup {o.by : o \in ToSet(s)} = DOMAIN T
    BY <2>1, <2>2
  <2>4. T = [v \in DOMAIN T |-> T[v]]
    BY DEF SwarmTrust
  <2> HIDE DEF T
  <2> QED BY <2>3, <2>4 DEF Ensured
<1>6. Judged(T, s, AuthoritativeTiers) = s /\ Judged(T, s, Tiers \ AuthoritativeTiers) = <<>>
  <2>1. "hard" \in AuthoritativeTiers /\ "hard" \notin Tiers \ AuthoritativeTiers
    BY DEF AuthoritativeTiers
  <2> HIDE DEF T
  <2> QED BY <1>0, <1>2, <2>1, SortTwo
<1>7. s # <<>>
  BY <1>0
<1>8. Judge(T, s) = AuthoritativeJudgment(T, s, <<>>)
  <2> HIDE DEF T
  <2> QED BY <1>3, <1>4, <1>5, <1>6, <1>7 DEF Judge
<1>9. /\ Judged(T, s, {"human"}) = <<>> /\ Judged(T, s, {"hard"}) = s
      /\ Judged(T, s, AuthoritativeTiers \ {"hard"}) = <<>>
  <2> HIDE DEF T
  <2> QED BY <1>0, <1>2, SortTwo
<1>10. s \o (<<>> \o <<>>) = s
  <2>1. s \in Seq({a, b}) /\ <<>> \o <<>> = <<>>
    BY <1>0
  <2> QED BY <2>1
<1>11. Odds(T, s) = <<7600, 7600>>
  <2> HIDE DEF T
  <2> QED BY <1>0, <1>1, HardTie
<1>12. AuthoritativeJudgment(T, s, <<>>).outcome.odds \in {<<7600, 7600>>, Against(<<7600, 7600>>)}
  <2> HIDE DEF T
  <2> QED BY <1>9, <1>10, <1>11 DEF AuthoritativeJudgment, Judgment
<1>13. Below(<<7600, 7600>>, 3, 4) /\ Against(<<7600, 7600>>) = <<7600, 7600>>
  BY DEF Below, Against
<1> QED BY <1>3, <1>8, <1>12, <1>13

-----------------------------------------------------------------------------
(* What an action was covered by.                                           *)

SnapshotOf(run) == Resolve(run.policy, ActionOf(run.artifact))

\* A result of one of the two hard verifiers of the swarm.
Hard(x) == x.outcome.by \in {"swarm-checks", "subprocess-tests"}

Found(run) ==
    /\ SnapshotOf(run) # None
    /\ \/ \E x : One(run.results, x) /\ Hard(x)
       \/ \E x, y : Two(run.results, x, y) /\ Hard(x) /\ Hard(y)

Assessed(run) ==
    run.assessment = Mint(SnapshotOf(run),
                          JudgeWithCoverage(SwarmTrust, SnapshotOf(run), run.results))

Covered(run) ==
    LET snap == Resolve(run.authorization.policy, ActionOf(run.artifact))
    IN  /\ snap # None
        /\ \A q \in ToSet(snap.requires) : AnsweredBy(run.results, q, snap)
        /\ \A r \in ToSet(run.results) : r.outcome.says # "FAIL"

\* The evidence is there from the verification on, the assessment is of it, and
\* whatever is authorized is covered by it.
CoverRun(run) ==
    /\ run.pc \in {"verified", "assessed"} => Found(run)
    /\ run.pc = "assessed" => Assessed(run)
    /\ run.pc \in Authorized \/ run.ran => Covered(run)

\* What a resolved snapshot holds.
LEMMA Resolved ==
    ASSUME NEW policy \in Policies, NEW action, Resolve(policy, action) # None
    PROVE  /\ Resolve(policy, action).policy = policy
           /\ Resolve(policy, action).action = action
           /\ Resolve(policy, action).requires = Profiles[policy][action.class]
           /\ DOMAIN Profiles[policy][action.class] \subseteq Nat
           /\ ToSet(Profiles[policy][action.class]) # {}
<1>1. /\ action.class \in DOMAIN Profiles[policy] /\ Profiles[policy][action.class] # <<>>
      /\ Resolve(policy, action) =
            [policy |-> policy, action |-> action, requires |-> Profiles[policy][action.class]]
  BY DEF Resolve
<1>2. policy \in DOMAIN Profiles
  BY DEF Policies
<1>3. Profiles[policy][action.class] \in Seq([check : STRING, permitted : SUBSET STRING])
  BY <1>1, <1>2, ProfilesAssumption
<1> DEFINE s == Profiles[policy][action.class]
<1> HIDE DEF s
<1>4. DOMAIN s \subseteq Nat /\ ToSet(s) # {}
  <2>1. s \in Seq([check : STRING, permitted : SUBSET STRING]) /\ s # <<>>
    BY <1>1, <1>3 DEF s
  <2>2. DOMAIN s = 1..Len(s) /\ Len(s) \in Nat /\ Len(s) # 0
    BY <2>1, EmptySeq
  <2>3. 1 \in DOMAIN s
    BY <2>2
  <2> QED BY <2>2, <2>3 DEF ToSet
<1> QED BY <1>1, <1>4 DEF s

\* An approval of a run's action is covered by the results the run has.
LEMMA ApprovalCovered ==
    ASSUME NEW run, run.policy \in Policies, Found(run), Assessed(run), selected \in Policies,
           NEW gate, NEW risk,
           Decide(gate, run.assessment, ActionOf(run.artifact), risk).outcome = "approve"
    PROVE  LET snap == Resolve(selected, ActionOf(run.artifact))
           IN  /\ snap # None
               /\ \A q \in ToSet(snap.requires) : AnsweredBy(run.results, q, snap)
               /\ \A r \in ToSet(run.results) : r.outcome.says # "FAIL"
<1> DEFINE action == ActionOf(run.artifact)
           snap == Resolve(selected, action)
           results == run.results
           judgment == JudgeWithCoverage(SwarmTrust, SnapshotOf(run), results)
           outcomes == [i \in DOMAIN results |-> results[i].outcome]
<1>1. run.assessment.snapshot = SnapshotOf(run) /\ run.assessment.outcome = judgment
  BY DEF Assessed, Mint
<1>2. /\ Authorize(run.assessment, action) # None
      /\ judgment.kind # "unavailable" /\ judgment.verdict = "PASS" /\ ~ Below(judgment.odds, 3, 4)
  <2> HIDE DEF judgment, action
  <2>1. Decide(gate, run.assessment, action, risk).outcome = "approve"
    BY DEF action
  <2> QED BY <1>1, <2>1, Approved
<1>3. snap # None /\ snap = SnapshotOf(run)
  BY <1>1, <1>2, AuthorizedUnder
<1>4. /\ CoverageProblem(snap, results) = "none"
      /\ judgment = Judge(SwarmTrust, Graded(outcomes)).outcome
  BY <1>2, <1>3, JudgedOnCover
<1>5. DOMAIN results \subseteq Nat
  BY DEF Found, One, Two
<1>6. DOMAIN snap.requires \subseteq Nat /\ ToSet(snap.requires) # {}
  BY <1>3, Resolved
<1> HIDE DEF judgment, outcomes, snap
<1>7. \A q \in ToSet(snap.requires) : AnsweredBy(results, q, snap)
  BY <1>4, <1>5, <1>6, CoverageMet
<1>8. PICK z \in ToSet(results) : z.outcome.says = "PASS"
  BY <1>6, <1>7 DEF AnsweredBy
<1>9. \A r \in ToSet(results) : r.outcome.says # "FAIL"
  <2>1. ASSUME NEW x, One(results, x) PROVE \A r \in ToSet(results) : r.outcome.says # "FAIL"
    <3>1. ToSet(results) = {x}
      BY <2>1 DEF One, ToSet
    <3> QED BY <1>8, <3>1
  <2>2. ASSUME NEW x, NEW y, Two(results, x, y), Hard(x), Hard(y)
        PROVE  \A r \in ToSet(results) : r.outcome.says # "FAIL"
    <3>1. ToSet(results) = {x, y} /\ results = <<x, y>>
      BY <2>2 DEF Two, ToSet
    <3>2. Two(outcomes, x.outcome, y.outcome)
      <4>1. [i \in DOMAIN <<x, y>> |-> <<x, y>>[i].outcome] = <<x.outcome, y.outcome>>
        OBVIOUS
      <4> QED BY <3>1, <4>1 DEF Two, outcomes
    <3>3. ASSUME x.outcome.says \in {"PASS", "FAIL"}, y.outcome.says \in {"PASS", "FAIL"},
                 x.outcome.says # y.outcome.says
          PROVE  FALSE
      <4>1. Below(Judge(SwarmTrust, Graded(outcomes)).outcome.odds, 3, 4)
        BY <2>2, <3>2, <3>3, TieIsUnsure DEF Hard
      <4> QED BY <1>2, <1>4, <4>1
    <3> QED BY <1>8, <3>1, <3>3
  <2> QED BY <2>1, <2>2 DEF Found
<1> QED BY <1>3, <1>7, <1>9 DEF snap

\* A run that ends up with nothing to cover, or with what it had covered.
Bare(d) == swarm'[d].pc \notin {"verified", "assessed"} \cup Authorized /\ ~ swarm'[d].ran

Keeps(d) ==
    /\ swarm'[d].pc \notin {"verified", "assessed"}
    /\ swarm[d].pc \in Authorized \/ swarm[d].ran
    /\ swarm'[d].artifact = swarm[d].artifact /\ swarm'[d].results = swarm[d].results
    /\ swarm'[d].authorization = swarm[d].authorization

\* A step that keeps what a run was authorized on keeps it covered.
LEMMA StillCovered ==
    ASSUME NEW d \in Drivers, CoverRun(swarm[d]), Bare(d) \/ Keeps(d)
    PROVE  CoverRun(swarm'[d])
<1>1. CASE Bare(d)
  BY <1>1 DEF Bare, CoverRun
<1>2. CASE Keeps(d)
  <2>1. Covered(swarm[d])
    BY <1>2 DEF Keeps, CoverRun
  <2>2. Covered(swarm'[d])
    BY <1>2, <2>1 DEF Keeps, Covered
  <2> QED BY <1>2, <2>2 DEF Keeps, CoverRun
<1> QED BY <1>1, <1>2

\* Recording an entry, raising, and going on.
LEMMA RecordedCover ==
    ASSUME SwarmTypes, NEW d \in Drivers, NEW row \in SwarmRows,
           swarm' = [swarm EXCEPT ![d] = Recorded(@, row)],
           swarm[d].plan \in ActionPlans, swarm[d].policy \in Policies
    PROVE  Bare(d) \/ Keeps(d)
<1> DEFINE r == Recorded(swarm[d], row)
<1>1. swarm'[d] = r /\ RunShape(swarm[d]) /\ RunSane(swarm[d])
  BY DEF SwarmTypes
<1>2. /\ r.pc = "next" /\ r.ran = swarm[d].ran
      /\ swarm[d].ran => /\ r.artifact = swarm[d].artifact /\ r.results = swarm[d].results
                         /\ r.authorization = swarm[d].authorization
  BY <1>1, RecordedRun
<1> HIDE DEF r
<1> QED BY <1>1, <1>2 DEF Bare, Keeps, Authorized

\* A run that only changes its phase keeps what it was authorized on, or had nothing.
LEMMA PhaseCover ==
    ASSUME SwarmTypes, NEW d \in Drivers, NEW x \in SwarmPhases \ {"verified", "assessed"},
           swarm' = [swarm EXCEPT ![d] = [swarm[d] EXCEPT !.pc = x]],
           swarm[d].pc \in Authorized \/ x \notin Authorized
    PROVE  Bare(d) \/ Keeps(d)
<1> DEFINE r == [swarm[d] EXCEPT !.pc = x]
<1>1. swarm'[d] = r /\ RunShape(swarm[d])
  BY DEF SwarmTypes
<1>2. /\ r.pc = x /\ r.ran = swarm[d].ran /\ r.artifact = swarm[d].artifact
      /\ r.results = swarm[d].results /\ r.authorization = swarm[d].authorization
  BY <1>1, PhaseRun
<1> HIDE DEF r
<1> QED BY <1>1, <1>2 DEF Bare, Keeps

\* The same of a run that raises.
LEMMA RaisedCover ==
    ASSUME SwarmTypes, NEW d \in Drivers, swarm' = [swarm EXCEPT ![d] = Raised(@)]
    PROVE  Bare(d) \/ Keeps(d)
<1>1. swarm' = [swarm EXCEPT ![d] = [swarm[d] EXCEPT !.pc = "raised"]]
  BY DEF Raised, SwarmTypes
<1>2. "raised" \in SwarmPhases \ {"verified", "assessed"} /\ "raised" \notin Authorized
  BY DEF SwarmPhases, Authorized
<1> QED BY <1>1, <1>2, PhaseCover

\* The same of a run that goes on under its authorization.
LEMMA GotoCover ==
    ASSUME SwarmTypes, NEW d \in Drivers, NEW x \in Authorized, Goto(d, x), swarm[d].pc \in Authorized
    PROVE  Bare(d) \/ Keeps(d)
<1>1. swarm' = [swarm EXCEPT ![d] = [swarm[d] EXCEPT !.pc = x]]
  BY DEF Goto, SwarmTypes
<1>2. x \in SwarmPhases \ {"verified", "assessed"}
  BY DEF SwarmPhases, Authorized
<1> QED BY <1>1, <1>2, PhaseCover

\* Every step of a driver keeps its run covered.
LEMMA CoverStep ==
    ASSUME SwarmTypes, NEW d \in Drivers, CoverRun(swarm[d]),
           \/ Start(d) \/ JudgeHypothesis(d) \/ Unresolved(d) \/ Verify(d) \/ AssessEntry(d)
           \/ DecideEntry(d) \/ CheckSpend(d) \/ Claim(d) \/ ChainSpend(d) \/ Execute(d)
           \/ Complete(d) \/ Release(d) \/ ChainRelease(d) \/ CrashDriver(d)
    PROVE  CoverRun(swarm'[d])
<1> DEFINE run == swarm[d]
<1>0. /\ RunShape(run) /\ RunSane(run) /\ selected \in Policies
      /\ swarm = [e \in Drivers |-> swarm[e]]
  BY DEF SwarmTypes
<1>a. run.pc \in Acting => run.plan \in ActionPlans /\ run.policy \in Policies
  BY <1>0 DEF RunSane, Acting, Authorized
<1>b. {"judged", "rejected", "executed"} \subseteq SwarmRows
  BY DEF SwarmRows
<1>c. At(d, "proposed_action") =>
         run.plan \in ActionPlans /\ run.policy \in Policies /\ run.pc = "next" /\ ~ run.ran
  <2>1. run.plan \in Plans
    BY <1>0 DEF RunShape
  <2>2. <<"hypothesis">> # <<>> => Head(<<"hypothesis">>) # "proposed_action"
    OBVIOUS
  <2>3. At(d, "proposed_action") => run.plan # <<"hypothesis">> /\ run.plan # <<>> /\ run.pc = "next"
    BY <2>2 DEF At
  <2> QED BY <1>0, <2>1, <2>3 DEF Plans, RunSane
<1>d. run = [pc |-> run.pc, policy |-> run.policy, plan |-> run.plan, artifact |-> run.artifact,
             cases |-> run.cases, results |-> run.results, assessment |-> run.assessment,
             authorization |-> run.authorization, ran |-> run.ran, row |-> run.row]
  BY <1>0 DEF RunShape
<1>1. CASE Start(d)
  <2>1. PICK p \in Proposals :
          swarm' = [swarm EXCEPT ![d] =
              [@ EXCEPT !.pc = "next", !.policy = selected, !.artifact = p.artifact,
                        !.cases = p.cases,
                        !.plan = Select(p.artifact # None, p.hypothesis, packet.budget)]]
    BY <1>1 DEF Start
  <2> DEFINE plan == Select(p.artifact # None, p.hypothesis, packet.budget)
  <2>a. swarm'[d] = [run EXCEPT !.pc = "next", !.policy = selected, !.artifact = p.artifact,
                                !.cases = p.cases, !.plan = plan]
    BY <1>0, <2>1
  <2>2. ~ run.ran
    BY <1>0, <1>1 DEF Start, RunSane
  <2> HIDE DEF run, plan
  <2>3. swarm'[d].pc = "next" /\ swarm'[d].ran = run.ran
    BY <1>d, <2>a
  <2> QED BY <2>2, <2>3, StillCovered DEF Bare, Authorized, run
<1>2. CASE JudgeHypothesis(d)
  <2> DEFINE plan == Tail(run.plan)
  <2>1. swarm'[d] = [run EXCEPT !.plan = plan] /\ run.pc = "next"
    BY <1>0, <1>2 DEF JudgeHypothesis, At
  <2> HIDE DEF run, plan
  <2>2. swarm'[d].pc = "next" /\ swarm'[d].ran = run.ran /\ swarm'[d].artifact = run.artifact
        /\ swarm'[d].results = run.results /\ swarm'[d].authorization = run.authorization
    BY <1>d, <2>1
  <2> QED BY <2>2, StillCovered DEF Bare, Keeps, Authorized, run
<1>3. CASE Unresolved(d)
  BY <1>3, <1>b, <1>c, RecordedCover, StillCovered DEF Unresolved
<1>4. CASE Verify(d)
  <2> DEFINE snap == SnapshotOf(run)
             x == Bound("structural.predicates", snap, "swarm-checks",
                        Outcome("swarm-checks", "hard", StructuralVerdict(run.artifact)))
             Y(says) == Bound("executable.cases", snap, "subprocess-tests",
                              Outcome("subprocess-tests", "hard", says))
  <2>1. PICK says \in CodeVerdicts(run) :
          swarm' = [swarm EXCEPT ![d] =
                  [@ EXCEPT !.pc = "verified",
                            !.results = <<x>> \o IF says = None THEN <<>> ELSE <<Y(says)>>]]
    BY <1>4 DEF Verify, SnapshotOf
  <2> DEFINE results == <<x>> \o IF says = None THEN <<>> ELSE <<Y(says)>>
  <2>2. swarm'[d] = [run EXCEPT !.pc = "verified", !.results = results]
    BY <1>0, <2>1
  <2>3. At(d, "proposed_action") /\ snap # None
    BY <1>4 DEF Verify, SnapshotOf
  <2>4. Hard(x) /\ Hard(Y(says))
    BY DEF Hard, Bound, Outcome
  <2>5. One(results, x) \/ Two(results, x, Y(says))
    <3> DEFINE y == Y(says)
    <3>0. results = <<x>> \o IF says = None THEN <<>> ELSE <<y>>
      OBVIOUS
    <3> HIDE DEF x, y, results
    <3>1. <<x>> \o <<>> = <<x>>
      OBVIOUS
    <3>2. <<x>> \o <<y>> = <<x, y>>
      BY ShortSeqs
    <3>3. One(results, x) \/ Two(results, x, y)
      BY <3>0, <3>1, <3>2 DEF One, Two
    <3> QED BY <3>3 DEF y
  <2>6. ~ run.ran
    BY <1>c, <2>3
  <2> HIDE DEF run, results, x, Y
  <2>7. /\ swarm'[d].pc = "verified" /\ swarm'[d].ran = run.ran /\ swarm'[d].results = results
        /\ swarm'[d].policy = run.policy /\ swarm'[d].artifact = run.artifact
    BY <1>d, <2>2
  <2>8. Found(swarm'[d])
    BY <2>3, <2>4, <2>5, <2>7 DEF Found, SnapshotOf
  <2> QED BY <2>6, <2>7, <2>8 DEF CoverRun, Authorized
<1>5. CASE AssessEntry(d)
  <2> DEFINE a == Assess(SwarmTrust, Resolve(run.policy, ActionOf(run.artifact)), run.results)
  <2>1. run.pc = "verified" /\ run.pc \in Acting
    BY <1>5 DEF AssessEntry, Acting
  <2>2. \/ swarm' = [swarm EXCEPT ![d] = Raised(@)]
        \/ swarm' = [swarm EXCEPT ![d] = Recorded(@, "judged")]
        \/ a # None /\ swarm' = [swarm EXCEPT ![d] = [@ EXCEPT !.pc = "assessed", !.assessment = a]]
    BY <1>5 DEF AssessEntry
  <2>3. CASE swarm' = [swarm EXCEPT ![d] = Raised(@)]
    BY <2>3, RaisedCover, StillCovered
  <2>4. CASE swarm' = [swarm EXCEPT ![d] = Recorded(@, "judged")]
    BY <1>a, <1>b, <2>1, <2>4, RecordedCover, StillCovered
  <2>5. ASSUME a # None,
               swarm' = [swarm EXCEPT ![d] = [@ EXCEPT !.pc = "assessed", !.assessment = a]]
        PROVE  CoverRun(swarm'[d])
    <3>1. a = Mint(SnapshotOf(run), JudgeWithCoverage(SwarmTrust, SnapshotOf(run), run.results))
      BY <2>5 DEF Assess, SnapshotOf
    <3>2. swarm'[d] = [run EXCEPT !.pc = "assessed", !.assessment = a]
      BY <1>0, <2>5
    <3>3. ~ run.ran /\ Found(run)
      BY <1>0, <2>1 DEF RunSane, CoverRun
    <3> HIDE DEF run, a
    <3>4. /\ swarm'[d].pc = "assessed" /\ swarm'[d].ran = run.ran /\ swarm'[d].assessment = a
          /\ swarm'[d].policy = run.policy /\ swarm'[d].artifact = run.artifact
          /\ swarm'[d].results = run.results
      BY <1>d, <3>2
    <3>5. Found(swarm'[d]) /\ Assessed(swarm'[d])
      BY <3>1, <3>3, <3>4 DEF Found, Assessed, SnapshotOf
    <3> QED BY <3>3, <3>4, <3>5 DEF CoverRun, Authorized
  <2> QED BY <2>2, <2>3, <2>4, <2>5
<1>6. CASE DecideEntry(d)
  <2> DEFINE gate == [routeHighRisk |-> FALSE]
             decision == Decide(gate, run.assessment, ActionOf(run.artifact), packet.risk)
             a == decision.authorization
  <2>1. run.pc = "assessed" /\ run.pc \in Acting
    BY <1>6 DEF DecideEntry, Acting
  <2>2. \/ swarm' = [swarm EXCEPT ![d] = Raised(@)]
        \/ swarm' = [swarm EXCEPT ![d] = Recorded(@, "rejected")]
        \/ /\ decision.outcome = "approve"
           /\ swarm' = [swarm EXCEPT ![d] = [@ EXCEPT !.pc = "check", !.authorization = a]]
    BY <1>6 DEF DecideEntry
  <2>3. CASE swarm' = [swarm EXCEPT ![d] = Raised(@)]
    BY <2>3, RaisedCover, StillCovered
  <2>4. CASE swarm' = [swarm EXCEPT ![d] = Recorded(@, "rejected")]
    BY <1>a, <1>b, <2>1, <2>4, RecordedCover, StillCovered
  <2>5. ASSUME decision.outcome = "approve",
               swarm' = [swarm EXCEPT ![d] = [@ EXCEPT !.pc = "check", !.authorization = a]]
        PROVE  CoverRun(swarm'[d])
    <3>1. Found(run) /\ Assessed(run) /\ run.policy \in Policies
      BY <1>a, <2>1 DEF CoverRun
    <3> DEFINE snap == Resolve(selected, ActionOf(run.artifact))
    <3>2. /\ snap # None
          /\ \A q \in ToSet(snap.requires) : AnsweredBy(run.results, q, snap)
          /\ \A r \in ToSet(run.results) : r.outcome.says # "FAIL"
      BY <1>0, <2>5, <3>1, ApprovalCovered
    <3>3. a.policy = selected
      <4>1. a = Authorize(run.assessment, ActionOf(run.artifact)) /\ a # None
        BY <2>5, Approved
      <4> QED BY <4>1, AuthorizedUnder
    <3>4. swarm'[d] = [run EXCEPT !.pc = "check", !.authorization = a]
      BY <1>0, <2>5
    <3> HIDE DEF run, a
    <3>5. /\ swarm'[d].pc = "check" /\ swarm'[d].authorization = a
          /\ swarm'[d].artifact = run.artifact /\ swarm'[d].results = run.results
      BY <1>d, <3>4
    <3>6. Covered(swarm'[d])
      BY <3>2, <3>3, <3>5 DEF Covered
    <3> QED BY <3>5, <3>6 DEF CoverRun
  <2> QED BY <2>2, <2>3, <2>4, <2>5
<1>7. CASE CheckSpend(d)
  <2>1. run.pc \in Authorized /\ run.pc \in Acting /\ (Goto(d, "claim") \/ EndEntry(d))
    BY <1>7 DEF CheckSpend, Authorized, Acting
  <2> QED BY <1>a, <1>b, <2>1, GotoCover, RecordedCover, StillCovered DEF EndEntry, Authorized
<1>8. CASE Claim(d)
  <2>1. run.pc \in Authorized /\ run.pc \in Acting /\ (Goto(d, "spend") \/ EndEntry(d))
    BY <1>8 DEF Claim, Authorized, Acting
  <2> QED BY <1>a, <1>b, <2>1, GotoCover, RecordedCover, StillCovered DEF EndEntry, Authorized
<1>9. CASE ChainSpend(d)
  BY <1>9, GotoCover, StillCovered DEF ChainSpend, Authorized
<1>10. CASE Execute(d)
  <2>1. run.pc \in Authorized
    BY <1>10 DEF Execute, Authorized
  <2>2. CASE Goto(d, "release")
    BY <2>1, <2>2, GotoCover, StillCovered DEF Authorized
  <2>3. ASSUME NEW x \in {"complete", "raised"},
               swarm' = [swarm EXCEPT ![d] = [@ EXCEPT !.pc = x, !.ran = TRUE]]
        PROVE  CoverRun(swarm'[d])
    <3>1. swarm'[d] = [run EXCEPT !.pc = x, !.ran = TRUE]
      BY <1>0, <2>3
    <3> HIDE DEF run
    <3>2. /\ swarm'[d].pc = x /\ swarm'[d].artifact = run.artifact
          /\ swarm'[d].results = run.results /\ swarm'[d].authorization = run.authorization
      BY <1>d, <3>1
    <3> QED BY <2>1, <3>2, StillCovered DEF Keeps, run
  <2> QED BY <1>10, <2>2, <2>3 DEF Execute
<1>11. CASE Complete(d)
  <2>1. run.pc \in Acting /\ swarm' = [swarm EXCEPT ![d] = Recorded(@, "executed")]
    BY <1>11 DEF Complete, EndEntry, Acting, Authorized
  <2> QED BY <1>a, <1>b, <2>1, RecordedCover, StillCovered
<1>12. CASE Release(d)
  BY <1>12, GotoCover, StillCovered DEF Release, Authorized
<1>13. CASE ChainRelease(d)
  <2>1. run.pc \in Acting /\ swarm' = [swarm EXCEPT ![d] = Recorded(@, "executed")]
    BY <1>13 DEF ChainRelease, EndEntry, Acting, Authorized
  <2> QED BY <1>a, <1>b, <2>1, RecordedCover, StillCovered
<1>14. CASE CrashDriver(d)
  BY <1>14, RaisedCover, StillCovered DEF CrashDriver
<1> QED BY <1>1, <1>2, <1>3, <1>4, <1>5, <1>6, <1>7, <1>8, <1>9, <1>10, <1>11, <1>12, <1>13, <1>14

\* An approval of a step rests on its grade alone.
Earned(approved) ==
    /\ approved.grade.says = "PASS" /\ approved.grade.tier \in AuthoritativeTiers
    /\ \A q \in ToSet(Profiles[approved.policy][approved.class]) :
          q.check = "workflow.grade" /\ approved.grade.by \in q.permitted

Grading == <<Bound("workflow.grade", StepSnapshot, workflow.grade.by, workflow.grade)>>

StepCover ==
    /\ \A s \in Steps : workflow.steps[s].outcome = "approve" => Earned(workflow.steps[s].approved)
    /\ workflow.pc = "submit" =>
          /\ StepSnapshot # None
          /\ workflow.assessment =
                Mint(StepSnapshot, JudgeWithCoverage(WorkflowTrust, StepSnapshot, Grading))

\* A step that is left with an approval has earned it.
LEMMA LeaveCover ==
    ASSUME ToldInv, StepCover, workflow.order # <<>>, NEW state, NEW outcome,
           workflow' = Leave(state, outcome),
           outcome = "approve" =>
              Earned([grade |-> workflow.grade, class |-> workflow.class, policy |-> selected])
    PROVE  StepCover'
<1> DEFINE w == workflow'
           steps == workflow.steps
           approved == [grade |-> workflow.grade, class |-> workflow.class, policy |-> selected]
           row == [state |-> state, outcome |-> outcome,
                   approved |-> IF outcome # "approve" THEN None ELSE approved]
<1>1. Current \in Steps
  BY DEF ToldInv, WorkflowShape, Current
<1>2. w.pc = "next" /\ w.steps = [steps EXCEPT ![Current] = row]
  BY DEF Leave, ToldInv, WorkflowShape
<1>3. w.steps[Current] = row /\ \A s \in Steps \ {Current} : w.steps[s] = steps[s]
  <2>1. steps = [s \in Steps |-> steps[s]]
    BY DEF ToldInv, WorkflowShape
  <2> QED BY <1>1, <1>2, <2>1
<1>4. row.outcome = outcome /\ (outcome = "approve" => row.approved = approved)
  OBVIOUS
<1> HIDE DEF row, approved, w
<1>5. ASSUME NEW s \in Steps, w.steps[s].outcome = "approve" PROVE Earned(w.steps[s].approved)
  <2>1. CASE s = Current
    BY <1>3, <1>4, <1>5, <2>1 DEF approved
  <2>2. CASE s # Current
    BY <1>3, <1>5, <2>2 DEF StepCover
  <2> QED BY <2>1, <2>2
<1> QED BY <1>2, <1>5 DEF StepCover, w

\* An approval of the step under way is earned.
LEMMA GradeCovers ==
    ASSUME StepCover, selected \in Policies, workflow.pc = "submit", NEW gate, NEW risk,
           Decide(gate, workflow.assessment, StepAction, risk).outcome = "approve"
    PROVE  Earned([grade |-> workflow.grade, class |-> workflow.class, policy |-> selected])
<1> DEFINE snap == Resolve(selected, StepAction)
           judgment == JudgeWithCoverage(WorkflowTrust, StepSnapshot, Grading)
           x == Bound("workflow.grade", StepSnapshot, workflow.grade.by, workflow.grade)
<1>1. workflow.assessment.snapshot = StepSnapshot /\ workflow.assessment.outcome = judgment
  BY DEF StepCover, Mint
<1>2. /\ Authorize(workflow.assessment, StepAction) # None
      /\ judgment.kind # "unavailable" /\ judgment.verdict = "PASS"
  <2> HIDE DEF judgment
  <2> QED BY <1>1, Approved
<1>3. snap # None /\ snap = StepSnapshot
  BY <1>1, <1>2, AuthorizedUnder
<1>4. CoverageProblem(snap, Grading) = "none"
  BY <1>2, <1>3, JudgedOnCover
<1>5. Grading = <<x>>
  BY DEF Grading
<1>6. x.check = "workflow.grade" /\ x.implementation = workflow.grade.by /\ x.outcome = workflow.grade
  BY DEF Bound
<1> HIDE DEF x, judgment, snap
<1>7. ToSet(Grading) = {x} /\ DOMAIN Grading \subseteq Nat
  BY <1>5 DEF ToSet
<1>8. /\ snap.requires = Profiles[selected][workflow.class]
      /\ DOMAIN snap.requires \subseteq Nat /\ ToSet(snap.requires) # {}
  <2>1. StepAction.class = workflow.class
    BY DEF StepAction
  <2> QED BY <1>3, <2>1, Resolved DEF snap
<1>9. \A q \in ToSet(snap.requires) : AnsweredBy(Grading, q, snap)
  BY <1>4, <1>7, <1>8, CoverageMet
<1>10. \A q \in ToSet(snap.requires) :
          /\ q.check = "workflow.grade" /\ workflow.grade.by \in q.permitted
          /\ workflow.grade.says = "PASS" /\ workflow.grade.tier \in AuthoritativeTiers
  BY <1>6, <1>7, <1>9 DEF AnsweredBy
<1> QED BY <1>8, <1>10 DEF Earned

\* Every step of the workflow keeps its approvals earned.
LEMMA StepCoverStep ==
    ASSUME ToldInv, StepCover, selected \in Policies, WorkflowNext
    PROVE  StepCover'
<1>0. /\ WorkflowShape /\ OrderInv
      /\ workflow = [pc |-> workflow.pc, policy |-> workflow.policy, depends |-> workflow.depends,
                     order |-> workflow.order, steps |-> workflow.steps, grade |-> workflow.grade,
                     class |-> workflow.class, assessment |-> workflow.assessment]
  BY DEF ToldInv, WorkflowShape
<1>a. workflow'.steps = workflow.steps /\ workflow'.pc # "submit" => StepCover'
  BY DEF StepCover
<1>1. CASE StartWorkflow
  <2>1. PICK g \in Graphs :
          workflow' = [workflow EXCEPT
              !.pc = IF Len(Order(g)) < Cardinality(Steps) THEN "refused" ELSE "next",
              !.policy = selected, !.depends = g, !.order = Order(g)]
    BY <1>1 DEF StartWorkflow
  <2>2. workflow'.steps = workflow.steps /\ workflow'.pc # "submit"
    BY <1>0, <2>1
  <2> QED BY <1>a, <2>2
<1>2. CASE HaltStep
  <2>1. workflow.order # <<>> /\ workflow' = Leave("halted", "unavailable")
    BY <1>2 DEF HaltStep, AtStep
  <2> QED BY <2>1, LeaveCover
<1>3. CASE GradeStep
  <2>1. workflow.order # <<>>
    BY <1>3 DEF GradeStep, AtStep
  <2>2. \/ workflow' = Leave("unavailable", "unavailable")
        \/ workflow' = Leave("graded", "none")
        \/ \E grade, class : workflow' = [workflow EXCEPT !.pc = "assess", !.grade = grade,
                                                          !.class = class]
    BY <1>3 DEF GradeStep, SendMessage
  <2>3. CASE workflow' = Leave("unavailable", "unavailable") \/ workflow' = Leave("graded", "none")
    BY <2>1, <2>3, LeaveCover
  <2>4. ASSUME NEW grade, NEW class,
               workflow' = [workflow EXCEPT !.pc = "assess", !.grade = grade, !.class = class]
        PROVE  StepCover'
    BY <1>0, <1>a, <2>4
  <2> QED BY <2>2, <2>3, <2>4
<1>4. CASE AssessStep
  <2> DEFINE a == Assess(WorkflowTrust, StepSnapshot, Grading)
  <2>1. workflow.order # <<>>
    BY <1>0, <1>4 DEF AssessStep, OrderInv
  <2>2. \/ workflow' = Leave("graded", "unavailable")
        \/ workflow' = [workflow EXCEPT !.pc = "raised"]
        \/ /\ StepSnapshot # None /\ a # None
           /\ workflow' = [workflow EXCEPT !.pc = "submit", !.assessment = a]
    BY <1>4 DEF AssessStep, SendMessage, Grading
  <2>3. CASE workflow' = Leave("graded", "unavailable")
    BY <2>1, <2>3, LeaveCover
  <2>4. CASE workflow' = [workflow EXCEPT !.pc = "raised"]
    BY <1>0, <1>a, <2>4
  <2>5. ASSUME StepSnapshot # None, a # None,
               workflow' = [workflow EXCEPT !.pc = "submit", !.assessment = a]
        PROVE  StepCover'
    <3>1. a = Mint(StepSnapshot, JudgeWithCoverage(WorkflowTrust, StepSnapshot, Grading))
      BY <2>5 DEF Assess
    <3> HIDE DEF a
    <3>2. /\ workflow'.pc = "submit" /\ workflow'.assessment = a
          /\ workflow'.steps = workflow.steps /\ workflow'.policy = workflow.policy
          /\ workflow'.order = workflow.order /\ workflow'.class = workflow.class
          /\ workflow'.grade = workflow.grade
      BY <1>0, <2>5
    <3>3. StepSnapshot' = StepSnapshot
      BY <3>2 DEF StepSnapshot, StepAction, Current
    <3>4. Grading' = Grading
      BY <3>2, <3>3 DEF Grading
    <3> QED BY <2>5, <3>1, <3>2, <3>3, <3>4 DEF StepCover
  <2> QED BY <2>2, <2>3, <2>4, <2>5
<1>5. CASE SubmitStep
  <2>1. workflow.pc = "submit" /\ workflow.order # <<>>
    BY <1>0, <1>5 DEF SubmitStep, OrderInv
  <2>2. PICK risk \in {"low", "medium", "high"} :
          workflow' =
             IF Decide([routeHighRisk |-> TRUE], workflow.assessment, StepAction, risk).outcome = "raised"
             THEN [workflow EXCEPT !.pc = "raised"]
             ELSE SendMessage(Decide([routeHighRisk |-> TRUE], workflow.assessment, StepAction, risk).outcome)
    BY <1>5 DEF SubmitStep
  <2> DEFINE o == Decide([routeHighRisk |-> TRUE], workflow.assessment, StepAction, risk).outcome
  <2>3. CASE o = "raised"
    <3>1. workflow' = [workflow EXCEPT !.pc = "raised"]
      BY <2>2, <2>3
    <3> QED BY <1>0, <1>a, <3>1
  <2>4. CASE o # "raised"
    <3>1. workflow' = Leave("graded", o)
      BY <2>2, <2>4 DEF SendMessage
    <3>2. o = "approve" =>
            Earned([grade |-> workflow.grade, class |-> workflow.class, policy |-> selected])
      BY <2>1, GradeCovers
    <3> HIDE DEF o
    <3> QED BY <2>1, <3>1, <3>2, LeaveCover
  <2> QED BY <2>3, <2>4
<1> QED BY <1>1, <1>2, <1>3, <1>4, <1>5 DEF WorkflowNext

\* An action is executed, by the swarm or for a workflow, only where every
\* requirement that the policy selected at the decision makes of it was answered
\* by an authoritative PASS on this very attempt, and no report of the swarm's
\* verifiers is a FAIL (validate_coverage, ExecutionAuthorizer.authorize,
\* ActionGate.decide).
THEOREM ActsOnCover == Spec => []ActedOnCovered
<1> DEFINE Inv == SwarmTypes /\ ToldInv /\ StepCover /\ \A d \in Drivers : CoverRun(swarm[d])
<1>1. Init => Inv
  <2> SUFFICES ASSUME Init PROVE Inv
    OBVIOUS
  <2>1. SwarmTypes /\ \A d \in Drivers : swarm[d].pc \in {"off", "ready"} /\ ~ swarm[d].ran
    BY SwarmTypesStart
  <2>2. \A d \in Drivers : CoverRun(swarm[d])
    BY <2>1 DEF CoverRun, Authorized
  <2>3. ToldInv
    BY ToldStart DEF Init
  <2>4. StepCover
    <3>1. workflow.pc # "submit" /\ workflow.steps = [s \in Steps |-> NoStep]
      BY DEF Init, WorkflowInit, NoWorkflow
    <3> QED BY <3>1 DEF StepCover, NoStep
  <2> QED BY <2>1, <2>2, <2>3, <2>4
<1>2. Inv /\ [Next]_vars => Inv'
  <2> SUFFICES ASSUME Inv, [Next]_vars PROVE Inv'
    OBVIOUS
  <2>1. SwarmTypes'
    BY SwarmTypesStep
  <2>2. ToldInv' /\ StepCover'
    <3>1. WorkflowNext \/ UNCHANGED workflow
      BY DEF Next, Rotation, vars
    <3>2. CASE WorkflowNext
      BY <3>2, ToldStep, StepCoverStep DEF SwarmTypes
    <3>3. CASE UNCHANGED workflow
      <4>1. StepSnapshot' = StepSnapshot /\ Grading' = Grading
        BY <3>3 DEF StepSnapshot, StepAction, Current, Grading
      <4> QED BY <3>3, <4>1, ToldStutter DEF StepCover
    <3> QED BY <3>1, <3>2, <3>3
  <2>3. \A d \in Drivers : CoverRun(swarm'[d])
    <3>1. CASE UNCHANGED swarm
      BY <3>1
    <3>2. CASE SwarmNext
      <4>1. PICK d \in Drivers :
               \/ Start(d) \/ JudgeHypothesis(d) \/ Unresolved(d) \/ Verify(d) \/ AssessEntry(d)
               \/ DecideEntry(d) \/ CheckSpend(d) \/ Claim(d) \/ ChainSpend(d) \/ Execute(d)
               \/ Complete(d) \/ Release(d) \/ ChainRelease(d) \/ CrashDriver(d)
        BY <3>2 DEF SwarmNext
      <4>2. CoverRun(swarm'[d])
        BY <4>1, CoverStep
      <4>3. \A e \in Drivers \ {d} : swarm'[e] = swarm[e]
        BY <4>1, DriverStep DEF Effect, Moved
      <4> QED BY <4>2, <4>3
    <3>3. SwarmNext \/ UNCHANGED swarm
      BY DEF Next, Rotation, vars, swarmVars
    <3> QED BY <3>1, <3>2, <3>3
  <2> QED BY <2>1, <2>2, <2>3
<1>3. Inv => ActedOnCovered
  <2> SUFFICES ASSUME Inv PROVE ActedOnCovered
    OBVIOUS
  <2>1. \A d \in Drivers : swarm[d].ran => Covered(swarm[d])
    BY DEF CoverRun
  <2>2. \A s \in Steps : workflow.steps[s].outcome = "approve" => Earned(workflow.steps[s].approved)
    BY DEF StepCover
  <2> QED BY <2>1, <2>2 DEF ActedOnCovered, Covered, Earned
<1> QED BY <1>1, <1>2, <1>3, PTL DEF Spec

-----------------------------------------------------------------------------
(* What a promotion is earned with.                                         *)

\* The trust store of the cycle: the hard verifier as it was registered.
TrustOK(t) ==
    /\ t = [v \in {"subprocess-tests", "advisor"} |-> t[v]]
    /\ t["subprocess-tests"] = TrustStats("hard")
    /\ t["advisor"] = [tier |-> "soft", tp |-> t["advisor"].tp, fn |-> t["advisor"].fn,
                       tn |-> t["advisor"].tn, fp |-> t["advisor"].fp]

\* What a reference verdict teaches the bank about the advisor.
LEMMA AdvisorLearns ==
    ASSUME NEW t, TrustOK(t), NEW says \in {"PASS", "FAIL"}, NEW verdict \in {"PASS", "FAIL"}
    PROVE  TrustOK(Put(t, "advisor", Updated(t["advisor"], says, verdict)))
<1> DEFINE s == t["advisor"]
           u == Updated(s, says, verdict)
           p == Put(t, "advisor", u)
<1>1. s = [tier |-> "soft", tp |-> s.tp, fn |-> s.fn, tn |-> s.tn, fp |-> s.fp]
  BY DEF TrustOK
<1>2. u = [tier |-> "soft", tp |-> u.tp, fn |-> u.fn, tn |-> u.tn, fp |-> u.fp]
  <2> HIDE DEF s
  <2>1. CASE verdict = "PASS" /\ says = "PASS"
    <3>1. u = [s EXCEPT !.tp = @ + 1]
      BY <2>1 DEF Updated
    <3> HIDE DEF u
    <3> QED BY <1>1, <3>1
  <2>2. CASE verdict = "PASS" /\ says = "FAIL"
    <3>1. u = [s EXCEPT !.fn = @ + 1]
      BY <2>2 DEF Updated
    <3> HIDE DEF u
    <3> QED BY <1>1, <3>1
  <2>3. CASE verdict = "FAIL" /\ says = "FAIL"
    <3>1. u = [s EXCEPT !.tn = @ + 1]
      BY <2>3 DEF Updated
    <3> HIDE DEF u
    <3> QED BY <1>1, <3>1
  <2>4. CASE verdict = "FAIL" /\ says = "PASS"
    <3>1. u = [s EXCEPT !.fp = @ + 1]
      BY <2>4 DEF Updated
    <3> HIDE DEF u
    <3> QED BY <1>1, <3>1
  <2> QED BY <2>1, <2>2, <2>3, <2>4
<1> HIDE DEF u
<1>3. p = [t EXCEPT !["advisor"] = u]
  BY DEF Put
<1>4. t = [v \in {"subprocess-tests", "advisor"} |-> t[v]] /\ t["subprocess-tests"] = TrustStats("hard")
  BY DEF TrustOK
<1> HIDE DEF p
<1>5. /\ p = [v \in {"subprocess-tests", "advisor"} |-> p[v]]
      /\ p["advisor"] = u /\ p["subprocess-tests"] = t["subprocess-tests"]
  BY <1>3, <1>4
<1>6. TrustOK(p)
  BY <1>2, <1>4, <1>5 DEF TrustOK
<1> QED BY <1>6 DEF p, u

\* The hard verifier's verdict is the bank's, whatever the advisor says, and the
\* bank learns nothing about the hard verifier.
LEMMA HardDecides ==
    ASSUME NEW t, TrustOK(t), NEW hard, NEW advice, NEW s, NEW a, NEW b, Two(s, a, b),
           a = Outcome("subprocess-tests", "hard", hard), b = Outcome("advisor", "soft", advice)
    PROVE  /\ TrustOK(Judge(t, s).trust)
           /\ hard \in {"PASS", "FAIL"} => /\ Judge(t, s).outcome.kind = "judgment"
                                           /\ Judge(t, s).outcome.verdict = hard
<1> DEFINE U == Verdicts \ {"ABSTAIN"}
           usable == Saying(Graded(s), U)
           auth == Judged(t, usable, AuthoritativeTiers)
           adv == Judged(t, usable, Tiers \ AuthoritativeTiers)
<1>1. a.by = "subprocess-tests" /\ a.says = hard /\ b.by = "advisor" /\ b.says = advice
  BY DEF Outcome
<1>2. t[a.by] = TrustStats("hard") /\ t[a.by].tier = "hard" /\ t[b.by].tier = "soft"
  BY <1>1 DEF TrustOK, TrustStats
<1>3. U \subseteq Verdicts /\ (\A x : x \in U <=> x = "PASS" \/ x = "FAIL")
  BY DEF Verdicts
<1> HIDE DEF U
<1>4. /\ a.says \in U /\ b.says \in U => usable = s
      /\ a.says \in U /\ b.says \notin U => One(usable, a)
      /\ a.says \notin U /\ b.says \in U => One(usable, b)
      /\ a.says \notin U /\ b.says \notin U => usable = <<>>
  <2> DEFINE G == Graded(s)
  <2>1. /\ a.says \in Verdicts /\ b.says \in Verdicts => G = s
        /\ a.says \in Verdicts /\ b.says \notin Verdicts => One(G, a)
        /\ a.says \notin Verdicts /\ b.says \in Verdicts => One(G, b)
        /\ a.says \notin Verdicts /\ b.says \notin Verdicts => G = <<>>
    BY SortTwo DEF Graded
  <2> HIDE DEF G
  <2>2. CASE G = s
    BY <2>2, SortTwo DEF G
  <2>3. CASE a.says \in Verdicts /\ b.says \notin Verdicts
    BY <1>3, <2>1, <2>3, SortOne DEF G
  <2>4. CASE a.says \notin Verdicts /\ b.says \in Verdicts
    BY <1>3, <2>1, <2>4, SortOne DEF G
  <2>5. CASE a.says \notin Verdicts /\ b.says \notin Verdicts
    BY <1>3, <2>1, <2>5, SortNone DEF G
  <2> QED BY <2>1, <2>2, <2>3, <2>4, <2>5
<1>5. ToSet(usable) \subseteq {a, b}
  <2> HIDE DEF usable
  <2>1. ToSet(s) = {a, b}
    BY DEF Two, ToSet
  <2>2. \A x : One(usable, x) => ToSet(usable) = {x}
    BY DEF One, ToSet
  <2>3. usable = <<>> => ToSet(usable) = {}
    BY DEF ToSet
  <2> QED BY <1>4, <2>1, <2>2, <2>3
<1>6. Ensured(t, usable) = t
  <2> HIDE DEF usable
  <2>1. DOMAIN t = {"subprocess-tests", "advisor"} /\ t = [v \in DOMAIN t |-> t[v]]
    BY DEF TrustOK
  <2>2. DOMAIN t \cup {o.by : o \in ToSet(usable)} = DOMAIN t
    BY <1>1, <1>5, <2>1
  <2> QED BY <2>1, <2>2 DEF Ensured
<1>7. /\ auth # <<>> => Judge(t, s) = AuthoritativeJudgment(t, auth, adv)
      /\ auth = <<>> => Judge(t, s).trust = t
  BY <1>6 DEF Judge, U
<1>8. "hard" \in AuthoritativeTiers /\ "soft" \notin AuthoritativeTiers
      /\ "hard" \notin Tiers \ AuthoritativeTiers /\ "soft" \in Tiers \ AuthoritativeTiers
  BY DEF AuthoritativeTiers, Tiers
<1> HIDE DEF usable
<1>9. a.says \in U => One(auth, a) /\ (adv = <<>> \/ (b.says \in U /\ One(adv, b)))
  <2>1. CASE b.says \in U
    BY <1>2, <1>4, <1>8, <2>1, SortTwo
  <2>2. CASE b.says \notin U
    BY <1>2, <1>4, <1>8, <2>2, SortOne
  <2> QED BY <2>1, <2>2
<1>10. a.says \notin U => auth = <<>>
  <2>1. CASE b.says \in U
    BY <1>2, <1>4, <1>8, <2>1, SortOne
  <2>2. CASE b.says \notin U
    BY <1>4, <2>2, SortNone
  <2> QED BY <2>1, <2>2
<1> HIDE DEF auth, adv
<1>11. CASE a.says \notin U
  BY <1>1, <1>3, <1>7, <1>10, <1>11
<1>12. CASE a.says \in U
  <2>1. One(auth, a) /\ auth # <<>>
    BY <1>9, <1>12 DEF One
  <2>2. /\ Judged(t, auth, {"human"}) = <<>> /\ Judged(t, auth, {"hard"}) = auth
        /\ Judged(t, auth, AuthoritativeTiers \ {"hard"}) = <<>>
    BY <1>2, <2>1, SortOne
  <2>3. Fused(Odds(t, auth)) = hard
    BY <1>1, <1>2, <1>3, <1>12, <2>1, HardOne
  <2>4. <<>> \o adv = adv
    <3>1. CASE adv = <<>>
      BY <3>1
    <3>2. CASE One(adv, b)
      BY <3>2 DEF One
    <3> QED BY <1>9, <1>12, <3>1, <3>2
  <2>5. /\ AuthoritativeJudgment(t, auth, adv).outcome.kind = "judgment"
        /\ AuthoritativeJudgment(t, auth, adv).outcome.verdict = hard
        /\ AuthoritativeJudgment(t, auth, adv).trust = Calibrated(t, adv, hard)
    BY <2>2, <2>3, <2>4 DEF AuthoritativeJudgment, Judgment
  <2>6. TrustOK(Calibrated(t, adv, hard))
    <3>1. CASE adv = <<>>
      <4>1. Len(adv) = 0
        BY <3>1
      <4>2. Calibrated(t, adv, hard) = t
        BY <4>1, CalibratedUnfolds
      <4> QED BY <4>2
    <3>2. CASE b.says \in U /\ One(adv, b)
      <4>1. Len(adv) = 1 /\ adv[1] = b
        BY <3>2 DEF One
      <4>2. Calibrated(t, adv, hard) = Learn(t, adv, hard, 1, t)
        BY <4>1, CalibratedUnfolds
      <4>3. Learn(t, adv, hard, 1, t) = Put(t, "advisor", Updated(t["advisor"], advice, hard))
        BY <1>1, <4>1 DEF Learn
      <4> QED BY <1>1, <1>3, <1>12, <3>2, <4>2, <4>3, AdvisorLearns
    <3> QED BY <1>9, <1>12, <3>1, <3>2
  <2> QED BY <1>7, <2>1, <2>5, <2>6
<1> QED BY <1>11, <1>12

\* What is left when the first candidate has been evaluated, promoted or not.
LEMMA NextSkill ==
    ASSUME NEW m \in Seq(1..Train), m # <<>>
    PROVE  Head(m) \in 1..Train /\ Tail(m) \in Seq(1..Train)
<1>1. Len(m) \in Nat /\ Len(m) >= 1 /\ 1 \in 1..Len(m) /\ Head(m) = m[1]
  OBVIOUS
<1>2. m[1] \in 1..Train
  BY <1>1, ElementOfSeq
<1> QED BY <1>1, <1>2

\* The forge names clusters that failed, whether or not the registry has them.
LEMMA MinedSkills ==
    ASSUME NEW failed, failed \subseteq 1..Train
    PROVE  Mine(failed) \in Seq(1..Train)
<1> USE LoopAssumption
<1> DEFINE B(n) == {d \in failed : d <= n}
           C == Cardinality(failed)
<1>0. \A d \in failed : d \in Nat /\ 1 <= d /\ d <= Train
  OBVIOUS
<1>1. IsFiniteSet(failed) /\ C \in Nat
  <2>1. IsFiniteSet(1..Train)
    BY FS_Interval
  <2>2. IsFiniteSet(failed)
    BY <2>1, FS_Subset
  <2> QED BY <2>2, FS_CardinalityType
<1>2. \A n \in Nat : IsFiniteSet(B(n)) /\ Cardinality(B(n)) \in Nat
  <2> SUFFICES ASSUME NEW n \in Nat PROVE IsFiniteSet(B(n)) /\ Cardinality(B(n)) \in Nat
    OBVIOUS
  <2>1. B(n) \subseteq failed
    OBVIOUS
  <2>2. IsFiniteSet(B(n))
    BY <1>1, <2>1, FS_Subset
  <2> QED BY <2>2, FS_CardinalityType
<1>3. Cardinality(B(0)) = 0
  <2>1. \A d \in failed : ~ (d <= 0)
    BY <1>0
  <2>2. B(0) = {}
    BY <2>1
  <2> QED BY <2>2, FS_EmptySet
<1>4. B(Train) = failed
  BY <1>0
<1>5. ASSUME NEW n \in Nat, n # 0
      PROVE  /\ n \in failed => Cardinality(B(n)) = Cardinality(B(n - 1)) + 1
             /\ n \notin failed => Cardinality(B(n)) = Cardinality(B(n - 1))
  <2>0. n - 1 \in Nat
    BY <1>5
  <2>1. CASE n \in failed
    <3>0. /\ \A d \in failed : d <= n <=> d <= n - 1 \/ d = n
          /\ ~ (n <= n - 1)
      BY <1>0, <1>5
    <3>1. B(n) = B(n - 1) \cup {n} /\ n \notin B(n - 1)
      BY <2>1, <3>0
    <3>2. Cardinality(B(n - 1) \cup {n}) = Cardinality(B(n - 1)) + 1
      BY <1>2, <2>0, <3>1, FS_AddElement
    <3> QED BY <2>1, <3>1, <3>2
  <2>2. CASE n \notin failed
    <3>0. \A d \in failed : d <= n <=> d <= n - 1
      BY <1>0, <1>5, <2>2
    <3>1. B(n) = B(n - 1)
      BY <3>0
    <3> QED BY <2>2, <3>1
  <2> QED BY <2>1, <2>2
<1>6. ASSUME NEW i \in 1..C
      PROVE  \E c \in failed : Cardinality(B(c)) = i
  <2> HIDE DEF B
  <2> DEFINE T == {n \in Nat : Cardinality(B(n)) >= i}
  <2>1. Train \in T
    BY <1>1, <1>4
  <2>2. PICK n \in T : \A k \in T : n <= k
    <3>1. T \subseteq Nat /\ T # {}
      BY <2>1
    <3> HIDE DEF T
    <3> QED BY <3>1, LeastNumber
  <2>3. n \in Nat /\ Cardinality(B(n)) >= i
    BY <2>2
  <2>4. n # 0
    BY <1>3, <2>3
  <2>5. n - 1 \in Nat /\ n - 1 \notin T
    <3>1. n - 1 \in Nat /\ ~ (n <= n - 1)
      BY <2>3, <2>4
    <3> HIDE DEF T
    <3> QED BY <2>2, <3>1
  <2>6. Cardinality(B(n - 1)) \in Nat /\ Cardinality(B(n)) \in Nat
    BY <1>2, <2>3, <2>5
  <2>8. Cardinality(B(n - 1)) < i
    BY <2>5, <2>6
  <2> HIDE DEF C
  <2>7. n \in failed /\ Cardinality(B(n)) = i
    BY <1>1, <1>5, <2>3, <2>4, <2>6, <2>8
  <2> QED BY <2>7
<1> DEFINE m == Mine(failed)
<1>7. m = [i \in 1..C |-> CHOOSE c \in failed : Cardinality(B(c)) = i]
  BY DEF Mine
<1> HIDE DEF m, B, C
<1>8. \A i \in 1..C : m[i] \in failed /\ Cardinality(B(m[i])) = i
  BY <1>6, <1>7
<1>9. m \in Seq(1..Train)
  <2>1. m \in [1..C -> 1..Train]
    BY <1>7, <1>8
  <2> QED BY <1>1, <2>1, SeqDef
<1> QED BY <1>9 DEF m

Size(phase) == IF phase = "train" THEN Train ELSE HeldOut

\* A measurement over n tasks.  Where the hard verifier gave a verdict on every
\* one, what was counted is what it passed, out of all of them.
MeasureOK(m, n) ==
    /\ m = [skills |-> m.skills, passed |-> m.passed, decided |-> m.decided, hard |-> m.hard,
            sound |-> m.sound]
    /\ m.skills \subseteq 1..Train /\ m.sound \in BOOLEAN
    /\ m.passed \in Nat /\ m.decided \in Nat /\ m.hard \in Nat
    /\ m.passed <= m.decided /\ m.decided <= n /\ m.hard <= n
    /\ m.sound => m.passed = m.hard /\ m.decided = n

\* What of the cycle the next measurement starts from.
CycleCore(l) ==
    /\ l = [pc |-> l.pc, phase |-> l.phase, advice |-> l.advice, overlap |-> l.overlap,
            left |-> l.left, now |-> l.now, base |-> l.base, failed |-> l.failed,
            mined |-> l.mined, registry |-> l.registry]
    /\ l.failed \subseteq 1..Train /\ l.registry \subseteq 1..Train /\ l.mined \in Seq(1..Train)

CyclePhases == {"before", "train", "score", "rebase", "after"}

\* Where the cycle is and what its measurements are of: the baseline is of the
\* registry, as this cycle has it, whenever a candidate goes to the gate.
CycleOK(l) ==
    /\ CycleCore(l)
    /\ l.pc \in {"off", "measure", "gate", "promoted", "raised", "done"} /\ l.phase \in CyclePhases
    /\ l.left \in 0..Size(l.phase) /\ (l.pc \in {"gate", "promoted"} => l.left = 0)
    /\ MeasureOK(l.now, Size(l.phase) - l.left)
    /\ (l.phase # "before" => MeasureOK(l.base, HeldOut))
    /\ (l.phase = "before" => l.base = Measurement({}))
    /\ (l.phase \in {"before", "rebase"} => l.now.skills = l.registry)
    /\ (l.phase = "train" => l.base.skills = l.registry)
    /\ (l.pc = "gate" => l.phase # "before" /\ l.mined # <<>> /\ l.base.skills = l.registry)
    /\ (l.phase = "score" /\ l.pc = "measure" =>
           /\ l.mined # <<>> /\ ~l.overlap /\ l.base.skills = l.registry
           /\ l.now.skills = l.registry \cup {Head(l.mined)})
    /\ (l.pc = "promoted" => l.phase = "score" /\ l.mined # <<>>)

\* A measurement of no task yet.
LEMMA MeasureStarts ==
    ASSUME NEW skills, skills \subseteq 1..Train
    PROVE  MeasureOK(Measurement(skills), 0) /\ Measurement(skills).skills = skills
BY DEF MeasureOK, Measurement

\* run_split starts.
LEMMA RunStarts ==
    ASSUME NEW s, CycleCore(s), NEW phase \in CyclePhases, NEW extra, extra \subseteq 1..Train,
           phase = "before" => s.base = Measurement({}),
           phase # "before" => MeasureOK(s.base, HeldOut),
           phase = "train" => s.base.skills = s.registry,
           phase \in {"before", "rebase"} => extra = {},
           phase = "score" => /\ s.mined # <<>> /\ ~s.overlap /\ s.base.skills = s.registry
                              /\ extra = {Head(s.mined)}
    PROVE  CycleOK(Run(s, phase, extra))
<1> DEFINE r == Run(s, phase, extra)
           left == Size(phase)
           now == Measurement(s.registry \cup extra)
<1>1. r = [s EXCEPT !.pc = "measure", !.phase = phase, !.now = now, !.left = left]
  BY DEF Run, Size
<1>2. s.registry \cup extra \subseteq 1..Train
  BY DEF CycleCore
<1>3. MeasureOK(now, 0) /\ now.skills = s.registry \cup extra
  BY <1>2, MeasureStarts
<1>4. left \in Nat
  BY LoopAssumption DEF Size
<1> HIDE DEF r, now
<1>5. r = [pc |-> "measure", phase |-> phase, advice |-> s.advice, overlap |-> s.overlap,
           left |-> left, now |-> now, base |-> s.base, failed |-> s.failed,
           mined |-> s.mined, registry |-> s.registry]
  BY <1>1 DEF CycleCore
<1>6. CycleCore(r)
  BY <1>5 DEF CycleCore
<1>7. left \in 0..Size(phase) /\ Size(phase) - left = 0
  BY <1>4
<1> HIDE DEF left
<1>8. MeasureOK(r.now, Size(r.phase) - r.left) /\ r.left \in 0..Size(r.phase)
  BY <1>3, <1>5, <1>7
<1>9. CycleOK(r)
  BY <1>3, <1>5, <1>6, <1>8 DEF CycleOK, CyclePhases
<1> QED BY <1>9 DEF r

\* A candidate goes to the gate, or the cycle is measured a last time.
LEMMA EvaluateGoesOn ==
    ASSUME NEW s, CycleCore(s), s.phase \in CyclePhases \ {"before"}, s.left = 0,
           MeasureOK(s.now, Size(s.phase)), MeasureOK(s.base, HeldOut),
           s.base.skills = s.registry,
           s.phase = "rebase" => s.now.skills = s.registry
    PROVE  CycleOK(Evaluate(s))
<1>1. CASE s.mined = <<>>
  <2>1. Evaluate(s) = Run(s, "after", {})
    BY <1>1 DEF Evaluate
  <2>2. CycleOK(Run(s, "after", {}))
    BY RunStarts DEF CyclePhases
  <2> QED BY <2>1, <2>2
<1>2. CASE s.mined # <<>>
  <2> DEFINE r == Evaluate(s)
  <2>1. r = [s EXCEPT !.pc = "gate"]
    BY <1>2 DEF Evaluate
  <2> HIDE DEF r
  <2>2. r = [pc |-> "gate", phase |-> s.phase, advice |-> s.advice, overlap |-> s.overlap,
             left |-> s.left, now |-> s.now, base |-> s.base, failed |-> s.failed,
             mined |-> s.mined, registry |-> s.registry]
    BY <2>1 DEF CycleCore
  <2>3. CycleCore(r)
    BY <2>2 DEF CycleCore
  <2>4. Size(s.phase) \in Nat
    BY LoopAssumption DEF Size
  <2>5. r.left \in 0..Size(r.phase) /\ r.left = 0 /\ Size(r.phase) - r.left = Size(s.phase)
    BY <2>2, <2>4
  <2>6. CycleOK(r)
    BY <1>2, <2>2, <2>3, <2>5 DEF CycleOK, CyclePhases
  <2> QED BY <2>6 DEF r
<1> QED BY <1>1, <1>2

\* What the judgment of a task makes of the cycle.
Taken(l, n, failed) == [l EXCEPT !.left = @ - 1, !.now = n, !.failed = failed]

\* A task more in a measurement, field by field.
LEMMA CountsReplaced ==
    ASSUME NEW m, NEW hard, NEW counts, NEW passed,
           m = [skills |-> m.skills, passed |-> m.passed, decided |-> m.decided, hard |-> m.hard,
                sound |-> m.sound]
    PROVE  Counted(m, hard, counts, passed) =
              [skills |-> m.skills, passed |-> IF passed THEN m.passed + 1 ELSE m.passed,
               decided |-> IF counts THEN m.decided + 1 ELSE m.decided,
               hard |-> IF hard = "PASS" THEN m.hard + 1 ELSE m.hard,
               sound |-> m.sound /\ hard \in {"PASS", "FAIL"}]
<1> DEFINE p == IF passed THEN m.passed + 1 ELSE m.passed
           d == IF counts THEN m.decided + 1 ELSE m.decided
           h == IF hard = "PASS" THEN m.hard + 1 ELSE m.hard
           v == m.sound /\ hard \in {"PASS", "FAIL"}
           n == Counted(m, hard, counts, passed)
<1>1. n = [m EXCEPT !.passed = p, !.decided = d, !.hard = h, !.sound = v]
  BY Zenon DEF Counted
<1> HIDE DEF n, p, d, h, v
<1>2. n = [skills |-> m.skills, passed |-> p, decided |-> d, hard |-> h, sound |-> v]
  BY <1>1
<1> QED BY <1>2, Zenon DEF n, p, d, h, v

\* A task less to do, field by field.
LEMMA TaskReplaced ==
    ASSUME NEW l, NEW n, NEW failed,
           l = [pc |-> l.pc, phase |-> l.phase, advice |-> l.advice, overlap |-> l.overlap,
                left |-> l.left, now |-> l.now, base |-> l.base, failed |-> l.failed,
                mined |-> l.mined, registry |-> l.registry]
    PROVE  Taken(l, n, failed) =
              [pc |-> l.pc, phase |-> l.phase, advice |-> l.advice, overlap |-> l.overlap,
               left |-> l.left - 1, now |-> n, base |-> l.base, failed |-> failed,
               mined |-> l.mined, registry |-> l.registry]
<1> DEFINE r == Taken(l, n, failed)
<1>1. r = [l EXCEPT !.left = @ - 1, !.now = n, !.failed = failed]
  BY DEF Taken
<1> HIDE DEF r
<1>2. r = [pc |-> l.pc, phase |-> l.phase, advice |-> l.advice, overlap |-> l.overlap,
           left |-> l.left - 1, now |-> n, base |-> l.base, failed |-> failed,
           mined |-> l.mined, registry |-> l.registry]
  BY <1>1
<1> QED BY <1>2 DEF r

\* One more task has been judged: a verdict of the hard verifier is counted as
\* what it is.
LEMMA TaskCounted ==
    ASSUME NEW l, CycleOK(l), l.pc = "measure", l.left > 0, NEW hard, NEW failed,
           NEW counts \in BOOLEAN, NEW passed \in BOOLEAN, passed => counts,
           hard \in {"PASS", "FAIL"} => counts /\ (passed <=> hard = "PASS"),
           failed \subseteq 1..Train
    PROVE  CycleOK(Taken(l, Counted(l.now, hard, counts, passed), failed))
<1> DEFINE done == Size(l.phase) - l.left
           p == IF passed THEN l.now.passed + 1 ELSE l.now.passed
           d == IF counts THEN l.now.decided + 1 ELSE l.now.decided
           h == IF hard = "PASS" THEN l.now.hard + 1 ELSE l.now.hard
           v == l.now.sound /\ hard \in {"PASS", "FAIL"}
           n == Counted(l.now, hard, counts, passed)
           r == Taken(l, n, failed)
<1>1. MeasureOK(l.now, done) /\ l.left \in 0..Size(l.phase) /\ Size(l.phase) \in Nat
  BY LoopAssumption DEF CycleOK, Size
<1>2. l.left \in Nat /\ l.left - 1 \in 0..Size(l.phase) /\ done \in Nat
      /\ Size(l.phase) - (l.left - 1) = done + 1
  BY <1>1
<1> HIDE DEF done
<1>3. MeasureOK(n, done + 1) /\ n.skills = l.now.skills
  <2>1. l.now = [skills |-> l.now.skills, passed |-> l.now.passed, decided |-> l.now.decided,
                 hard |-> l.now.hard, sound |-> l.now.sound]
    BY <1>1 DEF MeasureOK
  <2>2. n = [skills |-> l.now.skills, passed |-> p, decided |-> d, hard |-> h, sound |-> v]
    BY <2>1, CountsReplaced
  <2>7. v \in BOOLEAN /\ (v => l.now.sound /\ hard \in {"PASS", "FAIL"})
    OBVIOUS
  <2> HIDE DEF n, v
  <2>3. /\ n.skills = l.now.skills /\ n.passed = p /\ n.decided = d /\ n.hard = h
        /\ n.sound \in BOOLEAN /\ n.sound = v
        /\ n = [skills |-> n.skills, passed |-> n.passed, decided |-> n.decided, hard |-> n.hard,
                sound |-> n.sound]
    BY <2>2, <2>7
  <2>4. /\ p \in Nat /\ d \in Nat /\ h \in Nat
        /\ p <= d /\ d <= done + 1 /\ h <= done + 1
    BY <1>1, <1>2 DEF MeasureOK
  <2>5. v => p = h /\ d = done + 1
    <3> SUFFICES ASSUME v PROVE p = h /\ d = done + 1
      OBVIOUS
    <3>1. l.now.passed = l.now.hard /\ l.now.decided = done /\ hard \in {"PASS", "FAIL"}
      BY <1>1, <2>7 DEF MeasureOK
    <3> QED BY <3>1
  <2>6. l.now.skills \subseteq 1..Train
    BY <1>1 DEF MeasureOK
  <2> QED BY <2>3, <2>4, <2>5, <2>6 DEF MeasureOK
<1> HIDE DEF n
<1>4. r = [pc |-> l.pc, phase |-> l.phase, advice |-> l.advice, overlap |-> l.overlap,
           left |-> l.left - 1, now |-> n, base |-> l.base, failed |-> failed,
           mined |-> l.mined, registry |-> l.registry]
  <2>1. l = [pc |-> l.pc, phase |-> l.phase, advice |-> l.advice, overlap |-> l.overlap,
             left |-> l.left, now |-> l.now, base |-> l.base, failed |-> l.failed,
             mined |-> l.mined, registry |-> l.registry]
    BY DEF CycleOK, CycleCore
  <2> QED BY <2>1, TaskReplaced
<1> HIDE DEF r
<1>5. CycleCore(r)
  BY <1>4 DEF CycleOK, CycleCore
<1>6. MeasureOK(r.now, Size(r.phase) - r.left) /\ r.left \in 0..Size(r.phase)
  BY <1>2, <1>3, <1>4
<1>7. CycleOK(r)
  BY <1>3, <1>4, <1>5, <1>6 DEF CycleOK
<1> QED BY <1>7 DEF r, n

\* The state of a cycle after a step that promotes nothing.
Unpromoted(r) == r.registry = loop.registry /\ r.pc # "promoted"

\* A task of run_split, judged.
LEMMA AttemptKeeps ==
    ASSUME CycleOK(loop), TrustOK(trust), AttemptTask
    PROVE  CycleOK(loop') /\ TrustOK(trust') /\ Unpromoted(loop')
<1>1. PICK hard \in Verdicts \cup Faults, advice \in loop.advice :
        LET judged == Judge(trust, <<Outcome("subprocess-tests", "hard", hard),
                                     Outcome("advisor", "soft", advice)>>)
            counts == judged.outcome.kind = "judgment"
            passed == counts /\ judged.outcome.verdict = "PASS"
        IN  /\ trust' = judged.trust
            /\ loop' = [loop EXCEPT
                  !.left = @ - 1,
                  !.now = Counted(@, hard, counts, passed),
                  !.failed = IF loop.phase = "train" /\ counts /\ ~passed
                             THEN @ \cup {loop.left} ELSE @]
  BY DEF AttemptTask
<1> DEFINE a == Outcome("subprocess-tests", "hard", hard)
           b == Outcome("advisor", "soft", advice)
           s == <<a, b>>
           judged == Judge(trust, s)
           counts == judged.outcome.kind = "judgment"
           passed == counts /\ judged.outcome.verdict = "PASS"
           failed == IF loop.phase = "train" /\ counts /\ ~passed
                     THEN loop.failed \cup {loop.left} ELSE loop.failed
           r == Taken(loop, Counted(loop.now, hard, counts, passed), failed)
<1>2. loop.pc = "measure" /\ loop.left > 0
  BY DEF AttemptTask
<1>3. Two(s, a, b)
  BY DEF Two
<1>4. TrustOK(judged.trust) /\ (hard \in {"PASS", "FAIL"} => counts /\ (passed <=> hard = "PASS"))
  <2> HIDE DEF s
  <2> QED BY <1>3, HardDecides
<1> HIDE DEF judged
<1>5. /\ trust' = judged.trust
      /\ loop' = r
  BY <1>1, Zenon DEF judged, Taken
<1>6. loop.phase = "train" => loop.left \in 1..Train
  BY <1>2, LoopAssumption DEF CycleOK, Size
<1>7. failed \subseteq 1..Train
  BY <1>6 DEF CycleOK, CycleCore
<1> HIDE DEF failed
<1>8. counts \in BOOLEAN /\ passed \in BOOLEAN /\ (passed => counts)
  OBVIOUS
<1> HIDE DEF counts, passed
<1>9. CycleOK(r)
  BY <1>2, <1>4, <1>7, <1>8, TaskCounted
<1>10. Unpromoted(r)
  <2> DEFINE n == Counted(loop.now, hard, counts, passed)
  <2>1. loop = [pc |-> loop.pc, phase |-> loop.phase, advice |-> loop.advice,
                overlap |-> loop.overlap, left |-> loop.left, now |-> loop.now,
                base |-> loop.base, failed |-> loop.failed, mined |-> loop.mined,
                registry |-> loop.registry]
    BY DEF CycleOK, CycleCore
  <2> HIDE DEF n
  <2>2. Taken(loop, n, failed).registry = loop.registry /\ Taken(loop, n, failed).pc = loop.pc
    BY <2>1, TaskReplaced
  <2> QED BY <1>2, <2>2 DEF Unpromoted, n
<1> QED BY <1>4, <1>5, <1>9, <1>10

\* A rate of more than another, over the same number of tasks.
LEMMA MoreOfTheSame ==
    ASSUME NEW a \in Nat, NEW b \in Nat, NEW n \in Nat, a * n > b * n
    PROVE  a > b
<1>1. CASE n = 0
  BY <1>1
<1>2. CASE n > 0 /\ a <= b
  <2>1. a * n <= b * n
    BY <1>2
  <2>2. a * n \in Nat /\ b * n \in Nat
    OBVIOUS
  <2> QED BY <2>1, <2>2
<1> QED BY <1>1, <1>2

\* Where the hard verifier gave every verdict, a better rate is more passes.
LEMMA BetterIsMore ==
    ASSUME NEW a, NEW b, MeasureOK(a, HeldOut), MeasureOK(b, HeldOut), Better(a, b),
           a.sound, b.sound
    PROVE  a.hard > b.hard
<1>1. /\ a.decided = HeldOut /\ b.decided = HeldOut /\ a.passed = a.hard /\ b.passed = b.hard
      /\ a.hard \in Nat /\ b.hard \in Nat /\ HeldOut \in Nat /\ a.hard <= HeldOut
  BY LoopAssumption DEF MeasureOK
<1>2. CASE HeldOut = 0
  BY <1>1, <1>2 DEF Better
<1>3. CASE HeldOut # 0
  <2>1. a.hard * HeldOut > b.hard * HeldOut
    BY <1>1, <1>3 DEF Better
  <2> QED BY <1>1, <2>1, MoreOfTheSame
<1> QED BY <1>2, <1>3

\* Everything the cycle does but judging a task.
LEMMA CycleGoesOn ==
    ASSUME CycleOK(loop), LoopNext, ~AttemptTask
    PROVE  CycleOK(loop') /\ trust' = trust
<1> DEFINE l == loop
<1>1. /\ l = [pc |-> l.pc, phase |-> l.phase, advice |-> l.advice, overlap |-> l.overlap,
              left |-> l.left, now |-> l.now, base |-> l.base, failed |-> l.failed,
              mined |-> l.mined, registry |-> l.registry]
      /\ l.failed \subseteq 1..Train /\ l.registry \subseteq 1..Train
      /\ l.mined \in Seq(1..Train)
  BY DEF CycleOK, CycleCore
<1>2. HeldOut \in Nat /\ Train \in Nat /\ HeldOut - 0 = HeldOut /\ Train - 0 = Train
  BY LoopAssumption
<1>3. CASE EndBefore
  <2> DEFINE s == [l EXCEPT !.base = l.now]
  <2>1. l.pc = "measure" /\ l.left = 0 /\ l.phase = "before" /\ loop' = Run(s, "train", {})
        /\ trust' = trust
    BY <1>3 DEF EndBefore, Measured
  <2>2. s = [l EXCEPT !.base = l.now]
    OBVIOUS
  <2> HIDE DEF s
  <2>3. s = [pc |-> l.pc, phase |-> l.phase, advice |-> l.advice, overlap |-> l.overlap,
             left |-> l.left, now |-> l.now, base |-> l.now, failed |-> l.failed,
             mined |-> l.mined, registry |-> l.registry]
    BY <1>1, <2>2
  <2>4. CycleCore(s)
    BY <1>1, <2>3 DEF CycleCore
  <2>5. MeasureOK(l.now, HeldOut) /\ l.now.skills = l.registry
    BY <1>2, <2>1 DEF CycleOK, Size
  <2>6. CycleOK(Run(s, "train", {}))
    BY <2>3, <2>4, <2>5, RunStarts DEF CyclePhases
  <2> QED BY <2>1, <2>6
<1>4. CASE EndTrain
  <2> DEFINE s == [l EXCEPT !.mined = Mine(l.failed), !.failed = {}]
  <2>1. l.pc = "measure" /\ l.left = 0 /\ l.phase = "train" /\ loop' = Evaluate(s) /\ trust' = trust
    BY <1>4 DEF EndTrain, Measured
  <2>2. s = [l EXCEPT !.mined = Mine(l.failed), !.failed = {}]
    OBVIOUS
  <2> HIDE DEF s
  <2>3. s = [pc |-> l.pc, phase |-> l.phase, advice |-> l.advice, overlap |-> l.overlap,
             left |-> l.left, now |-> l.now, base |-> l.base, failed |-> {},
             mined |-> Mine(l.failed), registry |-> l.registry]
    BY <1>1, <2>2
  <2>6. Mine(l.failed) \in Seq(1..Train)
    BY <1>1, MinedSkills
  <2>4. CycleCore(s)
    BY <1>1, <2>3, <2>6 DEF CycleCore
  <2>5. MeasureOK(l.now, Size(l.phase)) /\ MeasureOK(l.base, HeldOut)
        /\ l.base.skills = l.registry
    BY <1>2, <2>1 DEF CycleOK, Size
  <2>7. CycleOK(Evaluate(s))
    BY <2>1, <2>3, <2>4, <2>5, <2>6, EvaluateGoesOn DEF CyclePhases
  <2> QED BY <2>1, <2>7
<1>5. CASE Score
  <2>1. l.pc = "gate" /\ trust' = trust /\ l.left = 0 /\ l.phase # "before" /\ l.mined # <<>>
        /\ l.base.skills = l.registry /\ MeasureOK(l.base, HeldOut)
    BY <1>5 DEF Score, CycleOK
  <2>2. CASE l.overlap
    <3> DEFINE r == loop'
    <3>1. r = [l EXCEPT !.pc = "raised"]
      BY <1>5, <2>2 DEF Score, FirewallBreached
    <3> HIDE DEF r
    <3>2. r = [pc |-> "raised", phase |-> l.phase, advice |-> l.advice, overlap |-> l.overlap,
               left |-> l.left, now |-> l.now, base |-> l.base, failed |-> l.failed,
               mined |-> l.mined, registry |-> l.registry]
      BY <1>1, <3>1
    <3>3. CycleCore(r)
      BY <1>1, <3>2 DEF CycleCore
    <3>4. CycleOK(r)
      BY <2>1, <3>2, <3>3 DEF CycleOK
    <3> QED BY <2>1, <3>4 DEF r
  <2>3. CASE ~l.overlap
    <3>1. loop' = Run(l, "score", {Head(l.mined)})
      BY <1>5, <2>3 DEF Score, FirewallBreached
    <3>2. Head(l.mined) \in 1..Train
      BY <1>1, <2>1, NextSkill
    <3>3. CycleCore(l)
      BY DEF CycleOK
    <3>4. CycleOK(Run(l, "score", {Head(l.mined)}))
      BY <2>1, <2>3, <3>2, <3>3, RunStarts DEF CyclePhases
    <3> QED BY <2>1, <3>1, <3>4
  <2> QED BY <2>2, <2>3
<1>6. CASE EndScore
  <2>1. l.pc = "measure" /\ l.left = 0 /\ l.phase = "score" /\ trust' = trust
    BY <1>6 DEF EndScore, Measured
  <2>2. /\ l.mined # <<>> /\ ~l.overlap /\ l.base.skills = l.registry
        /\ l.now.skills = l.registry \cup {Head(l.mined)}
        /\ MeasureOK(l.now, HeldOut) /\ MeasureOK(l.base, HeldOut)
    BY <1>2, <2>1 DEF CycleOK, Size
  <2>3. Head(l.mined) \in 1..Train /\ Tail(l.mined) \in Seq(1..Train)
    BY <1>1, <2>2, NextSkill
  <2>4. CASE Better(l.now, l.base)
    <3> DEFINE r == loop'
               new == l.registry \cup {Head(l.mined)}
    <3>1. r = [l EXCEPT !.pc = "promoted", !.registry = new]
      BY <1>6, <2>4 DEF EndScore
    <3> HIDE DEF r
    <3>2. r = [pc |-> "promoted", phase |-> l.phase, advice |-> l.advice, overlap |-> l.overlap,
               left |-> l.left, now |-> l.now, base |-> l.base, failed |-> l.failed,
               mined |-> l.mined, registry |-> new]
      BY <1>1, <3>1
    <3>3. new \subseteq 1..Train
      BY <1>1, <2>3
    <3>4. CycleCore(r)
      BY <1>1, <3>2, <3>3 DEF CycleCore
    <3>6. r.left \in 0..Size(r.phase) /\ MeasureOK(r.now, Size(r.phase) - r.left)
      BY <3>2 DEF CycleOK
    <3>7. CycleOK(r)
      BY <2>1, <2>2, <3>2, <3>3, <3>4, <3>6 DEF CycleOK
    <3> QED BY <2>1, <3>7 DEF r
  <2>5. CASE ~Better(l.now, l.base)
    <3> DEFINE s == [l EXCEPT !.mined = Tail(@)]
    <3>1. loop' = Evaluate(s)
      BY <1>6, <2>5 DEF EndScore
    <3>2. s = [l EXCEPT !.mined = Tail(@)]
      OBVIOUS
    <3> HIDE DEF s
    <3>3. s = [pc |-> l.pc, phase |-> l.phase, advice |-> l.advice, overlap |-> l.overlap,
               left |-> l.left, now |-> l.now, base |-> l.base, failed |-> l.failed,
               mined |-> Tail(l.mined), registry |-> l.registry]
      BY <1>1, <3>2
    <3>4. CycleCore(s)
      BY <1>1, <2>3, <3>3 DEF CycleCore
    <3>5. MeasureOK(l.now, Size(l.phase))
      BY <2>1, <2>2 DEF Size
    <3>6. CycleOK(Evaluate(s))
      BY <2>1, <2>2, <2>3, <3>3, <3>4, <3>5, EvaluateGoesOn DEF CyclePhases
    <3> QED BY <2>1, <3>1, <3>6
  <2> QED BY <2>4, <2>5
<1>7. CASE Rebase
  <2> DEFINE s == [l EXCEPT !.mined = Tail(@)]
  <2>1. l.pc = "promoted" /\ trust' = trust
    BY <1>7 DEF Rebase
  <2>2. l.mined # <<>> /\ MeasureOK(l.base, HeldOut)
    BY <2>1 DEF CycleOK
  <2>3. Tail(l.mined) \in Seq(1..Train)
    BY <1>1, <2>2, NextSkill
  <2>5. s = [l EXCEPT !.mined = Tail(@)]
    OBVIOUS
  <2>6. loop' = IF s.mined = <<>> THEN Evaluate(s) ELSE Run(s, "rebase", {})
    BY <1>7 DEF Rebase
  <2> HIDE DEF s
  <2>7. loop' = Run(s, "after", {}) \/ loop' = Run(s, "rebase", {})
    BY <2>6 DEF Evaluate
  <2>8. s = [pc |-> l.pc, phase |-> l.phase, advice |-> l.advice, overlap |-> l.overlap,
             left |-> l.left, now |-> l.now, base |-> l.base, failed |-> l.failed,
             mined |-> Tail(l.mined), registry |-> l.registry]
    BY <1>1, <2>5
  <2>9. CycleCore(s)
    BY <1>1, <2>3, <2>8 DEF CycleCore
  <2>10. CycleOK(Run(s, "after", {})) /\ CycleOK(Run(s, "rebase", {}))
    BY <2>2, <2>8, <2>9, RunStarts DEF CyclePhases
  <2> QED BY <2>1, <2>7, <2>10
<1>8. CASE EndRebase
  <2> DEFINE s == [l EXCEPT !.base = l.now]
  <2>1. l.pc = "measure" /\ l.left = 0 /\ l.phase = "rebase" /\ loop' = Evaluate(s) /\ trust' = trust
    BY <1>8 DEF EndRebase, Measured
  <2>2. s = [l EXCEPT !.base = l.now]
    OBVIOUS
  <2> HIDE DEF s
  <2>3. s = [pc |-> l.pc, phase |-> l.phase, advice |-> l.advice, overlap |-> l.overlap,
             left |-> l.left, now |-> l.now, base |-> l.now, failed |-> l.failed,
             mined |-> l.mined, registry |-> l.registry]
    BY <1>1, <2>2
  <2>4. CycleCore(s)
    BY <1>1, <2>3 DEF CycleCore
  <2>5. MeasureOK(l.now, HeldOut) /\ MeasureOK(l.now, Size(l.phase)) /\ l.now.skills = l.registry
    BY <1>2, <2>1 DEF CycleOK, Size
  <2>6. CycleOK(Evaluate(s))
    BY <2>1, <2>3, <2>4, <2>5, EvaluateGoesOn DEF CyclePhases
  <2> QED BY <2>1, <2>6
<1>9. CASE EndAfter
  <2> DEFINE r == loop'
  <2>1. l.pc = "measure" /\ l.left = 0 /\ l.phase = "after" /\ trust' = trust
        /\ r = [l EXCEPT !.pc = "done"]
    BY <1>9 DEF EndAfter, Measured
  <2> HIDE DEF r
  <2>2. r = [pc |-> "done", phase |-> l.phase, advice |-> l.advice, overlap |-> l.overlap,
             left |-> l.left, now |-> l.now, base |-> l.base, failed |-> l.failed,
             mined |-> l.mined, registry |-> l.registry]
    BY <1>1, <2>1
  <2>3. CycleCore(r)
    BY <1>1, <2>2 DEF CycleCore
  <2>4. CycleOK(r)
    BY <2>1, <2>2, <2>3 DEF CycleOK
  <2> QED BY <2>1, <2>4 DEF r
<1>10. CASE NextCycle
  <2> DEFINE zero == Measurement({})
             s == [l EXCEPT !.base = zero, !.mined = <<>>]
  <2>1. loop' = Run(s, "before", {}) /\ trust' = trust
    BY <1>10 DEF NextCycle
  <2>2. s = [l EXCEPT !.base = zero, !.mined = <<>>]
    OBVIOUS
  <2> HIDE DEF s, zero
  <2>3. s = [pc |-> l.pc, phase |-> l.phase, advice |-> l.advice, overlap |-> l.overlap,
             left |-> l.left, now |-> l.now, base |-> zero, failed |-> l.failed,
             mined |-> <<>>, registry |-> l.registry]
    BY <1>1, <2>2
  <2>4. CycleCore(s)
    BY <1>1, <2>3 DEF CycleCore
  <2>5. CycleOK(Run(s, "before", {}))
    BY <2>3, <2>4, RunStarts DEF CyclePhases, zero
  <2> QED BY <2>1, <2>5
<1> QED BY <1>3, <1>4, <1>5, <1>6, <1>7, <1>8, <1>9, <1>10 DEF LoopNext

\* A cycle that has not begun, or is not deployed.
LEMMA CycleStarts ==
    ASSUME NEW deployed, LoopInit(deployed)
    PROVE  CycleOK(loop) /\ TrustOK(trust)
<1>1. PICK judge \in Judges, overlap \in BOOLEAN, registry \in SUBSET (1..Train) :
        loop = [pc |-> IF deployed THEN "measure" ELSE "off", phase |-> "before",
                advice |-> AdvisorSays(judge), overlap |-> overlap, left |-> HeldOut,
                now |-> Measurement(registry), base |-> Measurement({}), failed |-> {},
                mined |-> <<>>, registry |-> registry]
  BY DEF LoopInit
<1>2. MeasureOK(Measurement(registry), 0) /\ Measurement(registry).skills = registry
  BY MeasureStarts
<1> DEFINE x == IF deployed THEN "measure" ELSE "off"
           advice == AdvisorSays(judge)
           zero == Measurement({})
           start == Measurement(registry)
<1>3. x \in {"measure", "off"}
  OBVIOUS
<1> HIDE DEF x, advice, zero, start
<1>4. /\ loop.pc \in {"measure", "off"} /\ loop.phase = "before" /\ loop.left = HeldOut
      /\ loop.now = start /\ loop.base = zero /\ loop.failed = {} /\ loop.mined = <<>>
      /\ loop.registry = registry
      /\ loop = [pc |-> loop.pc, phase |-> loop.phase, advice |-> loop.advice,
                 overlap |-> loop.overlap, left |-> loop.left, now |-> loop.now,
                 base |-> loop.base, failed |-> loop.failed, mined |-> loop.mined,
                 registry |-> loop.registry]
  <2>1. loop = [pc |-> x, phase |-> "before", advice |-> advice, overlap |-> overlap,
                left |-> HeldOut, now |-> start, base |-> zero, failed |-> {}, mined |-> <<>>,
                registry |-> registry]
    BY <1>1 DEF x, advice, zero, start
  <2> QED BY <1>3, <2>1
<1>5. CycleCore(loop)
  BY <1>4 DEF CycleCore
<1>6. Size(loop.phase) = HeldOut /\ HeldOut - HeldOut = 0 /\ HeldOut \in 0..HeldOut
  BY <1>4, LoopAssumption DEF Size
<1>8. MeasureOK(loop.now, Size(loop.phase) - loop.left) /\ loop.now.skills = loop.registry
      /\ loop.left \in 0..Size(loop.phase) /\ loop.base = Measurement({})
  BY <1>2, <1>4, <1>6 DEF zero, start
<1>9. CycleOK(loop)
  BY <1>4, <1>5, <1>8 DEF CycleOK, CyclePhases
<1>10. TrustOK(trust)
  <2>1. trust = [v \in {"subprocess-tests", "advisor"} |->
                    TrustStats(IF v = "advisor" THEN "soft" ELSE "hard")]
    BY DEF LoopInit, LoopTrust
  <2>2. /\ trust["subprocess-tests"] = TrustStats("hard") /\ trust["advisor"] = TrustStats("soft")
        /\ trust = [v \in {"subprocess-tests", "advisor"} |-> trust[v]]
    BY <2>1
  <2> QED BY <2>2 DEF TrustOK, TrustStats
<1> QED BY <1>9, <1>10

CycleInv == CycleOK(loop) /\ TrustOK(trust)

\* Every step, the cycle's or another runtime's, keeps the cycle in order.
LEMMA CycleStep ==
    ASSUME CycleInv, [Next]_vars
    PROVE  CycleInv'
<1>1. CASE LoopNext
  <2>1. CASE AttemptTask
    BY <2>1, AttemptKeeps DEF CycleInv
  <2>2. CASE ~AttemptTask
    BY <1>1, <2>2, CycleGoesOn DEF CycleInv
  <2> QED BY <2>1, <2>2
<1>2. CASE UNCHANGED loopVars
  BY <1>2 DEF CycleInv, loopVars
<1> QED BY <1>1, <1>2 DEF Next, Rotation, vars

\* The cycle with other candidates, another baseline and other failures.
Other(m, b, f) ==
    [pc |-> loop.pc, phase |-> loop.phase, advice |-> loop.advice, overlap |-> loop.overlap,
     left |-> loop.left, now |-> loop.now, base |-> b, failed |-> f, mined |-> m,
     registry |-> loop.registry]

LEMMA RunKeeps ==
    ASSUME NEW s, CycleCore(s), s.registry = loop.registry, NEW phase, NEW extra
    PROVE  Unpromoted(Run(s, phase, extra))
<1> DEFINE r == Run(s, phase, extra)
           now == Measurement(s.registry \cup extra)
           left == IF phase = "train" THEN Train ELSE HeldOut
<1>1. r = [s EXCEPT !.pc = "measure", !.phase = phase, !.now = now, !.left = left]
  BY DEF Run
<1> HIDE DEF r, now, left
<1>2. r.registry = s.registry /\ r.pc = "measure"
  BY <1>1 DEF CycleCore
<1> QED BY <1>2 DEF Unpromoted, r

LEMMA EvaluateKeeps ==
    ASSUME NEW s, CycleCore(s), s.registry = loop.registry
    PROVE  Unpromoted(Evaluate(s))
<1>1. CASE s.mined = <<>>
  BY <1>1, RunKeeps DEF Evaluate
<1>2. CASE s.mined # <<>>
  <2> DEFINE r == Evaluate(s)
  <2>1. r = [s EXCEPT !.pc = "gate"]
    BY <1>2 DEF Evaluate
  <2> HIDE DEF r
  <2>2. r.registry = s.registry /\ r.pc = "gate"
    BY <2>1 DEF CycleCore
  <2> QED BY <2>2 DEF Unpromoted, r
<1> QED BY <1>1, <1>2

\* What PromotionIsEarned asks of a step.
EarnsPromotion ==
    /\ loop'.registry # loop.registry => loop'.pc = "promoted"
    /\ loop'.pc = "promoted" /\ loop.pc # "promoted" =>
          /\ ~loop.overlap
          /\ loop'.registry = loop.registry \cup {Head(loop.mined)}
          /\ loop.base.skills = loop.registry /\ loop.now.skills = loop'.registry
          /\ loop.base.sound /\ loop.now.sound => loop.now.hard > loop.base.hard

\* The registry changes in one place, and there the two measurements that were
\* compared are of the registry before and of the registry after.
LEMMA EarnedStep ==
    ASSUME CycleOK(loop), TrustOK(trust), LoopNext
    PROVE  EarnsPromotion
<1> DEFINE l == loop
<1>1. /\ l = [pc |-> l.pc, phase |-> l.phase, advice |-> l.advice, overlap |-> l.overlap,
              left |-> l.left, now |-> l.now, base |-> l.base, failed |-> l.failed,
              mined |-> l.mined, registry |-> l.registry]
      /\ l.failed \subseteq 1..Train /\ l.registry \subseteq 1..Train
      /\ l.mined \in Seq(1..Train) /\ CycleCore(l)
  BY DEF CycleOK, CycleCore
<1>2. Unpromoted(loop') => EarnsPromotion
  BY DEF Unpromoted, EarnsPromotion
<1>3. ASSUME NEW m, NEW b, NEW f, m \in Seq(1..Train), f \subseteq 1..Train
      PROVE  CycleCore(Other(m, b, f)) /\ Other(m, b, f).registry = l.registry
  <2> DEFINE s == Other(m, b, f)
  <2>1. s = [pc |-> l.pc, phase |-> l.phase, advice |-> l.advice, overlap |-> l.overlap,
             left |-> l.left, now |-> l.now, base |-> b, failed |-> f,
             mined |-> m, registry |-> l.registry]
    BY DEF Other
  <2> HIDE DEF s
  <2>2. CycleCore(s) /\ s.registry = l.registry
    BY <1>1, <1>3, <2>1 DEF CycleCore
  <2> QED BY <2>2 DEF s
<1>4. CASE AttemptTask
  BY <1>2, <1>4, AttemptKeeps
<1>5. CASE EndBefore \/ EndRebase
  <2> DEFINE s == [l EXCEPT !.base = l.now]
  <2>1. loop' = Run(s, "train", {}) \/ loop' = Evaluate(s)
    BY <1>5 DEF EndBefore, EndRebase
  <2>4. s = [l EXCEPT !.base = l.now]
    OBVIOUS
  <2> HIDE DEF s
  <2>2. s = Other(l.mined, l.now, l.failed)
    BY <1>1, <2>4 DEF Other
  <2>3. CycleCore(s) /\ s.registry = l.registry
    BY <1>1, <1>3, <2>2
  <2> QED BY <1>2, <2>1, <2>3, RunKeeps, EvaluateKeeps
<1>6. CASE EndTrain
  <2> DEFINE s == [l EXCEPT !.mined = Mine(l.failed), !.failed = {}]
  <2>1. loop' = Evaluate(s)
    BY <1>6 DEF EndTrain
  <2>2. Mine(l.failed) \in Seq(1..Train)
    BY <1>1, MinedSkills
  <2>5. s = [l EXCEPT !.mined = Mine(l.failed), !.failed = {}]
    OBVIOUS
  <2> HIDE DEF s
  <2>3. s = Other(Mine(l.failed), l.base, {})
    BY <1>1, <2>5 DEF Other
  <2>4. CycleCore(s) /\ s.registry = l.registry
    BY <1>3, <2>2, <2>3
  <2> QED BY <1>2, <2>1, <2>4, EvaluateKeeps
<1>7. CASE Score
  <2>1. CASE l.overlap
    <3> DEFINE r == loop'
    <3>1. r = [l EXCEPT !.pc = "raised"]
      BY <1>7, <2>1 DEF Score, FirewallBreached
    <3> HIDE DEF r
    <3>2. r.registry = l.registry /\ r.pc = "raised"
      BY <1>1, <3>1
    <3> QED BY <1>2, <3>2 DEF Unpromoted, r
  <2>2. CASE ~l.overlap
    <3>1. loop' = Run(l, "score", {Head(l.mined)})
      BY <1>7, <2>2 DEF Score, FirewallBreached
    <3> QED BY <1>1, <1>2, <3>1, RunKeeps
  <2> QED BY <2>1, <2>2
<1>8. CASE EndScore \/ Rebase
  <2> DEFINE s == [l EXCEPT !.mined = Tail(@)]
  <2>0. l.mined # <<>>
    BY <1>8 DEF EndScore, Rebase, Measured, CycleOK
  <2>1. CASE EndScore /\ Better(l.now, l.base)
    <3> DEFINE r == loop'
               new == l.registry \cup {Head(l.mined)}
    <3>1. r = [l EXCEPT !.pc = "promoted", !.registry = new]
      BY <2>1 DEF EndScore
    <3> HIDE DEF r
    <3>2. r.registry = new /\ r.pc = "promoted"
      BY <1>1, <3>1
    <3>3. l.pc = "measure" /\ l.left = 0 /\ l.phase = "score" /\ HeldOut - 0 = HeldOut
      BY <2>1, LoopAssumption DEF EndScore, Measured
    <3>4. /\ ~l.overlap /\ l.base.skills = l.registry /\ l.now.skills = new
          /\ MeasureOK(l.now, HeldOut) /\ MeasureOK(l.base, HeldOut)
      BY <3>3 DEF CycleOK, Size
    <3>5. l.base.sound /\ l.now.sound => l.now.hard > l.base.hard
      BY <2>1, <3>4, BetterIsMore
    <3> QED BY <3>2, <3>4, <3>5 DEF EarnsPromotion, r
  <2>2. CASE ~(EndScore /\ Better(l.now, l.base))
    <3>1. loop' = Evaluate(s) \/ loop' = Run(s, "rebase", {})
      BY <1>8, <2>2 DEF EndScore, Rebase
    <3>2. Tail(l.mined) \in Seq(1..Train)
      BY <1>1, <2>0, NextSkill
    <3>5. s = [l EXCEPT !.mined = Tail(@)]
      OBVIOUS
    <3> HIDE DEF s
    <3>3. s = Other(Tail(l.mined), l.base, l.failed)
      BY <1>1, <3>5 DEF Other
    <3>4. CycleCore(s) /\ s.registry = l.registry
      BY <1>1, <1>3, <3>2, <3>3
    <3> QED BY <1>2, <3>1, <3>4, RunKeeps, EvaluateKeeps
  <2> QED BY <2>1, <2>2
<1>9. CASE EndAfter
  <2> DEFINE r == loop'
  <2>1. r = [l EXCEPT !.pc = "done"]
    BY <1>9 DEF EndAfter
  <2> HIDE DEF r
  <2>2. r.registry = l.registry /\ r.pc = "done"
    BY <1>1, <2>1
  <2> QED BY <1>2, <2>2 DEF Unpromoted, r
<1>10. CASE NextCycle
  <2> DEFINE zero == Measurement({})
             s == [l EXCEPT !.base = zero, !.mined = <<>>]
  <2>1. loop' = Run(s, "before", {})
    BY <1>10 DEF NextCycle
  <2>5. s = [l EXCEPT !.base = zero, !.mined = <<>>]
    OBVIOUS
  <2> HIDE DEF s, zero
  <2>2. s = Other(<<>>, zero, l.failed)
    BY <1>1, <2>5 DEF Other
  <2>3. <<>> \in Seq(1..Train)
    OBVIOUS
  <2>4. CycleCore(s) /\ s.registry = l.registry
    BY <1>1, <1>3, <2>2, <2>3
  <2> QED BY <1>2, <2>1, <2>4, RunKeeps
<1> QED BY <1>4, <1>5, <1>6, <1>7, <1>8, <1>9, <1>10 DEF LoopNext

\* Whatever the advisor says and the bank learns of it, whatever the registry held
\* at the start and whatever the cycles before have promoted: the registry grows
\* only past the firewall, by the skill that was scored, with the rate of the
\* registry it is added to measured in the same cycle, and, where the hard
\* verifier gave a verdict on every held-out task, with more of them passed
\* (PromotionGate.evaluate, Orchestrator.run_cycle).
THEOREM PromotionsAreEarned == Spec => PromotionIsEarned
<1>1. Init => CycleInv
  BY CycleStarts DEF Init, CycleInv
<1>2. CycleInv /\ [Next]_vars => CycleInv'
  BY CycleStep
<1>3. CycleInv /\ [Next]_vars => [EarnsPromotion]_vars
  <2> SUFFICES ASSUME CycleInv, [Next]_vars, vars' # vars PROVE EarnsPromotion
    OBVIOUS
  <2>1. CASE LoopNext
    BY <2>1, EarnedStep DEF CycleInv
  <2>2. CASE UNCHANGED loopVars
    BY <2>2 DEF EarnsPromotion, loopVars
  <2> QED BY <2>1, <2>2 DEF Next, Rotation, vars
<1> QED BY <1>1, <1>2, <1>3, PTL DEF Spec, PromotionIsEarned, EarnsPromotion

\* A measurement of the cycle is one of as many tasks as there are.
LEMMA MeasurementTyped ==
    ASSUME NEW m, NEW n \in Nat, MeasureOK(m, n), n <= HeldOut + Train
    PROVE  m \in Measurements
<1>1. /\ m.skills \in SUBSET (1..Train) /\ m.sound \in BOOLEAN
      /\ m.passed \in 0..(HeldOut + Train) /\ m.decided \in 0..(HeldOut + Train)
      /\ m.hard \in 0..(HeldOut + Train)
  BY LoopAssumption DEF MeasureOK
<1>2. m = [skills |-> m.skills, passed |-> m.passed, decided |-> m.decided, hard |-> m.hard,
           sound |-> m.sound]
  BY DEF MeasureOK
<1> QED BY <1>1, <1>2 DEF Measurements

\* Every runtime's state is well formed, and the bank never calibrates the hard
\* verifier, its own reference (_authoritative_judgment, TrustStore.put).
THEOREM AgentsTyped == Spec => []TypeOK
<1> DEFINE Inv == SwarmTypes /\ ToldInv /\ CycleInv /\ rotations \in 0..MaxRotations
<1>1. Init => Inv
  <2> SUFFICES ASSUME Init PROVE Inv
    OBVIOUS
  <2>1. rotations \in 0..MaxRotations
    BY RotationsAssumption DEF Init
  <2>2. ToldInv /\ CycleInv
    BY ToldStart, CycleStarts DEF Init, CycleInv
  <2> QED BY <2>1, <2>2, SwarmTypesStart
<1>2. Inv /\ [Next]_vars => Inv'
  <2> SUFFICES ASSUME Inv, [Next]_vars PROVE Inv'
    OBVIOUS
  <2>1. SwarmTypes' /\ CycleInv'
    BY SwarmTypesStep, CycleStep
  <2>2. ToldInv'
    <3>1. WorkflowNext \/ UNCHANGED workflow
      BY DEF Next, Rotation, vars
    <3> QED BY <3>1, ToldStep, ToldStutter
  <2>3. rotations' \in 0..MaxRotations
    <3>1. rotations' = rotations \/ (rotations < MaxRotations /\ rotations' = rotations + 1)
      BY DEF Next, Rotation, vars
    <3> QED BY <3>1, RotationsAssumption
  <2> QED BY <2>1, <2>2, <2>3
<1>3. Inv => TypeOK
  <2> SUFFICES ASSUME Inv PROVE TypeOK
    OBVIOUS
  <2>1. \A p \in Plans : Len(p) <= 2
    <3>1. /\ Len(<<"proposed_action">>) <= 2 /\ Len(<<"proposed_action", "hypothesis">>) <= 2
          /\ Len(<<>>) <= 2 /\ Len(<<"hypothesis">>) <= 2
      OBVIOUS
    <3> QED BY <3>1, Zenon DEF Plans, ActionPlans
  <2>2. \A d \in Drivers :
          /\ swarm[d].pc \in SwarmPhases /\ swarm[d].policy \in Policies \cup {None}
          /\ swarm[d].artifact \in Artifacts \cup {None} /\ swarm[d].row \in SwarmRows
          /\ Len(swarm[d].plan) <= 2 /\ Len(swarm[d].results) <= 2
    BY <2>1 DEF SwarmTypes, RunShape
  <2>3. selected \in Policies /\ packet \in Packets \cup {None} /\ mutex \subseteq Keys
        /\ DOMAIN spends = Keys
    BY DEF SwarmTypes
  <2>4. /\ workflow.pc \in WorkflowPhases
        /\ \A s \in Steps : /\ workflow.steps[s].state \in StepStates
                            /\ workflow.steps[s].outcome \in StepOutcomes
    BY DEF ToldInv, WorkflowShape
  <2>5. trust["subprocess-tests"] = TrustStats("hard") /\ loop.registry \subseteq 1..Train
    BY DEF CycleInv, TrustOK, CycleOK, CycleCore
  <2>6. loop.now \in Measurements
    <3>1. MeasureOK(loop.now, Size(loop.phase) - loop.left) /\ loop.left \in 0..Size(loop.phase)
      BY DEF CycleInv, CycleOK
    <3>2. Size(loop.phase) \in Nat /\ Size(loop.phase) <= HeldOut + Train
      BY LoopAssumption DEF Size
    <3>3. Size(loop.phase) - loop.left \in Nat /\ Size(loop.phase) - loop.left <= HeldOut + Train
      BY <3>1, <3>2, LoopAssumption
    <3> QED BY <3>1, <3>3, MeasurementTyped
  <2>7. loop.base \in Measurements
    <3>1. HeldOut \in Nat /\ 0 <= HeldOut + Train /\ HeldOut <= HeldOut + Train
      BY LoopAssumption
    <3>2. MeasureOK(loop.base, HeldOut) \/ MeasureOK(loop.base, 0)
      BY MeasureStarts DEF CycleInv, CycleOK
    <3> QED BY <3>1, <3>2, MeasurementTyped
  <2> QED BY <2>2, <2>3, <2>4, <2>5, <2>6, <2>7
      DEF TypeOK, SwarmPhases, SwarmRows, WorkflowPhases, StepStates, StepOutcomes
<1> QED BY <1>1, <1>2, <1>3, PTL DEF Spec
=============================================================================
