----------------------- MODULE ExecutionDeadlineProofs -----------------------
(***************************************************************************)
(* Proofs about ExecutionDeadline, for every approval, every uncertainty,   *)
(* every behaviour of the clocks and every timeout.                         *)
(***************************************************************************)
EXTENDS ExecutionDeadline, TLAPS

\* The deadline is fixed by the first two samples and never refreshed, and the
\* first sample is not taken after the invocation began.
DeadlineFixed ==
    /\ pc = "opening" => sample = begun
    /\ pc \notin {"idle", "opening"} => deadline = begun + (Expires - openedWall)
    /\ pc \in {"idle", "opening"} => stage = 1

\* As long as nobody has stepped it, the wall clock is right.
ClockRight == (pc # "idle" /\ ~ stepped) => skew = 0

DeadlineInv == DeadlineFixed /\ ClockRight /\ WindowNeverGrows /\ NothingAdmittedAfterExpiry

-----------------------------------------------------------------------------
\* Readings of the clocks are integers, and what is left is the less of the two.
LEMMA Readings ==
    ASSUME TypeOK
    PROVE  /\ Wall \in Int /\ Elapsed \in Int /\ Remaining \in Int
           /\ Remaining <= Expires - Wall /\ Remaining <= deadline - sample
<1>1. skew \in Int
  BY DeadlineAssumption DEF TypeOK
<1>2. Wall \in Int /\ Elapsed \in Int
  BY <1>1 DEF TypeOK, Wall, Elapsed
<1>3. Expires - Wall \in Int /\ deadline - sample \in Int
  BY <1>2, DeadlineAssumption DEF TypeOK
<1> QED BY <1>2, <1>3 DEF Remaining, Least

\* Every timeout the code computes is a positive number of units.
LEMMA Timeouts ==
    ASSUME NEW b \in Nat
    PROVE  /\ TimeoutMs(b) \in Nat /\ TimeoutMs(b) >= 1
           /\ ConnectTimeout(b) \in Nat /\ ConnectTimeout(b) >= 1
<1>1. b \div TicksPerMs \in Nat /\ b \div TicksPerS \in Nat
  BY DeadlineAssumption
<1> QED BY <1>1, DeadlineAssumption DEF TimeoutMs, ConnectTimeout, Greatest, Least

\* A timeout in ticks is a natural number.
LEMMA TimeoutTicks ==
    ASSUME NEW b \in Nat
    PROVE  TimeoutMs(b) * TicksPerMs \in Nat /\ ConnectTimeout(b) * TicksPerS \in Nat
<1>1. \A m, n \in Nat : m * n \in Nat
  OBVIOUS
<1> QED BY <1>1, Timeouts, DeadlineAssumption

\* Every step keeps the types of the clocks and of the invocation.
LEMMA DeadlineTypeStep ==
    ASSUME TypeOK, [Next]_vars
    PROVE  TypeOK'
<1> USE DEF TypeOK, Phases, Waits, Stages, clockVars
<1>1. CASE OpenElapsed
  BY <1>1, Readings DEF OpenElapsed
<1>2. CASE OpenWall
  <2>1. sample + (Expires - Wall) \in Int
    BY Readings, DeadlineAssumption
  <2> QED BY <1>2, <2>1, Readings DEF OpenWall
<1>3. CASE AdmitElapsed
  BY <1>3, Readings DEF AdmitElapsed
<1>4. CASE Admit
  <2>1. CASE Admissible
    <3>1. Remaining \in Nat
      BY <2>1, Readings, DeadlineAssumption DEF Admissible
    <3>2. ConnectTimeout(Remaining) * TicksPerS \in Nat
      BY <3>1, TimeoutTicks
    <3>3. stage' \in Stages
      BY <1>4, <2>1 DEF Admit, AfterLocks
    <3>4. pc' \in Phases
      BY <1>4, <2>1 DEF Admit
    <3>5. grant' \in [elapsed : Int, at : Nat]
      BY <1>4, <2>1 DEF Admit
    <3> QED BY <1>4, <2>1, <3>1, <3>2, <3>3, <3>4, <3>5 DEF Admit
  <2>2. CASE ~ Admissible
    BY <1>4, <2>2 DEF Admit
  <2> QED BY <2>1, <2>2
<1>5. CASE Connected \/ SessionLocked
  <2>1. TimeoutMs(budget) * TicksPerMs \in Nat
    BY TimeoutTicks
  <2> QED BY <1>5, <2>1 DEF Connected, SessionLocked, Wait
<1>6. CASE BootstrapLocked \/ SendSql \/ Finish
  BY <1>6 DEF BootstrapLocked, SendSql, Finish
<1>7. CASE Tick \/ Suspend
  BY <1>7, DeadlineAssumption DEF Tick, Suspend, callVars
<1>8. CASE \E s \in Skews : StepWall(s)
  BY <1>8 DEF StepWall, callVars
<1>9. CASE UNCHANGED vars
  BY <1>9 DEF vars, callVars
<1> QED BY <1>1, <1>2, <1>3, <1>4, <1>5, <1>6, <1>7, <1>8, <1>9 DEF Next

\* TypeOK: the clocks, the deadline and the timeouts keep their types; no
\* budget is ever negative.
THEOREM DeadlineTypeCorrect == Spec => []TypeOK
<1>1. Init => TypeOK
  <2> SUFFICES ASSUME Init PROVE TypeOK
    OBVIOUS
  <2>1. stepped \in BOOLEAN
    BY DEF Init
  <2>4. grant \in [elapsed : Int, at : Nat]
    <3>1. grant = [elapsed |-> 0, at |-> 0]
      BY DEF Init
    <3> QED BY <3>1
  <2>2. /\ now \in Nat /\ skew \in Skews /\ asleep \in 0..now /\ stage \in Stages
        /\ aware \in Awareness
        /\ pc \in Phases
    BY DeadlineAssumption DEF Init, Phases, Waits, Stages
  <2>3. /\ sample \in Int /\ openedWall \in Int /\ deadline \in Int /\ begun \in Int
        /\ budget \in Nat /\ timeout \in Nat /\ since \in Nat
    BY DEF Init
  <2> QED BY <2>1, <2>2, <2>3, <2>4 DEF TypeOK
<1> QED BY <1>1, DeadlineTypeStep, PTL DEF Spec

-----------------------------------------------------------------------------
\* Every step keeps the deadline where it was fixed and every admission in it.
LEMMA DeadlineStep ==
    ASSUME TypeOK, DeadlineInv, [Next]_vars
    PROVE  DeadlineInv'
<1> USE DEF DeadlineInv, DeadlineFixed, ClockRight, Waits,
            WindowNeverGrows, NothingAdmittedAfterExpiry, Granted
<1>1. CASE OpenElapsed
  <2>1. pc' = "opening" /\ sample' = begun' /\ stage = 1 /\ stage' = stage /\ skew' = skew
    BY <1>1 DEF OpenElapsed
  <2>2. ~ stepped' => skew = 0
    BY <1>1 DEF OpenElapsed
  <2> QED BY <2>1, <2>2
<1>2. CASE OpenWall
  BY <1>2 DEF OpenWall, clockVars
<1>3. CASE AdmitElapsed
  BY <1>3 DEF AdmitElapsed, clockVars
<1>4. CASE Admit
  <2>1. CASE Admissible
    <3>1. /\ pc = "admitting" /\ pc' \notin {"idle", "opening", "admitting"}
          /\ grant'.elapsed = sample /\ grant'.at = now
          /\ UNCHANGED <<now, skew, stepped, sample, openedWall, deadline, begun>>
      BY <1>4, <2>1 DEF Admit, clockVars
    <3>2. Remaining > Uncertainty /\ Remaining <= Expires - Wall /\ Remaining <= deadline - sample
      BY <2>1, Readings DEF Admissible
    <3>3. deadline = begun + (Expires - openedWall)
      BY <3>1
    <3>4. sample - begun + Uncertainty < Expires - openedWall
      BY <3>2, <3>3, Readings, DeadlineAssumption DEF TypeOK
    <3>5. ~ stepped => now + Uncertainty < Expires
      BY <3>1, <3>2, Readings, DeadlineAssumption DEF TypeOK, Wall
    <3> QED BY <3>1, <3>3, <3>4, <3>5
  <2>2. CASE ~ Admissible
    BY <1>4, <2>2 DEF Admit, clockVars
  <2> QED BY <2>1, <2>2
<1>5. CASE Connected \/ SessionLocked
  BY <1>5 DEF Connected, SessionLocked, Wait, clockVars
<1>6. CASE BootstrapLocked \/ SendSql \/ Finish
  BY <1>6 DEF BootstrapLocked, SendSql, Finish, clockVars
<1>7. CASE Tick \/ Suspend
  BY <1>7 DEF Tick, Suspend, callVars
<1>8. CASE \E s \in Skews : StepWall(s)
  BY <1>8 DEF StepWall, callVars
<1>9. CASE UNCHANGED vars
  BY <1>9 DEF vars, clockVars, callVars
<1> QED BY <1>1, <1>2, <1>3, <1>4, <1>5, <1>6, <1>7, <1>8, <1>9 DEF Next

\* The initial state has no deadline and no admission yet.
LEMMA DeadlineInit == Init => DeadlineInv
BY DEF Init, DeadlineInv, DeadlineFixed, ClockRight, WindowNeverGrows,
       NothingAdmittedAfterExpiry, Granted

\* WindowNeverGrows: no step of the wall clock, no pause between two samples and
\* no number of admissions gives an invocation more time than was left of its
\* approval when it was opened.
THEOREM WindowIsFixed == Spec => []WindowNeverGrows
<1>1. DeadlineInv => WindowNeverGrows
  BY DEF DeadlineInv
<1> QED BY <1>1, DeadlineInit, DeadlineStep, DeadlineTypeCorrect, PTL DEF Spec

\* NothingAdmittedAfterExpiry: with a wall clock that is right, no admission at
\* or after the signed expiry less the uncertainty, on either elapsed clock.
THEOREM ExpiryRefuses == Spec => []NothingAdmittedAfterExpiry
<1>1. DeadlineInv => NothingAdmittedAfterExpiry
  BY DEF DeadlineInv
<1> QED BY <1>1, DeadlineInit, DeadlineStep, DeadlineTypeCorrect, PTL DEF Spec

-----------------------------------------------------------------------------
(* The timeouts handed to PostgreSQL and libpq.                             *)

\* A whole number of units, capped and never 0, is positive and at most the
\* budget, or else the one unit it is rounded up to.
LEMMA WholeUnits ==
    ASSUME NEW b \in Nat, NEW unit \in Nat \ {0}, NEW cap \in Nat \ {0}
    PROVE  LET t == Greatest(1, Least(b \div unit, cap)) * unit
           IN  t > 0 /\ t <= Greatest(b, unit)
<1> DEFINE n == Greatest(1, Least(b \div unit, cap))
<1>1. b \div unit \in Nat
  OBVIOUS
<1>2. (b \div unit) * unit <= b
  OBVIOUS
<1>3. n \in Nat /\ n >= 1 /\ (n = 1 \/ n <= b \div unit)
  BY <1>1 DEF Greatest, Least
<1>4. \A m, k \in Nat : m <= k => m * unit <= k * unit
  OBVIOUS
<1> HIDE DEF n
<1>5. n * unit \in Nat /\ n * unit >= unit /\ (n = 1 => n * unit = unit)
  <2>1. 1 * unit <= n * unit
    BY <1>3, <1>4
  <2> QED BY <1>3, <2>1
<1>6. n * unit <= Greatest(b, unit)
  <2>1. CASE n = 1
    BY <1>5, <2>1 DEF Greatest
  <2>2. CASE n <= b \div unit
    <3>1. n * unit <= (b \div unit) * unit
      BY <1>1, <1>3, <1>4, <2>2
    <3>2. (b \div unit) * unit \in Nat
      BY <1>1
    <3>3. n * unit <= b
      BY <1>2, <1>5, <3>1, <3>2
    <3> QED BY <1>5, <3>3 DEF Greatest
  <2> QED BY <1>3, <2>1, <2>2
<1> QED BY <1>5, <1>6 DEF n

\* The budget that the watchdog gets after the last boundary is positive.
TimeoutInv == TimeoutsBoundTheWait /\ (pc = "bootstrap" => budget > 0)

\* Every step keeps the timeout of the wait in progress within its bounds.
LEMMA TimeoutStep ==
    ASSUME TypeOK, TimeoutInv, [Next]_vars
    PROVE  TimeoutInv'
<1>0. ASSUME NEW b \in Nat
      PROVE  /\ ConnectTimeout(b) * TicksPerS > 0
             /\ ConnectTimeout(b) * TicksPerS <= Greatest(b, TicksPerS)
             /\ TimeoutMs(b) * TicksPerMs > 0
             /\ TimeoutMs(b) * TicksPerMs <= Greatest(b, TicksPerMs)
  BY WholeUnits, DeadlineAssumption DEF ConnectTimeout, TimeoutMs
<1> USE DEF TimeoutInv, TimeoutsBoundTheWait, Waits
<1>1. CASE OpenElapsed \/ OpenWall \/ AdmitElapsed \/ BootstrapLocked \/ Finish
  BY <1>1 DEF OpenElapsed, OpenWall, AdmitElapsed, BootstrapLocked, Finish
<1>2. CASE Admit
  <2>1. CASE Admissible
    <3>1. Remaining \in Nat /\ Remaining > 0
      BY <2>1, Readings, DeadlineAssumption DEF Admissible
    <3>2. CASE stage = BeforeConnect
      <4>1. /\ pc' = "connecting" /\ budget' = Remaining
            /\ timeout' = ConnectTimeout(Remaining) * TicksPerS
        BY <1>2, <2>1, <3>2 DEF Admit, BeforeConnect, AfterLocks
      <4>2. /\ ConnectTimeout(Remaining) * TicksPerS > 0
            /\ ConnectTimeout(Remaining) * TicksPerS <= Greatest(Remaining, TicksPerS)
        <5>1. PICK b \in Nat : b = Remaining
          BY <3>1
        <5> QED BY <1>0, <5>1
      <4> QED BY <4>1, <4>2
    <3>3. CASE stage # BeforeConnect
      BY <1>2, <2>1, <3>1, <3>3 DEF Admit, BeforeConnect, AfterLocks
    <3> QED BY <3>2, <3>3
  <2>2. CASE ~ Admissible
    BY <1>2, <2>2 DEF Admit
  <2> QED BY <2>1, <2>2
<1>3. CASE Connected \/ SessionLocked
  <2>1. /\ pc' \in {"session_lock", "bootstrap_lock"} /\ budget' = budget
        /\ timeout' = TimeoutMs(budget) * TicksPerMs
    BY <1>3 DEF Connected, SessionLocked, Wait
  <2>2. /\ TimeoutMs(budget) * TicksPerMs > 0
        /\ TimeoutMs(budget) * TicksPerMs <= Greatest(budget, TicksPerMs)
    BY <1>0 DEF TypeOK
  <2> QED BY <2>1, <2>2
<1>4. CASE SendSql
  <2>1. pc = "bootstrap" /\ pc' = "sql" /\ budget' = budget /\ timeout' = budget
    BY <1>4 DEF SendSql
  <2>2. budget <= Greatest(budget, TicksPerMs)
    BY DeadlineAssumption DEF Greatest, TypeOK
  <2> QED BY <2>1, <2>2
<1>5. CASE Tick \/ Suspend \/ \E s \in Skews : StepWall(s)
  BY <1>5 DEF Tick, Suspend, StepWall, callVars
<1>6. CASE UNCHANGED vars
  BY <1>6 DEF vars, callVars
<1> QED BY <1>1, <1>2, <1>3, <1>4, <1>5, <1>6 DEF Next

\* TimeoutsBoundTheWait: no timeout the executor hands out is 0, which would be
\* no limit at all, and none is longer than what was left when it was computed,
\* except for the one unit it is rounded up to; for every unit and every cap.
THEOREM TimeoutsAreBounded == Spec => []TimeoutsBoundTheWait
<1>1. Init => TimeoutInv
  BY DEF Init, TimeoutInv, TimeoutsBoundTheWait, Waits
<1>2. TimeoutInv => TimeoutsBoundTheWait
  BY DEF TimeoutInv
<1> QED BY <1>1, <1>2, TimeoutStep, DeadlineTypeCorrect, PTL DEF Spec
=============================================================================
