-------------------------- MODULE ExecutionDeadline --------------------------
(***************************************************************************)
(* The approval-validity clock model of chokepoint/admission.py, and the    *)
(* boundaries at which chokepoint/runner.py asks it: three in the runner    *)
(* (before the approval is spent, before the intent, before the executor)   *)
(* and two in postgres_executor (2a before the connection, 2b after the     *)
(* locks).                                                                  *)
(*                                                                         *)
(* Time passes between any two steps, the two samples of one reading        *)
(* included; the wall clock may be stepped, and the host may be suspended.  *)
(*                                                                         *)
(* Abstractions.                                                           *)
(*  - Time is counted in ticks, TicksPerMs to the unit of the server's      *)
(*    timeouts and TicksPerS to the unit of connect_timeout.                *)
(*  - Every value is finite; ClockUntrusted and InvalidApprovalInterval     *)
(*    refuse before the deadline exists.                                    *)
(*  - wall = now + skew, where now is the true time.                        *)
(***************************************************************************)
EXTENDS Integers

CONSTANTS
    Expires,       \* expires_at of the approval
    Uncertainty,   \* uncertainty_s
    Awareness,     \* whether CLOCK_BOOTTIME is available, on the hosts considered
    TicksPerMs,
    TicksPerS,
    CapMs,         \* cap of lock_timeout and of statement_timeout
    CapS,          \* cap of connect_timeout
    Skews,         \* how far the wall clock may be off
    MaxTime        \* the true time at which the model ends

ASSUME DeadlineAssumption ==
    /\ Expires \in Nat
    /\ Uncertainty \in Nat
    /\ Awareness \subseteq BOOLEAN
    /\ TicksPerMs \in Nat \ {0}
    /\ TicksPerS \in Nat \ {0}
    /\ CapMs \in Nat \ {0}
    /\ CapS \in Nat \ {0}
    /\ Skews \subseteq Int
    /\ 0 \in Skews
    /\ MaxTime \in Nat

VARIABLES
    now,        \* the true time
    skew,       \* error of the wall clock
    stepped,    \* the wall clock has been off since the invocation began
    asleep,     \* for how long the host has been suspended
    aware,      \* the elapsed clock counts that time (elapsed_source)
    pc,         \* where the invocation is
    stage,      \* the admission boundary it has to pass next
    sample,     \* elapsed_now of the reading in progress
    openedWall, \* opened_wall
    deadline,   \* elapsed_deadline
    begun,      \* what the elapsed clock read when the invocation began
    budget,     \* remaining_s of the last admission
    grant,      \* the last admission: its elapsed sample and the true time
    timeout,    \* the timeout of the wait in progress
    since       \* when that wait began

clockVars == <<now, skew, stepped, asleep, aware>>
callVars  == <<pc, stage, sample, openedWall, deadline, begun, budget, grant, timeout, since>>
vars      == <<clockVars, callVars>>

-----------------------------------------------------------------------------
Waits  == {"connecting", "session_lock", "bootstrap_lock", "sql"}
Phases == {"idle", "opening", "ready", "admitting", "bootstrap", "done"} \cup Waits
Stages == 1..5

\* The boundaries 2a and 2b of postgres_executor; 1 to 3 are the runner's.
BeforeConnect == 4
AfterLocks    == 5

TypeOK ==
    /\ now \in Nat
    /\ skew \in Skews
    /\ stepped \in BOOLEAN
    /\ asleep \in 0..now
    /\ aware \in Awareness
    /\ pc \in Phases
    /\ stage \in Stages
    /\ sample \in Int
    /\ openedWall \in Int
    /\ deadline \in Int
    /\ begun \in Int
    /\ budget \in Nat
    /\ grant \in [elapsed : Int, at : Nat]
    /\ timeout \in Nat
    /\ since \in Nat

Init ==
    /\ now = 0
    /\ skew = 0
    /\ stepped = FALSE
    /\ asleep = 0
    /\ aware \in Awareness
    /\ pc = "idle"
    /\ stage = 1
    /\ sample = 0
    /\ openedWall = 0
    /\ deadline = 0
    /\ begun = 0
    /\ budget = 0
    /\ grant = [elapsed |-> 0, at |-> 0]
    /\ timeout = 0
    /\ since = 0

Wall    == now + skew
Elapsed == IF aware THEN now ELSE now - asleep

-----------------------------------------------------------------------------
(* ExecutionDeadline.open: the elapsed clock first, then the wall clock.    *)

OpenElapsed ==
    /\ pc = "idle"
    /\ pc' = "opening"
    /\ sample' = Elapsed
    /\ begun' = Elapsed
    /\ stepped' = (skew # 0)
    /\ UNCHANGED <<now, skew, asleep, aware, stage, openedWall, deadline, budget, grant, timeout, since>>

\* Mutant of OpenWall: the elapsed clock is read after the wall clock.
OpenWallElapsedLast ==
    /\ pc = "opening"
    /\ pc' = "ready"
    /\ openedWall' = sample + skew
    /\ deadline' = Elapsed + (Expires - openedWall')
    /\ UNCHANGED <<clockVars, stage, sample, begun, budget, grant, timeout, since>>

OpenWall ==
    /\ pc = "opening"
    /\ pc' = "ready"
    /\ openedWall' = Wall
    /\ deadline' = sample + (Expires - Wall)
    /\ UNCHANGED <<clockVars, stage, sample, begun, budget, grant, timeout, since>>

-----------------------------------------------------------------------------
(* ExecutionDeadline.admit, at each boundary.                               *)

AdmitElapsed ==
    /\ pc = "ready"
    /\ pc' = "admitting"
    /\ sample' = Elapsed
    /\ UNCHANGED <<clockVars, stage, openedWall, deadline, begun, budget, grant, timeout, since>>

Least(a, b)    == IF a <= b THEN a ELSE b
Greatest(a, b) == IF a >= b THEN a ELSE b

\* Mutant of Remaining: only the elapsed clock is asked.
RemainingOnElapsed == deadline - sample

\* What is left of the approval: the less of the two arms.
Remaining == Least(Expires - Wall, deadline - sample)

\* Either arm refuses when it is reached, and so does the uncertainty.
Admissible == Remaining > Uncertainty

\* Mutant of TimeoutMs: the budget is rounded down, to "no timeout" at the end.
TimeoutMsUnclamped(remaining) == Least(remaining \div TicksPerMs, CapMs)

\* timeout_ms and connect_timeout_s: whole units, capped, and never 0, which
\* would switch the timeout off.
TimeoutMs(remaining) == Greatest(1, Least(remaining \div TicksPerMs, CapMs))
ConnectTimeout(remaining) == Greatest(1, Least(remaining \div TicksPerS, CapS))

\* Mutant of Admit: the executor asks again after its last boundary.
AdmitOnceMore ==
    /\ pc = "admitting"
    /\ Admissible
    /\ budget' = Remaining
    /\ stage' = stage + 1
    /\ pc' = "ready"
    /\ grant' = [elapsed |-> sample, at |-> now]
    /\ UNCHANGED <<clockVars, sample, openedWall, deadline, begun, timeout, since>>

\* The executor takes the remaining validity along as its budget: to the connect
\* and both locks from 2a, to the artifact from 2b.
Admit ==
    /\ pc = "admitting"
    /\ IF Admissible
       THEN /\ budget' = Remaining
            /\ grant' = [elapsed |-> sample, at |-> now]
            /\ pc' = CASE stage = BeforeConnect -> "connecting"
                       [] stage = AfterLocks    -> "bootstrap"
                       [] OTHER                 -> "ready"
            /\ timeout' = IF stage = BeforeConnect
                          THEN ConnectTimeout(Remaining) * TicksPerS ELSE timeout
            /\ since' = now
            /\ stage' = IF stage = AfterLocks THEN stage ELSE stage + 1
       ELSE /\ pc' = "done"
            /\ UNCHANGED <<stage, budget, grant, timeout, since>>
    /\ UNCHANGED <<clockVars, sample, openedWall, deadline, begun>>

-----------------------------------------------------------------------------
(* The waits of postgres_executor.                                          *)

\* A wait of the given timeout begins.
Wait(phase) ==
    /\ pc' = phase
    /\ timeout' = TimeoutMs(budget) * TicksPerMs
    /\ since' = now

\* The connection stands and the session lock is asked for, then the bootstrap
\* lock, each with the lock_timeout that was computed from the budget of 2a.
Connected ==
    /\ pc = "connecting"
    /\ Wait("session_lock")
    /\ UNCHANGED <<clockVars, stage, sample, openedWall, deadline, begun, budget, grant>>

SessionLocked ==
    /\ pc = "session_lock"
    /\ Wait("bootstrap_lock")
    /\ UNCHANGED <<clockVars, stage, sample, openedWall, deadline, begun, budget, grant>>

BootstrapLocked ==
    /\ pc = "bootstrap_lock"
    /\ pc' = "ready"
    /\ UNCHANGED <<clockVars, stage, sample, openedWall, deadline, begun, budget, grant,
                   timeout, since>>

\* The receipt schema is in place; the artifact runs until it ends or until the
\* watchdog cancels it.
SendSql ==
    /\ pc = "bootstrap"
    /\ pc' = "sql"
    /\ timeout' = budget
    /\ since' = now
    /\ UNCHANGED <<clockVars, stage, sample, openedWall, deadline, begun, budget, grant>>

\* A wait fails or times out, or the artifact ends.
Finish ==
    /\ pc \in Waits
    /\ pc' = "done"
    /\ UNCHANGED <<clockVars, stage, sample, openedWall, deadline, begun, budget, grant,
                   timeout, since>>

-----------------------------------------------------------------------------
(* The clocks.                                                              *)

\* A wait ends when its timeout is reached.
Tick ==
    /\ now < MaxTime
    /\ pc \in Waits => now < since + timeout
    /\ now' = now + 1
    /\ UNCHANGED <<skew, stepped, asleep, aware, callVars>>

Suspend ==
    /\ now < MaxTime
    /\ now' = now + 1
    /\ asleep' = asleep + 1
    /\ UNCHANGED <<skew, stepped, aware, callVars>>

StepWall(s) ==
    /\ s # skew
    /\ skew' = s
    /\ stepped' = TRUE
    /\ UNCHANGED <<now, asleep, aware, callVars>>

-----------------------------------------------------------------------------
Next ==
    \/ OpenElapsed \/ OpenWall \/ AdmitElapsed \/ Admit
    \/ Connected \/ SessionLocked \/ BootstrapLocked \/ SendSql \/ Finish
    \/ Tick \/ Suspend \/ \E s \in Skews : StepWall(s)

Spec == Init /\ [][Next]_vars

-----------------------------------------------------------------------------
(* Properties.                                                              *)

Granted == stage > 1

\* Whatever the wall clock does, and however long the pauses between the samples
\* are, the invocation never gets more time than was left when it was opened:
\* every admission lies within the budget, counted from the moment the
\* invocation began ("a pause would enlarge the invocation").
WindowNeverGrows ==
    Granted => grant.elapsed - begun + Uncertainty < Expires - openedWall

\* With a wall clock that is right, nothing is admitted at or after the signed
\* expiry less the uncertainty, whether or not the elapsed clock sees a suspend.
NothingAdmittedAfterExpiry ==
    (Granted /\ ~ stepped) => grant.at + Uncertainty < Expires

\* A timeout handed to PostgreSQL or libpq is never 0 (no limit at all), and it
\* is no longer than what was left when it was computed, except for the one unit
\* it is rounded up to.
TimeoutsBoundTheWait ==
    pc \in Waits =>
        /\ timeout > 0
        /\ timeout <= Greatest(budget, IF pc = "connecting" THEN TicksPerS ELSE TicksPerMs)
=============================================================================
