------------------------------ MODULE SkillLoop ------------------------------
(***************************************************************************)
(* The learning cycle of the orchestrator: the held-out tasks are measured, *)
(* the training tasks are run, skills are mined from the ones that failed,  *)
(* and each is promoted if the held-out tasks do better with it.  Every     *)
(* attempt is judged by the bank from the hard verifier and an advisor,     *)
(* which the bank calibrates on the way.  The registry and the statistics   *)
(* outlive a cycle: the next one starts from what the last one left.        *)
(*                                                                         *)
(* A measurement is [skills, passed, decided, hard, sound]: the skills the  *)
(* solver had, the tasks counted as passed, those counted at all, and, for  *)
(* the properties only, those the hard verifier passed and whether it gave  *)
(* a verdict on every one.                                                  *)
(***************************************************************************)
EXTENDS VerifierBank, Integers

CONSTANTS
    HeldOut,      \* how many held-out tasks there are
    Train,        \* how many training tasks, each of a cluster of its own
    Judges,       \* the kinds of advisor: "none" or one of the soft judges
    MaxSamples    \* bound: calibrated reports of the advisor

ASSUME LoopAssumption == HeldOut \in Nat /\ Train \in Nat /\ MaxSamples \in Nat

VARIABLES
    trust,        \* the trust store
    loop          \* the cycle

loopVars == <<trust, loop>>

LoopTrust ==
    [v \in {"subprocess-tests", "advisor"} |->
        TrustStats(IF v = "advisor" THEN "soft" ELSE "hard")]

Measurement(skills) == [skills |-> skills, passed |-> 0, decided |-> 0, hard |-> 0, sound |-> TRUE]

\* Skills are named after the cluster they were mined from: 1..Train.  The
\* registry is a folder of documents and holds whatever earlier processes, or the
\* people who edit it, have left there.
LoopInit(deployed) ==
    /\ trust = LoopTrust
    /\ \E judge \in Judges, overlap \in BOOLEAN, registry \in SUBSET (1..Train) :
          /\ ~deployed => judge = "none" /\ ~overlap /\ registry = {}
          /\ loop = [pc |-> IF deployed THEN "measure" ELSE "off", phase |-> "before",
                     advice |-> AdvisorSays(judge), overlap |-> overlap, left |-> HeldOut,
                     now |-> Measurement(registry), base |-> Measurement({}), failed |-> {},
                     mined |-> <<>>, registry |-> registry]

\* The next run_split, with the skills of the registry and the extra ones.
Run(state, phase, extra) ==
    [state EXCEPT !.pc = "measure", !.phase = phase, !.now = Measurement(state.registry \cup extra),
                  !.left = IF phase = "train" THEN Train ELSE HeldOut]

\* A task more in the measurement.
Counted(measured, hard, counts, passed) ==
    [measured EXCEPT !.passed  = IF passed THEN @ + 1 ELSE @,
                     !.decided = IF counts THEN @ + 1 ELSE @,
                     !.hard    = IF hard = "PASS" THEN @ + 1 ELSE @,
                     !.sound   = @ /\ hard \in {"PASS", "FAIL"}]

\* One task of run_split: a solution is proposed, verified, advised on and
\* judged.  Unavailable: left out of the rate, and of what the forge is given.
AttemptTask ==
    /\ loop.pc = "measure" /\ loop.left > 0
    /\ \E hard \in Verdicts \cup Faults, advice \in loop.advice :
          LET judged == Judge(trust, <<Outcome("subprocess-tests", "hard", hard),
                                       Outcome("advisor", "soft", advice)>>)
              counts == judged.outcome.kind = "judgment"
              passed == counts /\ judged.outcome.verdict = "PASS"
          IN  /\ SampleCount(judged.trust["advisor"]) <= MaxSamples
              /\ trust' = judged.trust
              /\ loop' = [loop EXCEPT
                    !.left = @ - 1,
                    !.now = Counted(@, hard, counts, passed),
                    !.failed = IF loop.phase = "train" /\ counts /\ ~passed
                               THEN @ \cup {loop.left} ELSE @]

\* LessonForge.mine: one skill for each cluster with a failure, by name.  The
\* forge does not look into the registry: a skill may be mined that is there.
Mine(failed) == [i \in 1..Cardinality(failed) |->
                    CHOOSE c \in failed : Cardinality({d \in failed : d <= c}) = i]

Measured(phase) == loop.pc = "measure" /\ loop.left = 0 /\ loop.phase = phase

\* The rate before, and the training tasks.
EndBefore ==
    /\ Measured("before")
    /\ loop' = Run([loop EXCEPT !.base = loop.now], "train", {})
    /\ UNCHANGED trust

\* The next candidate goes to the gate, or the cycle is measured once more.
Evaluate(state) ==
    IF state.mined = <<>> THEN Run(state, "after", {}) ELSE [state EXCEPT !.pc = "gate"]

EndTrain ==
    /\ Measured("train")
    /\ loop' = Evaluate([loop EXCEPT !.mined = Mine(loop.failed), !.failed = {}])
    /\ UNCHANGED trust

\* assert_disjoint: some task is in both splits.
FirewallBreached == loop.overlap

\* PromotionGate.evaluate: the firewall, then the held-out tasks with the candidate.
Score ==
    /\ loop.pc = "gate"
    /\ loop' = IF FirewallBreached THEN [loop EXCEPT !.pc = "raised"]
               ELSE Run(loop, "score", {Head(loop.mined)})
    /\ UNCHANGED trust

\* pass_rate, the rate of nothing being 0: a has the higher one.
Better(a, b) ==
    IF b.decided = 0 THEN a.passed > 0 ELSE a.passed * b.decided > b.passed * a.decided

\* The decision.  A promotion adds the skill to the registry.
EndScore ==
    /\ Measured("score")
    /\ loop' = IF Better(loop.now, loop.base)
               THEN [loop EXCEPT !.pc = "promoted", !.registry = @ \cup {Head(loop.mined)}]
               ELSE Evaluate([loop EXCEPT !.mined = Tail(@)])
    /\ UNCHANGED trust

\* Mutant: the rate measured at the start is compared with throughout.
RebaseNever ==
    /\ loop.pc = "promoted"
    /\ loop' = Evaluate([loop EXCEPT !.mined = Tail(@)])
    /\ UNCHANGED trust

\* With another candidate to come, the baseline is measured again.
Rebase ==
    /\ loop.pc = "promoted"
    /\ loop' = LET rest == [loop EXCEPT !.mined = Tail(@)]
               IN  IF rest.mined = <<>> THEN Evaluate(rest) ELSE Run(rest, "rebase", {})
    /\ UNCHANGED trust

EndRebase ==
    /\ Measured("rebase")
    /\ loop' = Evaluate([loop EXCEPT !.base = loop.now])
    /\ UNCHANGED trust

EndAfter ==
    /\ Measured("after")
    /\ loop' = [loop EXCEPT !.pc = "done"]
    /\ UNCHANGED trust

\* The next cycle, of this process or another: nothing but the registry and the
\* statistics is carried over.
NextCycle ==
    /\ loop.pc \in {"done", "raised"}
    /\ loop' = Run([loop EXCEPT !.base = Measurement({}), !.mined = <<>>], "before", {})
    /\ UNCHANGED trust

LoopNext ==
    \/ AttemptTask \/ EndBefore \/ EndTrain \/ Score \/ EndScore \/ Rebase \/ EndRebase
    \/ EndAfter \/ NextCycle
=============================================================================
