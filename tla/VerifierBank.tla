---------------------------- MODULE VerifierBank ----------------------------
(***************************************************************************)
(* The verifier bank: what a set of verifier outcomes amounts to, and what  *)
(* the bank learns from it about the verifiers.                             *)
(*                                                                         *)
(* An outcome is [by, tier, says]: a verdict, or a fault for a verifier     *)
(* that could not run (Unavailable).  Log-odds are kept as odds, the pair   *)
(* <<n, m>> standing for n : m, so that the comparison with a threshold is  *)
(* exact; the clamp of a rate to [1e-6, 1 - 1e-6] is out of reach of the    *)
(* counts a run of the model can accumulate.                                *)
(***************************************************************************)
EXTENDS Naturals, Sequences, SequencesExt, FiniteSets

Tiers == {"hard", "human", "soft"}

AuthoritativeTiers == {"hard", "human"}

Verdicts == {"PASS", "FAIL", "ABSTAIN"}

Faults == {"infra_fault", "policy_refusal"}

Outcome(by, tier, says) == [by |-> by, tier |-> tier, says |-> says]

\* The outcomes that are in a set, in their order.
Among(items, set) ==
    LET kept[n \in 0..Len(items)] ==
            IF n = 0 THEN <<>>
            ELSE IF items[n] \in set THEN Append(kept[n - 1], items[n]) ELSE kept[n - 1]
    IN  kept[Len(items)]

Saying(items, words) == Among(items, {o \in ToSet(items) : o.says \in words})

\* partition_outcomes.
Graded(items) == Saying(items, Verdicts)
Missing(items) == Saying(items, Faults)

---------------------------------------------------------------------------
(* Trust. *)

TrustStats(tier) == [tier |-> tier, tp |-> 0, fn |-> 0, tn |-> 0, fp |-> 0]

\* TIER_PRIORS: <<alpha, beta>> of a rate before anything has been seen.
Prior(tier) ==
    CASE tier = "hard" -> <<19, 1>> [] tier = "human" -> <<49, 1>> [] tier = "soft" -> <<1, 1>>

SampleCount(s) == s.tp + s.fn + s.tn + s.fp

\* log_lr as odds: TPR : 1 - TNR for a PASS, 1 - TPR : TNR for a FAIL.
LikelihoodRatio(s, report) ==
    LET alpha == Prior(s.tier)[1]
        beta  == Prior(s.tier)[2]
        pos   == s.tp + s.fn + alpha + beta    \* the denominator of TPR
        neg   == s.tn + s.fp + alpha + beta    \* the denominator of TNR
    IN  IF report = "PASS" THEN <<(s.tp + alpha) * neg, pos * (s.fp + beta)>>
                           ELSE <<(s.fn + beta) * neg, pos * (s.tn + alpha)>>

\* The confusion count of one more report that the reference has settled.
Updated(s, predicted, actual) ==
    CASE actual = "PASS" /\ predicted = "PASS" -> [s EXCEPT !.tp = @ + 1]
      [] actual = "PASS" /\ predicted = "FAIL" -> [s EXCEPT !.fn = @ + 1]
      [] actual = "FAIL" /\ predicted = "FAIL" -> [s EXCEPT !.tn = @ + 1]
      [] actual = "FAIL" /\ predicted = "PASS" -> [s EXCEPT !.fp = @ + 1]

\* TrustStore.put.
Put(trust, v, s) == [trust EXCEPT ![v] = s]

---------------------------------------------------------------------------
(* Fusion.  trust is the trust store, a function of the verifiers it knows. *)

Odds(trust, items) ==
    LET odds[n \in 0..Len(items)] ==
            IF n = 0 THEN <<1, 1>>
            ELSE LET r == LikelihoodRatio(trust[items[n].by], items[n].says)
                 IN  <<odds[n - 1][1] * r[1], odds[n - 1][2] * r[2]>>
    IN  odds[Len(items)]

\* fuse: a tie is a PASS.
Fused(odds) == IF odds[1] >= odds[2] THEN "PASS" ELSE "FAIL"

Against(odds) == <<odds[2], odds[1]>>

\* The confidence odds[1] : odds[2] is below n/m.
Below(odds, n, m) == odds[1] * m < n * (odds[1] + odds[2])

Judgment(verdict, odds, authoritative, conflict) ==
    [kind |-> "judgment", verdict |-> verdict, odds |-> odds,
     authoritative |-> authoritative, conflict |-> conflict]

Unavailable(reason) == [kind |-> "unavailable", reason |-> reason]

Judged(trust, items, byTier) == Among(items, {o \in ToSet(items) : trust[o.by].tier \in byTier})

\* Every report counts for or against its verifier, one after the other, each
\* from the statistics read at the start.
Calibrated(trust, reports, verdict) ==
    LET after[n \in 0..Len(reports)] ==
            IF n = 0 THEN trust
            ELSE Put(after[n - 1], reports[n].by,
                     Updated(trust[reports[n].by], reports[n].says, verdict))
    IN  after[Len(reports)]

\* Mutant: the reference is calibrated against itself.
AuthoritativeJudgmentSelfGraded(trust, authoritative, advisory) ==
    LET verdict == Fused(Odds(trust, authoritative))
    IN  [outcome |-> Judgment(verdict, Odds(trust, authoritative \o advisory), TRUE, FALSE),
         trust |-> Calibrated(trust, authoritative \o advisory, verdict)]

\* _authoritative_judgment: the reference is the human tier where it spoke, else
\* the hard one.  It alone gives the verdict; everybody gives the confidence.
AuthoritativeJudgment(trust, authoritative, advisory) ==
    LET refTier   == IF Judged(trust, authoritative, {"human"}) # <<>> THEN "human" ELSE "hard"
        reference == Judged(trust, authoritative, {refTier})
        others    == Judged(trust, authoritative, AuthoritativeTiers \ {refTier}) \o advisory
        verdict   == Fused(Odds(trust, reference))
        odds      == Odds(trust, reference \o others)
    IN  [outcome |-> Judgment(verdict, IF verdict = "PASS" THEN odds ELSE Against(odds), TRUE,
                              \E o \in ToSet(authoritative) : o.says # verdict),
         trust |-> Calibrated(trust, others, verdict)]

AdvisoryJudgment(trust, advisory) ==
    LET odds == Odds(trust, advisory)
        verdict == Fused(odds)
    IN  Judgment(verdict, IF verdict = "PASS" THEN odds ELSE Against(odds), FALSE, FALSE)

\* _merge_unavailable: a refusal of policy only where all of them are.
MergeUnavailable(items) ==
    Unavailable(IF \A o \in ToSet(items) : o.says = "policy_refusal"
                THEN "policy_refusal" ELSE "infra_fault")

\* _ensure_stats: a verifier that was never seen gets the statistics of its tier.
Ensured(trust, items) ==
    LET known == DOMAIN trust \cup {o.by : o \in ToSet(items)}
    IN  [v \in known |->
            IF v \in DOMAIN trust THEN trust[v]
            ELSE TrustStats((CHOOSE o \in ToSet(items) : o.by = v).tier)]

\* VerifierBank.judge: the outcome and the trust store it leaves.  The bank
\* raises on a report whose tier is not the one stored; no caller makes one.
Judge(trust, items) ==
    LET usable        == Saying(Graded(items), Verdicts \ {"ABSTAIN"})
        known         == Ensured(trust, usable)
        authoritative == Judged(known, usable, AuthoritativeTiers)
        advisory      == Judged(known, usable, Tiers \ AuthoritativeTiers)
        faults        == Among(Missing(items), {o \in ToSet(items) : o.tier \in AuthoritativeTiers})
    IN  IF authoritative # <<>> THEN AuthoritativeJudgment(known, authoritative, advisory)
        ELSE [outcome |->
                CASE faults # <<>> -> MergeUnavailable(faults)
                  [] faults = <<>> /\ advisory # <<>> -> AdvisoryJudgment(known, advisory)
                  [] OTHER -> Judgment("ABSTAIN", <<1, 1>>, FALSE, FALSE),
              trust |-> known]

---------------------------------------------------------------------------
(* The soft judges and the levers on them: what each says of its base's     *)
(* answers.  An answer is [says, sure]: a verdict and whether the stated     *)
(* confidence reaches the threshold; an unreadable one is an abstention.     *)

Answers == [says : Verdicts, sure : BOOLEAN] \cup [says : {"infra_fault"}, sure : {FALSE}]

\* ModelJudgeVerifier and GroundingVerifier: a provider that raises is a fault.
ModelJudge(answer) == answer.says

\* ConfidenceThresholdJudge: a PASS that is not sure of itself is withheld.
ThresholdJudge(answer) ==
    IF answer.says = "PASS" /\ ~answer.sure THEN "ABSTAIN" ELSE answer.says

Votes(answers, says) == Cardinality({i \in DOMAIN answers : answers[i].says = says})

\* _unavailable_ensemble: one judge that could not run makes all of it unavailable.
Polled(answers, verdict) == IF Votes(answers, "infra_fault") > 0 THEN "infra_fault" ELSE verdict

\* EnsembleJudge: unanimity, or what it was told to say when they disagree.
EnsembleJudge(answers, onDisagreement) ==
    LET n == Len(answers)
    IN  Polled(answers,
            CASE Votes(answers, "PASS") = n -> "PASS"
              [] Votes(answers, "FAIL") = n -> "FAIL"
              [] Votes(answers, "ABSTAIN") = n -> "ABSTAIN"
              [] OTHER -> onDisagreement)

\* RepeatedSamplingJudge, by majority of all the samples.
SamplingJudge(answers) ==
    LET k == Len(answers)
    IN  Polled(answers,
            CASE Votes(answers, "PASS") * 2 > k -> "PASS"
              [] Votes(answers, "FAIL") * 2 > k -> "FAIL"
              [] OTHER -> "ABSTAIN")

\* What an advisor may report, by the kind of judge it is.
AdvisorSays(judge) ==
    CASE judge = "none"      -> {"ABSTAIN"}    \* counts for nothing
      [] judge = "model"     -> {ModelJudge(a) : a \in Answers}
      [] judge = "threshold" -> {ThresholdJudge(a) : a \in Answers}
      [] judge = "ensemble"  ->
            {EnsembleJudge(<<a, b>>, says) : a, b \in Answers, says \in {"ABSTAIN", "FAIL"}}
      [] judge = "sampling"  -> {SamplingJudge(<<a, b, c>>) : a, b, c \in Answers}
=============================================================================
