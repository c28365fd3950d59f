------------------------------- MODULE Policy -------------------------------
(***************************************************************************)
(* From verifier outcomes to a decision about one action: the requirements  *)
(* the selected policy makes of it, whether the outcomes cover them, the    *)
(* assessment, its authorization and the gate.                              *)
(*                                                                         *)
(* A snapshot is the record of the requirements and of the action they were *)
(* resolved for, and two have the same digest when they are equal.  Every   *)
(* entry point resolves again from the policy selected at that moment.      *)
(***************************************************************************)
EXTENDS VerifierBank, Spend

CONSTANTS
    Profiles,    \* Profiles[p][class]: the requirements [check, permitted] of profile p
    Sites        \* Sites[i]: the identity that the site declared for implementation i reports

VARIABLE selected    \* the policy the composition root's supplier answers with now

ActionClasses == {"sandbox.execute", "database.migrate", "branch.delete"}

\* The consequence class of an action, by its kind.
ClassOf(kind) ==
    CASE kind = "python_code" -> "sandbox.execute" [] kind = "git_delete_branch" -> "branch.delete"

\* The implementations the package declares, each at a site that reports it.
CommittedSites ==
    [i \in {"subprocess-tests", "sql-result-equivalence", "grounding-judge", "model-judge",
            "swarm-checks", "git-merge-check"} |-> i]

\* verify_implementation: declared, and reported by what the declaration names.
Verified(i) == i \in DOMAIN Sites /\ Sites[i] = i

\* VerificationPolicy: known classes, a requirement for each that is covered, no
\* check twice, and nothing permitted that is not declared.
WellFormed(profile) ==
    /\ DOMAIN profile \subseteq ActionClasses
    /\ \A class \in DOMAIN profile :
          /\ profile[class] # <<>>
          /\ \A i, j \in DOMAIN profile[class] :
                i # j => profile[class][i].check # profile[class][j].check
          /\ \A r \in ToSet(profile[class]) :
                r.permitted # {} /\ r.permitted \subseteq DOMAIN Sites

\* load_profile: the profiles that load.
Policies ==
    {p \in DOMAIN Profiles :
        /\ WellFormed(Profiles[p])
        /\ \A class \in DOMAIN Profiles[p] : \A r \in ToSet(Profiles[p][class]) :
              \A i \in r.permitted : Verified(i)}

\* A profile is a table of lists of requirements, and there is one to select.
ASSUME ProfilesAssumption ==
    /\ \A p \in DOMAIN Profiles : \A class \in DOMAIN Profiles[p] :
          Profiles[p][class] \in Seq([check : STRING, permitted : SUBSET STRING])
    /\ Policies # {}

Requirement(check, permitted) == [check |-> check, permitted |-> permitted]

ExecutableCases == Requirement("executable.cases", {"subprocess-tests"})
Structural == Requirement("structural.predicates", {"swarm-checks"})
MergeProof == Requirement("branch.merge_proof", {"git-merge-check"})

\* The two committed profiles.
Baseline ==
    [class \in ActionClasses |->
        IF class = "branch.delete" THEN <<MergeProof>> ELSE <<ExecutableCases>>]

DefenseInDepth ==
    [Baseline EXCEPT !["sandbox.execute"] = Append(@, Structural)]

\* resolve: the snapshot of an action [class, artifact, target, attempt], or None
\* where the policy does not cover the class or requires nothing of it.
Resolve(policy, action) ==
    IF action.class \notin DOMAIN Profiles[policy] THEN None
    ELSE IF Profiles[policy][action.class] = <<>> THEN None
    ELSE [policy |-> policy, action |-> action, requires |-> Profiles[policy][action.class]]

\* snapshot_digest covers every field of the snapshot.
SameDigest(snapshot, other) == snapshot = other

---------------------------------------------------------------------------
(* Coverage.  A bound result is [check, digest, implementation, outcome].   *)

Bound(check, snapshot, implementation, outcome) ==
    [check |-> check, digest |-> snapshot, implementation |-> implementation,
     outcome |-> outcome]

Required(snapshot, check) == {r \in ToSet(snapshot.requires) : r.check = check}

\* The first pass: is the i-th result evidence about this attempt at all.
ResultProblem(snapshot, results, i) ==
    LET r == results[i]
        required == Required(snapshot, r.check)
    IN  CASE ~SameDigest(r.digest, snapshot) -> "invalid_evidence"
          [] \E q \in required : r.implementation \notin q.permitted -> "invalid_evidence"
          [] r.outcome.by # r.implementation -> "invalid_evidence"
          [] required # {} /\ \E j \in 1..(i - 1) :
                /\ results[j].check = r.check
                /\ results[j].implementation = r.implementation -> "ambiguous"
          [] OTHER -> "none"

\* _satisfactory and _authoritative.
Satisfies(o) == o.says = "PASS" /\ o.tier \in AuthoritativeTiers

\* The second pass: what the results about one requirement leave open.
RequirementProblem(requirement, results) ==
    LET outcomes == {r.outcome : r \in {s \in ToSet(results) : s.check = requirement.check}}
        verdicts == {o.says : o \in outcomes} \cap Verdicts
        certain  == \E o \in outcomes : Satisfies(o)
    IN  CASE Cardinality(verdicts) > 1 -> "ambiguous"
          [] verdicts = {"FAIL"} -> "unsatisfactory"
          [] verdicts = {"PASS"} /\ certain -> "none"
          [] verdicts = {"PASS"} /\ ~certain -> "advisory_only"
          [] verdicts = {"ABSTAIN"} -> "abstained"
          [] verdicts = {} -> "incomplete"

\* validate_coverage: the first problem, or "none".
CoverageProblem(snapshot, results) ==
    LET rejected == {i \in DOMAIN results : ResultProblem(snapshot, results, i) # "none"}
        unmet    == {i \in DOMAIN snapshot.requires :
                        RequirementProblem(snapshot.requires[i], results) # "none"}
    IN  CASE rejected # {} -> ResultProblem(snapshot, results, Min(rejected))
          [] rejected = {} /\ unmet # {} ->
                RequirementProblem(snapshot.requires[Min(unmet)], results)
          [] OTHER -> "none"

\* _judge_with_coverage: with every requirement met, all that was graded is
\* fused, the results no requirement asked for included.
JudgeWithCoverage(trust, snapshot, results) ==
    LET problem == CoverageProblem(snapshot, results)
    IN  CASE problem = "none" ->
                Judge(trust, Graded([i \in DOMAIN results |-> results[i].outcome])).outcome
          [] problem = "unsatisfactory" -> Judgment("FAIL", <<1, 0>>, TRUE, FALSE)
          [] problem = "incomplete" -> Unavailable("infra_fault")
          [] OTHER -> Unavailable("policy_refusal")

\* mint: an assessment is of the snapshot it was made for.
Mint(snapshot, outcome) == [snapshot |-> snapshot, outcome |-> outcome]

\* VerifierBank.assess: an assessment, or None where it raises.
Assess(trust, snapshot, results) ==
    IF ~SameDigest(Resolve(selected, snapshot.action), snapshot) THEN None
    ELSE Mint(snapshot, JudgeWithCoverage(trust, snapshot, results))

---------------------------------------------------------------------------
(* Authorization and the gate. *)

\* AuthorizedExecution: what was authorized, under the policy it was resolved from.
AuthorizedExecution(snapshot) == [snapshot |-> snapshot, policy |-> selected]

\* Mutant: the assessment is believed without resolving the policy again.
AuthorizeAsAssessed(assessment, action) ==
    AuthorizedExecution(assessment.snapshot)

\* ExecutionAuthorizer.authorize: None where it raises.
Authorize(assessment, action) ==
    LET expected == Resolve(selected, action)
    IN  IF expected = None \/ ~SameDigest(expected, assessment.snapshot) THEN None
        ELSE AuthorizedExecution(expected)

\* The floor of a risk class, as a fraction.
Floor(risk) ==
    CASE risk = "low" -> <<0, 1>> [] risk = "medium" -> <<3, 4>> [] risk = "high" -> <<9, 10>>

\* ActionGate._outcome.  Both gates are built with escalate_below, 3/4; the
\* controller's also routes high risk.
GateOutcome(gate, judgment, risk) ==
    CASE ~(judgment.verdict = "PASS" /\ judgment.authoritative) -> "block"
      [] judgment.verdict = "PASS" /\ judgment.authoritative ->
            IF \/ Below(judgment.odds, Floor(risk)[1], Floor(risk)[2])
               \/ gate.routeHighRisk /\ risk = "high"
               \/ Below(judgment.odds, 3, 4)
            THEN "route" ELSE "approve"

GateDecision(outcome, authorization) == [outcome |-> outcome, authorization |-> authorization]

\* ActionGate.decide: the authorization is made first, and raises first.
Decide(gate, assessment, action, risk) ==
    LET authorization == Authorize(assessment, action)
    IN  GateDecision(CASE authorization = None -> "raised"
                       [] authorization # None /\ assessment.outcome.kind = "unavailable" ->
                             "unavailable"
                       [] OTHER -> GateOutcome(gate, assessment.outcome, risk),
                     authorization)

\* Another policy is selected; nothing that is under way is told.
Rotate == selected' \in Policies \ {selected}
=============================================================================
