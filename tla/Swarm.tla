-------------------------------- MODULE Swarm --------------------------------
(***************************************************************************)
(* The swarm runtime: one driver runs one task packet.  The roles propose,  *)
(* the debate layer makes a plan of it, each entry is verified, and an      *)
(* action that the gate approves is executed once, through the spend record *)
(* that all drivers share.  The drivers are processes of their own.         *)
(*                                                                         *)
(* What a role answers comes from a model and is a choice; a provider that  *)
(* fails, answers in a form that does not parse or is out of calls gives    *)
(* nothing.  An artifact stands for its content, and so for the proposal    *)
(* and the attempt that are named after its hash.                           *)
(***************************************************************************)
EXTENDS Policy

CONSTANTS
    Drivers,
    Packets    \* [entry, risk, budget]: has an entry point, risk class, budget

ASSUME PacketsAssumption ==
    Packets \subseteq [entry : BOOLEAN, risk : {"low", "medium", "high"}, budget : Nat]

Artifacts == {"plain", "unsafe"}    \* "unsafe": the policy reviewer's word is in it

VARIABLES
    packet,    \* the packet every driver was given
    swarm,     \* swarm[d]: the run of driver d
    mutex,     \* keys with a row in spent_authorizations
    spends     \* spends[k]: the chain entries of key k

swarmVars == <<packet, swarm, mutex, spends>>

\* The key of an authorization: the bound fields that differ between drivers.
Keys == [artifact : Artifacts, policy : Policies]

ActionOf(artifact) ==
    [class |-> ClassOf("python_code"), artifact |-> artifact, target |-> "sandbox://swarm",
     attempt |-> artifact]

KeyOf(run) == [artifact |-> run.artifact, policy |-> run.authorization.policy]

NoRun == [pc |-> "off", policy |-> None, plan |-> <<>>, artifact |-> None, cases |-> FALSE,
          results |-> <<>>, assessment |-> None, authorization |-> None, ran |-> FALSE,
          row |-> None]

SwarmInit(deployed) ==
    /\ packet \in IF deployed \cap Drivers = {} THEN {None} ELSE Packets
    /\ swarm = [d \in Drivers |-> [NoRun EXCEPT !.pc = IF d \in deployed THEN "ready" ELSE "off"]]
    /\ mutex = {}
    /\ spends = [k \in Keys |-> <<>>]

\* Both verifiers are registered as hard, and a judgment without a human in it
\* leaves the statistics of the hard ones alone.
SwarmTrust == [v \in {"swarm-checks", "subprocess-tests"} |-> TrustStats("hard")]

---------------------------------------------------------------------------
(* Proposing and planning. *)

\* DebateLayer.select: actions first, cut to the budget; 0 is no limit.
Select(action, hypothesis, budget) ==
    LET all == (IF action THEN <<"proposed_action">> ELSE <<>>)
               \o (IF hypothesis THEN <<"hypothesis">> ELSE <<>>)
    IN  IF budget = 0 \/ budget > Len(all) THEN all ELSE SubSeq(all, 1, budget)

\* Skeptic._executable_check: cases are made for an action, given an entry point.
MayHaveCases(artifact) == packet.entry /\ artifact # None

\* Swarm.propose: the planner and the analyst, then the skeptic on what they said.
Proposals ==
    {p \in [artifact : Artifacts \cup {None}, hypothesis : BOOLEAN, cases : BOOLEAN] :
        p.cases => MayHaveCases(p.artifact)}

\* The runtime is built, under the policy that is selected then, and run.
Start(d) ==
    /\ swarm[d].pc = "ready"
    /\ \E p \in Proposals :
          swarm' = [swarm EXCEPT ![d] =
              [@ EXCEPT !.pc = "next", !.policy = selected, !.artifact = p.artifact,
                        !.cases = p.cases,
                        !.plan = Select(p.artifact # None, p.hypothesis, packet.budget)]]
    /\ UNCHANGED <<selected, packet, mutex, spends>>

At(d, kind) == swarm[d].pc = "next" /\ swarm[d].plan # <<>> /\ Head(swarm[d].plan) = kind

\* _record, and on to the next entry.  An execution that was refused is a row
\* "executed" too.  What an entry that did not run was verified with is let go.
Recorded(run, row) ==
    LET next == [run EXCEPT !.pc = "next", !.plan = Tail(@), !.row = row]
    IN  IF run.ran THEN next
        ELSE [next EXCEPT !.artifact = None, !.cases = FALSE, !.results = <<>>,
                          !.assessment = None, !.authorization = None]

\* What is not an action is judged outside of any policy, and recorded.
JudgeHypothesis(d) ==
    /\ At(d, "hypothesis")
    /\ swarm' = [swarm EXCEPT ![d].plan = Tail(@)]
    /\ UNCHANGED <<selected, packet, mutex, spends>>

\* The policy of the runtime says nothing about running code.
Unresolved(d) ==
    /\ At(d, "proposed_action")
    /\ Resolve(swarm[d].policy, ActionOf(swarm[d].artifact)) = None
    /\ swarm' = [swarm EXCEPT ![d] = Recorded(@, "judged")]
    /\ UNCHANGED <<selected, packet, mutex, spends>>

---------------------------------------------------------------------------
(* Verifying, assessing, deciding. *)

\* The check that the policy reviewer asks for of every action.
PolicyCompliant(artifact) == artifact # "unsafe"

\* The predicates that were asked for, as one result: content and rationale are
\* there by construction.
StructuralVerdict(artifact) == IF PolicyCompliant(artifact) THEN "PASS" ELSE "FAIL"

\* _run_executable_checks: what the code verifier makes of the skeptic's cases,
\* None where there are none or it raises.
CodeVerdicts(run) == IF run.cases THEN Verdicts \cup Faults \cup {None} ELSE {None}

\* _verify, of the snapshot resolved here: the structural predicates, and the
\* result on the cases where there is one.
Verify(d) ==
    LET run  == swarm[d]
        snap == Resolve(run.policy, ActionOf(run.artifact))
        structural == Bound("structural.predicates", snap, "swarm-checks",
                            Outcome("swarm-checks", "hard", StructuralVerdict(run.artifact)))
    IN  /\ At(d, "proposed_action")
        /\ snap # None
        /\ \E says \in CodeVerdicts(run) :
              swarm' = [swarm EXCEPT ![d] =
                  [@ EXCEPT !.pc = "verified",
                            !.results =
                               <<structural>>
                               \o IF says = None THEN <<>>
                                  ELSE <<Bound("executable.cases", snap, "subprocess-tests",
                                               Outcome("subprocess-tests", "hard", says))>>]]
        /\ UNCHANGED <<selected, packet, mutex, spends>>

\* An exception leaves the loop over the plan, and the run.
Raised(run) == [run EXCEPT !.pc = "raised"]

\* The bank assesses; an assessment that could not be made is recorded as judged.
AssessEntry(d) ==
    LET run        == swarm[d]
        assessment == Assess(SwarmTrust, Resolve(run.policy, ActionOf(run.artifact)), run.results)
    IN  /\ run.pc = "verified"
        /\ swarm' = [swarm EXCEPT ![d] =
              CASE assessment = None -> Raised(@)
                [] assessment # None /\ assessment.outcome.kind = "unavailable" ->
                      Recorded(@, "judged")
                [] OTHER -> [@ EXCEPT !.pc = "assessed", !.assessment = assessment]]
        /\ UNCHANGED <<selected, packet, mutex, spends>>

\* The gate of the swarm decides.
DecideEntry(d) ==
    LET run      == swarm[d]
        decision == Decide([routeHighRisk |-> FALSE], run.assessment,
                           ActionOf(run.artifact), packet.risk)
    IN  /\ run.pc = "assessed"
        /\ swarm' = [swarm EXCEPT ![d] =
              CASE decision.outcome = "raised" -> Raised(@)
                [] decision.outcome = "approve" ->
                      [@ EXCEPT !.pc = "check", !.authorization = decision.authorization]
                [] OTHER -> Recorded(@, "rejected")]
        /\ UNCHANGED <<selected, packet, mutex, spends>>

---------------------------------------------------------------------------
(* _execute_once. *)

Goto(d, pc) == swarm' = [swarm EXCEPT ![d].pc = pc]

EndEntry(d) == swarm' = [swarm EXCEPT ![d] = Recorded(@, "executed")]

\* The spend record is read: anything but an open authorization is a replay.
CheckSpend(d) ==
    /\ swarm[d].pc = "check"
    /\ IF RetryVerdict(SpendState(spends[KeyOf(swarm[d])]), None, FALSE) = "may_execute"
       THEN Goto(d, "claim") ELSE EndEntry(d)
    /\ UNCHANGED <<selected, packet, mutex, spends>>

\* Mutant: the answer of the claim is not looked at.
ClaimIgnored(d) ==
    /\ swarm[d].pc = "claim"
    /\ mutex' = mutex \cup {KeyOf(swarm[d])}
    /\ Goto(d, "spend")
    /\ UNCHANGED <<selected, packet, spends>>

\* claim_authorization inserts its row: one driver gets the key ...
Claim(d) ==
    /\ swarm[d].pc = "claim"
    /\ mutex' = mutex \cup {KeyOf(swarm[d])}
    /\ IF KeyOf(swarm[d]) \notin mutex THEN Goto(d, "spend") ELSE EndEntry(d)
    /\ UNCHANGED <<selected, packet, spends>>

Chain(d, entry) == spends' = [spends EXCEPT ![KeyOf(swarm[d])] = Append(@, entry)]

\* ... and then appends the spend to the chain.
ChainSpend(d) ==
    /\ swarm[d].pc = "spend"
    /\ Chain(d, SpendEntry(None))
    /\ Goto(d, "execute")
    /\ UNCHANGED <<selected, packet, mutex>>

\* The executor runs the action, refuses it, or raises.
Execute(d) ==
    /\ swarm[d].pc = "execute"
    /\ \/ swarm' = [swarm EXCEPT ![d] = [@ EXCEPT !.pc = "complete", !.ran = TRUE]]
       \/ swarm' = [swarm EXCEPT ![d] = [@ EXCEPT !.pc = "raised", !.ran = TRUE]]
       \/ Goto(d, "release")
    /\ UNCHANGED <<selected, packet, mutex, spends>>

Complete(d) ==
    /\ swarm[d].pc = "complete"
    /\ Chain(d, CompletedEntry(None))
    /\ EndEntry(d)
    /\ UNCHANGED <<selected, packet, mutex>>

\* release_authorization deletes the row and commits ...
Release(d) ==
    /\ swarm[d].pc = "release"
    /\ mutex' = mutex \ {KeyOf(swarm[d])}
    /\ Goto(d, "chain_release")
    /\ UNCHANGED <<selected, packet, spends>>

\* ... and then appends the release.
ChainRelease(d) ==
    /\ swarm[d].pc = "chain_release"
    /\ Chain(d, ReleaseEntry)
    /\ EndEntry(d)
    /\ UNCHANGED <<selected, packet, mutex>>

\* The process of a driver dies; what it wrote stays.
CrashDriver(d) ==
    /\ swarm[d].pc \in {"spend", "execute", "complete", "release", "chain_release"}
    /\ swarm' = [swarm EXCEPT ![d] = Raised(@)]
    /\ UNCHANGED <<selected, packet, mutex, spends>>

SwarmNext ==
    \E d \in Drivers :
        \/ Start(d) \/ JudgeHypothesis(d) \/ Unresolved(d) \/ Verify(d) \/ AssessEntry(d)
        \/ DecideEntry(d) \/ CheckSpend(d) \/ Claim(d) \/ ChainSpend(d) \/ Execute(d)
        \/ Complete(d) \/ Release(d) \/ ChainRelease(d) \/ CrashDriver(d)
=============================================================================
