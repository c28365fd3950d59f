------------------------------- MODULE Agents -------------------------------
(***************************************************************************)
(* The runtimes that put the verifier bank, the policy and the gate to use, *)
(* as the composition root builds them: swarm drivers and a workflow under  *)
(* one policy supplier, and the learning cycle with its trust store.        *)
(***************************************************************************)
EXTENDS Swarm, Workflow, SkillLoop

CONSTANTS
    Deployments,   \* the sets of processes that run together: drivers, "workflow", "loop"
    MaxRotations   \* bound: changes of the selected policy

ASSUME RotationsAssumption == MaxRotations \in Nat

VARIABLE rotations

vars == <<selected, rotations, swarmVars, workflow, loopVars>>

Init ==
    /\ rotations = 0
    /\ \E deployed \in Deployments :
          \* the cycle asks for a policy, and then decides nothing by it
          /\ selected \in IF "loop" \in deployed THEN {CHOOSE p \in Policies : TRUE} ELSE Policies
          /\ SwarmInit(deployed)
          /\ WorkflowInit("workflow" \in deployed)
          /\ LoopInit("loop" \in deployed)

\* While something is under way; before and after it makes no difference.
Rotation ==
    /\ rotations < MaxRotations /\ loop.pc = "off"
    /\ Rotate
    /\ rotations' = rotations + 1
    /\ UNCHANGED <<swarmVars, workflow, loopVars>>

Next ==
    \/ SwarmNext /\ UNCHANGED <<rotations, workflow, loopVars>>
    \/ WorkflowNext /\ UNCHANGED <<rotations, swarmVars, loopVars>>
    \/ LoopNext /\ UNCHANGED <<selected, rotations, swarmVars, workflow>>
    \/ Rotation

Spec == Init /\ [][Next]_vars

---------------------------------------------------------------------------
(* Properties. *)

Measurements ==
    [skills : SUBSET (1..Train), passed : 0..(HeldOut + Train), decided : 0..(HeldOut + Train),
     hard : 0..(HeldOut + Train), sound : BOOLEAN]

\* Every runtime's state is well formed; statistics never change for a verifier
\* that is its own reference.
TypeOK ==
    /\ selected \in Policies /\ rotations \in 0..MaxRotations /\ packet \in Packets \cup {None}
    /\ \A d \in Drivers :
          /\ swarm[d].pc \in {"off", "ready", "next", "verified", "assessed", "check", "claim",
                              "spend", "execute", "complete", "release", "chain_release", "raised"}
          /\ swarm[d].policy \in Policies \cup {None}
          /\ swarm[d].artifact \in Artifacts \cup {None}
          /\ swarm[d].row \in {None, "judged", "rejected", "executed"}
          /\ Len(swarm[d].plan) <= 2 /\ Len(swarm[d].results) <= 2
    /\ mutex \subseteq Keys /\ DOMAIN spends = Keys
    /\ workflow.pc \in {"off", "ready", "refused", "next", "assess", "submit", "raised"}
    /\ \A s \in Steps :
          /\ workflow.steps[s].state \in {"todo", "graded", "unavailable", "halted"}
          /\ workflow.steps[s].outcome \in {"none", "approve", "route", "block", "unavailable"}
    /\ loop.now \in Measurements /\ loop.base \in Measurements
    /\ loop.registry \subseteq 1..Train
    /\ trust["subprocess-tests"] = TrustStats("hard")

\* The outcome that answers a requirement for certain.
AnsweredBy(results, requirement, snapshot) ==
    \E r \in ToSet(results) :
        /\ r.check = requirement.check /\ r.digest = snapshot
        /\ r.implementation \in requirement.permitted /\ r.outcome.by = r.implementation
        /\ r.outcome.says = "PASS" /\ r.outcome.tier \in AuthoritativeTiers

\* An action is executed only if every requirement that the policy selected when
\* it was decided makes of it was answered by an authoritative PASS about this
\* very attempt, and no authoritative verdict spoke against it, whichever policy
\* the runtime was built with and whatever was selected in between.
ActedOnCovered ==
    /\ \A d \in Drivers : swarm[d].ran =>
          LET run  == swarm[d]
              snap == Resolve(run.authorization.policy, ActionOf(run.artifact))
          IN  /\ snap # None
              /\ \A q \in ToSet(snap.requires) : AnsweredBy(run.results, q, snap)
              /\ \A r \in ToSet(run.results) : r.outcome.says # "FAIL"
    /\ \A s \in Steps : workflow.steps[s].outcome = "approve" =>
          LET approved == workflow.steps[s].approved
          IN  /\ approved.grade.says = "PASS" /\ approved.grade.tier \in AuthoritativeTiers
              /\ \A q \in ToSet(Profiles[approved.policy][approved.class]) :
                    q.check = "workflow.grade" /\ approved.grade.by \in q.permitted

\* The authorizations of the swarm, as their claims, outcomes and runs show them.
Spending == INSTANCE SingleUse WITH
    Authorizations <- Keys,
    record  <- [k \in Keys |->
                   CASE \E i \in DOMAIN spends[k] : spends[k][i].event = "outcome" -> "done"
                     [] k \in mutex /\ \A i \in DOMAIN spends[k] : spends[k][i].event # "outcome" ->
                           "claimed"
                     [] OTHER -> "open"],
    effects <- [k \in Keys |->
                   Cardinality({d \in Drivers : swarm[d].ran /\ KeyOf(swarm[d]) = k})]

\* Every authorization of the swarm is single use: drivers that run the same
\* packet, at once or one after the other, execute its action at most once, and
\* one that is refused and given back was not executed.
SwarmSingleUse == Spending!SingleUseSpec

\* An agent proposes, and so acts, only on messages that were graded: nothing
\* behind a step that could not be graded, however far, is asked for anything.
NothingOnUngraded ==
    \A s \in Steps : workflow.steps[s].state \in {"graded", "unavailable"} =>
        \A t \in workflow.depends[s] : workflow.steps[t].state = "graded"

\* The registry grows only by a promotion of the skill being scored, and then the
\* skill did better, on tasks it was not mined from and in this very cycle, than
\* the registry that it is added to; where the hard verifier gave a verdict on
\* every task, it passed more of them.  The registry may hold the skill already:
\* the forge does not ask, and the two measurements were then of the same skills.
PromotionIsEarned ==
    [][/\ loop'.registry # loop.registry => loop'.pc = "promoted"
       /\ loop'.pc = "promoted" /\ loop.pc # "promoted" =>
             /\ ~loop.overlap
             /\ loop'.registry = loop.registry \cup {Head(loop.mined)}
             /\ loop.base.skills = loop.registry /\ loop.now.skills = loop'.registry
             /\ loop.base.sound /\ loop.now.sound => loop.now.hard > loop.base.hard]_vars
=============================================================================
