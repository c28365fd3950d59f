------------------------------- MODULE MCAgents -------------------------------
EXTENDS Agents, TLC

CONSTANTS d1, d2

\* The committed profiles, and one that grades branch deletions in a workflow
\* and has nothing to say about running code.
GradedProfile == [class \in {"branch.delete"} |->
               <<Requirement("workflow.grade", {"grader", "reviewer"})>>]

\* Three that do not load: a misspelt implementation, one whose site reports
\* something else, and a class without a requirement.
MCProfiles ==
    [p \in {"baseline", "defense-in-depth", "graded", "misspelt", "misreported", "empty"} |->
        CASE p = "baseline" -> Baseline
          [] p = "defense-in-depth" -> DefenseInDepth
          [] p = "graded" -> GradedProfile
          [] p = "misspelt" ->
                [class \in {"sandbox.execute"} |->
                    <<Requirement("executable.cases", {"subprocess_tests"})>>]
          [] p = "misreported" ->
                [class \in {"sandbox.execute"} |->
                    <<Requirement("executable.cases", {"retired"})>>]
          [] p = "empty" -> [class \in {"sandbox.execute"} |-> <<>>]]

\* The committed declarations, a deployment's two graders and a stale one.
MCSites ==
    [i \in DOMAIN CommittedSites \cup {"grader", "reviewer", "retired"} |->
        IF i = "retired" THEN "subprocess-tests" ELSE i]

MCPackets ==
    {[entry |-> TRUE, risk |-> "low", budget |-> 0], [entry |-> TRUE, risk |-> "high", budget |-> 1],
     [entry |-> FALSE, risk |-> "medium", budget |-> 0]}

\* A chain, a join, and a cycle.
MCGraphs ==
    {<<{}, {1}, {2}>>, <<{}, {}, {1, 2}>>, <<{3}, {1}, {2}>>}

MCGraders == {[by |-> "grader", tier |-> "hard"], [by |-> "reviewer", tier |-> "soft"]}

MCDeployments == {{d1, d2}, {"workflow"}, {"loop"}}

DriverSymmetry == Permutations({d1, d2})
=============================================================================
