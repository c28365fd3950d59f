-------------------------- MODULE MCMigrationRunner --------------------------
(* Instances of MigrationRunner for TLC.                                    *)
EXTENDS MigrationRunner, TLC

CONSTANTS r1, r2, h1, h2, p1, p2

OneHost  == [r \in Runners |-> h1]
TwoHosts == [r \in Runners |-> IF r = r1 THEN h1 ELSE h2]

\* Runners of one host are interchangeable, and so are approvals with the same
\* kind of artifact.
HostSymmetry == Permutations(Runners) \cup Permutations(Approvals)

\* Two runners on two hosts are interchangeable only together with their hosts.
Swap == {r1 :> r2 @@ r2 :> r1 @@ h1 :> h2 @@ h2 :> h1}
=============================================================================
