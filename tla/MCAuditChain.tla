----------------------------- MODULE MCAuditChain -----------------------------
(* Instances of the audit chain for TLC.                                    *)
EXTENDS AuditChain, TLC

CONSTANTS a1, a2, v1

ChainSymmetry == Permutations(Appenders)
=============================================================================
