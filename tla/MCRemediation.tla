---------------------------- MODULE MCRemediation ----------------------------
(* Small instances of Remediation for TLC. *)
EXTENDS Remediation, TLC

CONSTANTS h1, h2, r1, r2

OneReplica == [h \in Handlers |-> r1]
Interchangeable ==
    Permutations(Handlers) \cup Permutations(Evals) \cup Permutations(Pulls)
=============================================================================
