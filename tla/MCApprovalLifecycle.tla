------------------------- MODULE MCApprovalLifecycle -------------------------
(* Small instances of ApprovalLifecycle for TLC. *)
EXTENDS ApprovalLifecycle, TLC

CONSTANTS alice, bob, carol, east, west, d1, d2, cap1, cap2

(* One tenant, or isolation off. *)
OneTenant == [u \in People |-> east]

(* carol belongs to another tenant than the others. *)
TwoTenants == [u \in People |-> IF u = carol THEN west ELSE east]

(* Simulate mode: the client's cost fields survive enrichment. *)
NoEnrichment == [d \in Digests |-> {d}]

(* Production: server-derived cost fields change the digest d1 to d2. *)
CostEnrichment == [d \in Digests |-> {d2}]

Unpinned == {[k \in CapKinds |-> None]}
Pinned == {[k \in CapKinds |-> c] : c \in {cap1, cap2}}

Symmetric ==
    Permutations(Procs) \cup Permutations(Ids) \cup Permutations(People)
=============================================================================
