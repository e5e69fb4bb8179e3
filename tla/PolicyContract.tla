--------------------------- MODULE PolicyContract ---------------------------
(***************************************************************************)
(* What the choice of a policy bundle promises an operator, without rows,  *)
(* transactions, sessions or caches that lag behind: selections happen one *)
(* after the other and are numbered without a gap, exactly one bundle      *)
(* governs once one was selected, the bundles it displaced stand by, and a *)
(* replica runs the shipped bundle or one that was selected before.        *)
(* PolicyLifecycle implements it where activations exclude each other.     *)
(***************************************************************************)
EXTENDS Naturals

CONSTANTS
    Bundles,
    Replicas,
    Shipped     \* the bundle a replica runs unless told otherwise

VARIABLES
    standing,   \* standing[b]: never selected, governing or standing by
    last,       \* last[b]: the number of the selection that chose b last
    latest,     \* the number of the latest selection
    runs        \* runs[r]: the bundle replica r decides by

vars == <<standing, last, latest, runs>>

Standings == {"never", "governs", "stands by"}

TypeOK == /\ standing \in [Bundles -> Standings]
          /\ last \in [Bundles -> Nat]
          /\ latest \in Nat
          /\ runs \in [Replicas -> Bundles]

Init == /\ standing = [b \in Bundles |-> "never"]
        /\ last = [b \in Bundles |-> 0]
        /\ latest = 0
        /\ runs = [r \in Replicas |-> Shipped]

(* An activation, a rollback or the first boot: whatever governed stands   *)
(* by from now on.                                                         *)
Select(b) ==
    /\ latest' = latest + 1
    /\ last' = [last EXCEPT ![b] = latest']
    /\ standing' = [c \in Bundles |-> IF c = b THEN "governs"
                                      ELSE IF standing[c] = "governs" THEN "stands by"
                                      ELSE standing[c]]
    /\ UNCHANGED runs

(* A replica follows a selection, late or not, or falls back to what it    *)
(* was shipped with.                                                       *)
Run(r, b) ==
    /\ b = Shipped \/ standing[b] # "never"
    /\ runs' = [runs EXCEPT ![r] = b]
    /\ UNCHANGED <<standing, last, latest>>

Next == \/ \E b \in Bundles : Select(b)
        \/ \E r \in Replicas, b \in Bundles : Run(r, b)

Spec == Init /\ [][Next]_vars
=============================================================================
