-------------------------- MODULE ApprovalContract --------------------------
(***************************************************************************)
(* What the durable approval of the control plane promises a requester,    *)
(* without tables, sessions or request handlers: an identifier is opened   *)
(* at most once, a human answers it at most once, and a positive answer is *)
(* worth exactly one allowed request.  ApprovalLifecycle implements it.    *)
(***************************************************************************)
CONSTANTS Ids               \* identifiers handed out for decisions

VARIABLES
    state,      \* state[i] : where the approval of decision i stands
    permits,    \* approvals that have been redeemed but not yet recorded
    allowed     \* approvals for which an allowed request is on record

vars == <<state, permits, allowed>>

States == {"none", "pending", "approved", "rejected", "expired", "consumed",
           "gone"}

TypeOK == /\ state \in [Ids -> States]
          /\ permits \in SUBSET Ids
          /\ allowed \in SUBSET Ids

Init == /\ state = [i \in Ids |-> "none"]
        /\ permits = {}
        /\ allowed = {}

Move(i, from, to) == /\ state[i] = from
                     /\ state' = [state EXCEPT ![i] = to]

(* A decision that needs a human opens its approval. *)
Open(i) == Move(i, "none", "pending") /\ UNCHANGED <<permits, allowed>>

(* A decision that needs no human uses its identifier up. *)
Bypass(i) == Move(i, "none", "gone") /\ UNCHANGED <<permits, allowed>>

Answer(i) == /\ Move(i, "pending", "approved") \/ Move(i, "pending", "rejected")
             /\ UNCHANGED <<permits, allowed>>

(* The approval becomes a permit held by exactly one request in flight. *)
Redeem(i) == /\ Move(i, "approved", "consumed")
             /\ permits' = permits \cup {i}
             /\ UNCHANGED allowed

(* The holder of the permit records its allowed request as decision j. *)
Record(i, j) == /\ i \in permits
                /\ Move(j, "none", "gone")
                /\ permits' = permits \ {i}
                /\ allowed' = allowed \cup {i}

(* The holder of the permit dies: the permit is lost, never handed on. *)
Lose(i) == /\ i \in permits
           /\ permits' = permits \ {i}
           /\ UNCHANGED <<state, allowed>>

(* Housekeeping: pending approvals time out, old ones are forgotten and so *)
(* is the record of what they allowed; neither revives anything.           *)
Clean(timedOut, old, forgotten) ==
    /\ \A i \in timedOut : state[i] = "pending"
    /\ \A i \in old : state[i] # "none"
    /\ forgotten \subseteq allowed
    /\ state' = [i \in Ids |-> IF i \in old THEN "gone"
                               ELSE IF i \in timedOut THEN "expired"
                               ELSE state[i]]
    /\ allowed' = allowed \ forgotten
    /\ UNCHANGED permits

Next == \/ \E i \in Ids : Open(i) \/ Bypass(i) \/ Answer(i) \/ Redeem(i) \/ Lose(i)
        \/ \E i, j \in Ids : Record(i, j)
        \/ \E timedOut, old, forgotten \in SUBSET Ids :
              Clean(timedOut, old, forgotten)

Spec == Init /\ [][Next]_vars
=============================================================================
