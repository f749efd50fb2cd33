--------------------------- MODULE BundleDelivery ---------------------------
(***************************************************************************)
(* What an invocation of "collect" promises, with nothing of how it works: *)
(* the final path is a slot written at most once, and an invocation claims *)
(* at most once that it delivered or that it did not.  A claim is true of  *)
(* the slot; the one exception is a claim of nondelivery by an invocation  *)
(* disturbed (struck by Ctrl-C, or its report refused by stderr) after its *)
(* own bundle was in the slot.                                             *)
(***************************************************************************)
EXTENDS Naturals

CONSTANTS Collectors, Foreign, Nobody

VARIABLES slot,        \* who put the final path there
          claim,       \* what each invocation's exit status says
          disturbed    \* invocations disturbed after delivering

vars == <<slot, claim, disturbed>>

Init ==
  /\ slot = Nobody
  /\ claim = [c \in Collectors |-> "none"]
  /\ disturbed = {}

Fill(owner) ==
  /\ slot = Nobody
  /\ slot' = owner
  /\ UNCHANGED <<claim, disturbed>>

Disturb(c) ==
  /\ slot = c
  /\ claim[c] = "none"
  /\ disturbed' = disturbed \cup {c}
  /\ UNCHANGED <<slot, claim>>

ClaimDelivered(c) ==
  /\ slot = c
  /\ claim[c] = "none"
  /\ claim' = [claim EXCEPT ![c] = "delivered"]
  /\ UNCHANGED <<slot, disturbed>>

ClaimNotDelivered(c) ==
  /\ slot # c \/ c \in disturbed
  /\ claim[c] = "none"
  /\ claim' = [claim EXCEPT ![c] = "not delivered"]
  /\ UNCHANGED <<slot, disturbed>>

Next ==
  \/ \E owner \in Collectors \cup {Foreign} : Fill(owner)
  \/ \E c \in Collectors :
        Disturb(c) \/ ClaimDelivered(c) \/ ClaimNotDelivered(c)

Spec == Init /\ [][Next]_vars

=============================================================================
