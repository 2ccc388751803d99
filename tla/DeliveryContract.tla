-------------------------- MODULE DeliveryContract --------------------------
(***************************************************************************)
(* What a webhook subscriber may rely on: the attempts of a delivery are   *)
(* numbered from 1, MaxAttempts at most, and a delivery that is over stays *)
(* over.                                                                   *)
(***************************************************************************)
EXTENDS Integers

CONSTANTS Deliveries, MaxAttempts

VARIABLES attempts,  \* attempts queued so far
          open       \* is an attempt still to be made or under way?

Init ==
    /\ attempts = [d \in Deliveries |-> 0]
    /\ open = [d \in Deliveries |-> FALSE]

Start(d) ==
    /\ attempts[d] = 0
    /\ attempts' = [attempts EXCEPT ![d] = 1]
    /\ open' = [open EXCEPT ![d] = TRUE]

Retry(d) ==
    /\ open[d] /\ attempts[d] < MaxAttempts
    /\ attempts' = [attempts EXCEPT ![d] = @ + 1]
    /\ UNCHANGED open

End(d) ==
    /\ open[d]
    /\ open' = [open EXCEPT ![d] = FALSE]
    /\ UNCHANGED attempts

Next == \E d \in Deliveries : Start(d) \/ Retry(d) \/ End(d)

Spec == Init /\ [][Next]_<<attempts, open>>
=============================================================================
