---------------------------- MODULE AsyncService ----------------------------
(***************************************************************************)
(* What the async worker promises its client (spec 4.5 and 5): requests   *)
(* are given consecutive ids when accepted, and every accepted request is  *)
(* answered exactly once, in acceptance order, and eventually.             *)
(***************************************************************************)
EXTENDS Naturals, Sequences

CONSTANT MaxRequests

VARIABLES
    accepted,   \* ids accepted and not yet answered, oldest first
    answered    \* ids answered, in the order the answers were given

Init == accepted = <<>> /\ answered = <<>>

(* Accept the next request: ids are handed out monotonically from 1.       *)
Accept ==
    /\ Len(answered) + Len(accepted) < MaxRequests
    /\ accepted' = Append(accepted, Len(answered) + Len(accepted) + 1)
    /\ UNCHANGED answered

(* Answer the oldest accepted request.                                     *)
Answer ==
    /\ accepted # <<>>
    /\ answered' = Append(answered, Head(accepted))
    /\ accepted' = Tail(accepted)

Next == Accept \/ Answer

Spec == Init /\ [][Next]_<<accepted, answered>> /\ WF_<<accepted, answered>>(Answer)

=============================================================================
