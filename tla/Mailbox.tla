------------------------------ MODULE Mailbox ------------------------------
(***************************************************************************)
(* What the relay server of server/src/socket.ts promises for each         *)
(* delivery, a message and one user it is addressed to: the server takes   *)
(* it, may store it, and hands it to a socket of the user at last, unless  *)
(* it expires first.  Only a crash loses a delivery, and only one that the *)
(* server has neither stored nor handed over yet.                          *)
(***************************************************************************)
CONSTANT Delivery

VARIABLE fate

\* The ways a delivery may go without a crash.
Edge == { <<"new", "taken">>, <<"new", "stored">>, <<"new", "emitted">>,
          <<"taken", "stored">>, <<"taken", "emitted">>,
          <<"stored", "emitted">>, <<"stored", "expired">> }

Init == fate = [d \in Delivery |-> "new"]

\* One turn of the server may move several deliveries of a message on.
Progress ==
    /\ DOMAIN fate' = Delivery
    /\ \A d \in Delivery : fate'[d] = fate[d] \/ <<fate[d], fate'[d]>> \in Edge

\* What the server had only in memory is gone; what it had stored may expire meanwhile.
Crash ==
    /\ DOMAIN fate' = Delivery
    /\ \A d \in Delivery :
          IF fate[d] = "taken" THEN fate'[d] = "lost"
          ELSE fate'[d] = fate[d] \/ <<fate[d], fate'[d]>> = <<"stored", "expired">>

Next == Progress \/ Crash

Spec == Init /\ [][Next]_fate
=============================================================================
