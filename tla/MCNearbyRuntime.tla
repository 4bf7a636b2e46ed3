-------------------------- MODULE MCNearbyRuntime --------------------------
(* Small instances of NearbyRuntime for TLC: which events happen how often. *)
EXTENDS NearbyRuntime

CONSTANTS e1, none

Times(chosen) == [k \in Env |-> IF k \in DOMAIN chosen THEN chosen[k] ELSE 0]

\* The process dies; a link comes up and carries payloads before the application is back.
Dying == Times([open |-> 2, start |-> 1, kill |-> 1, appear |-> 1, payload |-> 2])

\* The application goes and comes back while a link comes up.
Swiped == Times([open |-> 2, swipe |-> 1, start |-> 1, appear |-> 1])

\* Starts, stops and a swipe cross, with a radio that fails.
Hasty == Times([open |-> 2, swipe |-> 1, start |-> 2, stop |-> 1, radio |-> 1])

\* The process dies around a start or a stop; two stops overlap.
Killed == Times([open |-> 2, start |-> 2, stop |-> 2, kill |-> 1])

\* A link comes up and goes while the user stops.
Linked == Times([open |-> 1, start |-> 1, stop |-> 1, appear |-> 1, drop |-> 1])

\* A link or a request is refused while the user stops.
Refused == Times([open |-> 1, start |-> 1, stop |-> 1, appear |-> 1, fail |-> 1])

\* An endpoint is found, connected and lost in any order.
Found == Times([open |-> 1, start |-> 1, appear |-> 2, drop |-> 1])

\* The device restarts.
Reboot == Times([open |-> 2, start |-> 1, stop |-> 1, boot |-> 1, appear |-> 1])

Scenarios == {Dying, Swiped, Hasty, Killed, Linked, Refused, Found, Reboot}
=============================================================================
