--------------------------- MODULE MCWebSessions ---------------------------
(* Small instances of WebSessions for TLC: who logs in how often, and what happens. *)
EXTENDS WebSessions

CONSTANTS b1, b2, alice, bob, carol, c1, c2, c3, o1, o2

Scenario(events, names) ==
    [budget |-> [k \in Env |-> IF k \in DOMAIN events THEN events[k] ELSE 0],
     logins |-> [n \in Browser \X User |-> Cardinality({i \in DOMAIN names : names[i] = n})]]

\* Two browsers ask for one name, one of them twice at once.
OneName == Scenario([overlap |-> 1], << <<b1, alice>>, <<b1, alice>>, <<b2, alice>> >>)

\* The server restarts between the logins of two browsers, or in one.
Restarted == Scenario([overlap |-> 1, restart |-> 1, fail |-> 1], << <<b1, alice>>, <<b2, alice>> >>)

\* A browser changes its user, disconnects, and loses its connection.
Switch == Scenario([overlap |-> 1, disconnect |-> 1, drop |-> 1], << <<b1, alice>>, <<b1, bob>> >>)

\* A login is tried again after a failure, a reload, a restart or a lost connection.
Again == {Scenario([overlap |-> 1, fail |-> 1, drop |-> 1, disconnect |-> 1], << <<b1, alice>>, <<b1, alice>> >>),
          Scenario([overlap |-> 1, fail |-> 1, reload |-> 1, restart |-> 1], << <<b1, alice>>, <<b1, alice>> >>)}

Both   == << <<b1, alice>>, <<b2, bob>> >>
Thrice == Append(Both, <<b1, alice>>)

\* Two users write to each other; a page is loaded again, a user leaves and comes back, a
\* request fails or a connection is lost, a group is used and the server restarts.
Talk  == Scenario([send |-> 3, fetch |-> 1], Both)
Torn  == {Scenario([send |-> 2, reload |-> 1], Thrice), Scenario([send |-> 2, disconnect |-> 1], Thrice),
          Scenario([send |-> 2, drop |-> 1], Both)}
Group == {Scenario([group |-> 1, send |-> 1], Both), Scenario([group |-> 1, restart |-> 1], Both),
          Scenario([group |-> 1, disconnect |-> 1], Thrice)}

TheScenarios == {OneName, Restarted, Switch, Talk} \cup Again \cup Torn \cup Group
=============================================================================
