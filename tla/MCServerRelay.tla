--------------------------- MODULE MCServerRelay ---------------------------
(* Small instances of ServerRelay for TLC. *)
EXTENDS ServerRelay, TLC

CONSTANTS a, b, c, a1, a2, b1, b2, c1, m1, m2, g1, team

\* a writes to b twice, or once and once to a group of all three.
OwnerOfTwo   == (a1 :> a) @@ (b1 :> b)
OwnerAgain   == (a1 :> a) @@ (a2 :> a) @@ (b1 :> b)
OwnerOf      == (a1 :> a) @@ (b1 :> b) @@ (b2 :> b)
OwnerOfAll   == OwnerOf @@ (c1 :> c)
FromA        == [m \in Message |-> a]
Direct       == (m1 :> <<b>>) @@ (m2 :> <<b>>)
DirectGroup  == [m \in Message |-> NoGroup]
Fan          == (m1 :> <<b>>) @@ (g1 :> <<b, c>>)
FanSwap      == (m1 :> <<b>>) @@ (g1 :> <<c, b>>)
FanGroup     == (m1 :> NoGroup) @@ (g1 :> team)
=============================================================================
