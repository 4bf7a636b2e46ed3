--------------------------- MODULE MCMeshNetwork ---------------------------
(* Small instances of MeshNetwork for TLC: topologies, messages and bounds. *)
EXTENDS MeshNetwork, TLC

CONSTANTS a, b, c, d, m1, m2

\* a and c are out of range of each other; b has relayed their announcements, so each of
\* them knows the other over its link to b.
LineLinks   == {{a, b}, {b, c}}
LineBinding == {<<a, b, c>>, <<b, a, a>>, <<b, c, c>>, <<c, b, a>>}

\* a - b - c - d: a knows d over b; the last announcement c heard on its link to b was b's own.
ChainLinks   == {{a, b}, {b, c}, {c, d}}
ChainBinding == {<<a, b, d>>, <<b, a, a>>, <<b, c, d>>, <<c, b, b>>, <<c, d, d>>, <<d, c, a>>}

NoBinding == {}

TriangleLinks == {{a, b}, {b, c}, {a, c}}

OneFromA == (m1 :> a)
OneToC   == (m1 :> c)
OneToD   == (m1 :> d)
TwoFrom  == (m1 :> a) @@ (m2 :> c)
TwoTo    == (m1 :> c) @@ (m2 :> a)

Events(linkUp, linkDown, restart, stop, loss) ==
    [e \in EnvEvent |-> CASE e = "linkUp" -> linkUp [] e = "linkDown" -> linkDown
                          [] e = "restart" -> restart [] e = "stop" -> stop
                          [] e = "loss" -> loss]
Quiet   == Events(0, 0, 0, 0, 0)
Breaks  == Events(0, 1, 0, 1, 1)
Rough   == Events(2, 1, 1, 0, 0)
Meeting == Events(3, 0, 0, 0, 0)
=============================================================================
