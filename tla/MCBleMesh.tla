----------------------------- MODULE MCBleMesh -----------------------------
(* Two devices of each kind for TLC, and what happens to them. *)
EXTENDS BleMesh

CONSTANTS x, y

IPhones  == [d \in Device |-> "ios"]
Androids == [d \in Device |-> "android"]
Mixed    == [d \in Device |-> IF d = x THEN "ios" ELSE "android"]

Times(lost, cut, end, sent) == [f \in Faults |-> CASE f = "lost" -> lost [] f = "cut" -> cut
                                                   [] f = "ends" -> end [] f = "sent" -> sent]

\* Every pair meets and talks, and may lose a chunk; connections break and processes end between
\* devices of a kind, between Android devices when a chunk has been lost, too.
TheScenarios ==
         [platform : {IPhones, Androids, Mixed}, most : {Times(1, 0, 0, 1)}]
    \cup [platform : {IPhones, Androids}, most : {Times(0, 1, 0, 1), Times(0, 0, 1, 0)}]
    \cup [platform : {Androids}, most : {Times(1, 0, 1, 0)}]

\* Two iPhones meet, and nothing goes wrong.
TwoIPhones == [platform : {IPhones}, most : {Times(0, 0, 0, 1)}]
=============================================================================
