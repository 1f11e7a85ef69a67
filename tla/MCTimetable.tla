------------------------------ MODULE MCTimetable ------------------------------
(***************************************************************************)
(* Timetable on small instances: three places, plans of at most three      *)
(* lessons that occupy each place at most once.                            *)
(***************************************************************************)
EXTENDS Timetable, TLC

CONSTANTS c1, c2, p1, p2, p3

MCPlaces == {p1, p2, p3}
At(p, k) == [place |-> p, course |-> k]
ShortPlans == {<<>>, <<At(p3, 1)>>, <<At(p1, 1), At(p2, 2)>>}
OnePlan == {<<At(p1, 1), At(p2, 2), At(p3, 3)>>}

MCOneClient == {c1}
MCClients == {c1, c2}

\* What the clients do.
EverythingTwice == [c \in MCClients |-> Actions]
OnlyGenerate == [c \in MCOneClient |-> {"generate"}]
GenerateThenMove == [c \in MCOneClient |-> {"generate", "move"}]
GenerateAndMove == [c \in MCClients |-> IF c = c1 THEN {"generate"} ELSE {"move"}]

\* Clients that do the same are interchangeable.
ClientSymmetry == Permutations(MCClients)

===============================================================================
