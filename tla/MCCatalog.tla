------------------------------ MODULE MCCatalog ------------------------------
(* Instances of Catalog for TLC. *)
EXTENDS Catalog, TLC

CONSTANTS c1, c2

MCClients == {c1, c2}
MCValues == {1, 2, Empty, Nil}

\* Two full bodies, one that names only the unique column, and one that
\* names the other columns it may and empties the lists.
Full(e, v) == [k \in Columns(e) |-> v]
Partly(e) == [k \in Columns(e) |-> IF k \in Schema[e].list THEN Empty
                                   ELSE IF k \in Schema[e].unique THEN Blank(e, k) ELSE 2]
MCBodies ==
  [e \in DOMAIN Schema |->
     {Full(e, 1), Full(e, 2), Partly(e)}
       \cup {[[k \in Columns(e) |-> Blank(e, k)] EXCEPT ![col] = 2] : col \in Schema[e].unique}]

\* No record, or one.
MCInitial == [e \in DOMAIN Schema |-> {<<>>, <<[item |-> Full(e, 1), live |-> TRUE]>>}]

Everything == {"create", "update", "get", "delete", "list"}
MCDuties == (c1 :> Everything) @@ (c2 :> Everything)
Symmetric == Permutations(MCClients)
===============================================================================
