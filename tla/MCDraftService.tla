---------------------------- MODULE MCDraftService ----------------------------
(***************************************************************************)
(* DraftService on small instances.                                        *)
(***************************************************************************)
EXTENDS DraftService, TLC

CONSTANTS c1, c2

MCClients == {c1, c2}
MCOneClient == {c1}
MCOneStamp == {1}
NoFaults == {}
AllFaults == FaultPoints

\* Handlers are interchangeable in the safety runs.
ClientSymmetry == Permutations(MCClients)

===============================================================================
