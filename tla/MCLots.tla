------------------------------- MODULE MCLots -------------------------------
(***************************************************************************)
(* Lots for TLC: one lot of two folders, or two lots of one folder each    *)
(* that hold the same document.                                            *)
(***************************************************************************)
EXTENDS Lots, TLC

CONSTANTS l1, l2, k1, k2

UnLot == {l1}
DeuxLots == {l1, l2}
DeuxDossiers == 1 .. 2
MemeLot == (1 :> l1) @@ (2 :> l1)
LotsDistincts == (1 :> l1) @@ (2 :> l2)
ClesDistinctes == (1 :> k1) @@ (2 :> k2)
MemeCle == (1 :> k1) @@ (2 :> k1)

SymetrieWorkers == Permutations(Workers)
=============================================================================
