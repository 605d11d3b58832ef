-------------------------- MODULE MCTeleversement --------------------------
(***************************************************************************)
(* Upload sessions for TLC: two files announced.                           *)
(***************************************************************************)
EXTENDS Televersement, TLC

CONSTANTS f1, f2, f3, a, b

UnParFichier == [c \in Contenus \cup {Abime} |-> 1]
UneSeule == [f \in Fichiers |-> {a}]
DeuxDeF1 == [f \in Fichiers |-> IF f = f1 THEN {a, b} ELSE {a}]
UneMemeCasse == {{f1, f3}}
UnImbrique == {{f2, f3}}
Aucune == {}
Transfert == {"creer", "recevoir", "etat", "terminer", "annuler", "lot"}
Tout == Transfert \cup {"promotion"}

SymetrieProcessus == Permutations(Processus)
Symetries == Permutations(Processus) \cup Permutations(Fichiers)
=============================================================================
