----------------------------- MODULE MCTaches -----------------------------
(***************************************************************************)
(* Taches for TLC.  Threads, processes, operators, records found and sails *)
(* read are the same two values, as are the documents, the values of a     *)
(* field and the events: one symmetry serves all the tasks.                *)
(***************************************************************************)
EXTENDS Taches, TLC

CONSTANTS s1, s2

(* The names of a folder and of a file: "A" is "a" where the case is not looked at. *)
CheminsDeNoms == {<<"a">>, <<"A">>, <<"a", "b">>, <<"b">>}
SansCasse(n) == IF n = "A" THEN "a" ELSE n

(* The orders of rules of the embedded templates, one rule of each kind. *)
GabaritsEmbarques ==
  {<<"titre", "ligne_portant", "grille_cotes", "galons_grille">>,
   <<"code", "client", "designation", "galons", "galons">>,
   <<"ligne_ffab", "cotes_ffab">>, <<"entete_atelier", "galons_atelier">>,
   <<"titre_accessoire", "code_accessoire", "cote", "bords_atelier", "libres">>}

Toutes == {"moteur", "nuit", "projections", "corrections", "planification", "audit",
           "schema", "recherche", "comptes", "entrees", "migration", "analyses", "lecture"}

Symetrie == Permutations(Mains) \cup Permutations(Lus)
=============================================================================
