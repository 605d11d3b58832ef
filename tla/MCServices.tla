----------------------------- MODULE MCServices -----------------------------
(***************************************************************************)
(* Services for TLC, two actors at a time.  Operators, clients and         *)
(* connections are the same two values, as are the values of a field, the  *)
(* labels and the contents of files: no behaviour has two of these parts   *)
(* at work, and one symmetry serves them all.                              *)
(***************************************************************************)
EXTENDS Services, TLC

Acteurs ==
  {{"ecran", "ecritures"}, {"ecran", "demandes"},
   {"bateaux", "fusions"}, {"bateaux", "liaisons"}, {"fusions", "liaisons"},
   {"balayage", "import"}, {"balayage", "depot"}, {"import", "depot"},
   {"import", "reprise"}, {"depot", "reprise"}, {"import", "sauvegarde"},
   {"balayage", "lecteur"}, {"import", "lecteur"}, {"depot", "lecteur"}}

BalayageSeul == {{"balayage"}}

Symetrie == Permutations(Approbateurs) \cup Permutations(Valeurs)
=============================================================================
