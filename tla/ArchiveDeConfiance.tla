------------------------- MODULE ArchiveDeConfiance -------------------------
(***************************************************************************)
(* What the archive promises of a record to those who rely on it: every    *)
(* change of its status, of its values or of the lock of its corrections   *)
(* moves its revision by one; a validated record keeps its values until    *)
(* someone reopens it; a value corrected by a human is only replaced by a  *)
(* human, unless the corrections were erased explicitly.                   *)
(***************************************************************************)
EXTENDS Naturals

CONSTANTS Fiches, Valeurs

VARIABLES statut, revision, valeur, humain

vars == <<statut, revision, valeur, humain>>

Init ==
  /\ statut = [f \in Fiches |-> "a_valider"]
  /\ revision = [f \in Fiches |-> 1]
  /\ valeur \in [Fiches -> Valeurs]
  /\ humain \in [Fiches -> BOOLEAN]

Reviser(f, s, v, h) ==
  /\ statut' = [statut EXCEPT ![f] = s]
  /\ valeur' = [valeur EXCEPT ![f] = v]
  /\ humain' = [humain EXCEPT ![f] = h]
  /\ revision' = [revision EXCEPT ![f] = @ + 1]

(* Validation and rejection decide on what is to be validated. *)
Trancher(f) ==
  /\ statut[f] = "a_valider"
  /\ \E s \in {"valide", "rejete"} : Reviser(f, s, valeur[f], humain[f])

Supprimer(f) ==
  /\ statut[f] # "supprimee"
  /\ Reviser(f, "supprimee", valeur[f], humain[f])

Rouvrir(f) ==
  \E h \in BOOLEAN :
    /\ h => humain[f]
    /\ statut[f] # "a_valider" \/ h # humain[f]
    /\ Reviser(f, "a_valider", valeur[f], h)

Corriger(f) ==
  /\ statut[f] \in {"a_valider", "rejete"}
  /\ \E v \in Valeurs : Reviser(f, statut[f], v, TRUE)

Remplacer(f) ==
  /\ statut[f] # "valide"
  /\ ~humain[f]
  /\ \E v \in Valeurs : Reviser(f, "a_valider", v, FALSE)

Next == \E f \in Fiches :
  Trancher(f) \/ Supprimer(f) \/ Rouvrir(f) \/ Corriger(f) \/ Remplacer(f)

Spec == Init /\ [][Next]_vars
=============================================================================
