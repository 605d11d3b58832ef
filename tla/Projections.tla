---------------------------- MODULE Projections ----------------------------
(***************************************************************************)
(* The family of a record, sail or accessory, and its projection in that   *)
(* family (accessoires.py, extractions_voile.py, fiches/persistance.py):   *)
(* the deposit writes it again at each extraction, approvers correct it,   *)
(* link it and reclass the record.  A transaction that locks the record    *)
(* and counts corrections, and what it then removes and writes, are two    *)
(* steps; the rows of the projection are not locked in between.            *)
(***************************************************************************)
EXTENDS Naturals, Sequences, SequencesExt

CONSTANTS
  Classees,       \* records
  Mains,          \* connections that deposit or reclass
  Lus,            \* values of the field followed
  Vide,
  MaxCorrections  \* corrections kept for a projection

ASSUME HypVide == Vide \notin Mains

VARIABLES
  classement,   \* each record: family, who chose it, its trace, RG11, lock
  projections,  \* sail_extractions and accessory_extractions, with their corrections
  seances       \* what a transaction found before it writes

varsProjections == <<classement, projections, seances>>

Familles == {"voile", "accessoire"}

(* construire_extraction_*: what a reading of the document projects, linked *)
(* to no boat by a human.                                                   *)
construire_extraction(lu) == [valeur |-> lu, corrections |-> <<>>, humain |-> FALSE]

(* proposer_categorie: the name of the folder, else the template, which is  *)
(* that of sails by default.                                                *)
Propositions == {<<"accessoire", "dossier">>, <<"accessoire", "document">>, <<"voile", "document">>}

(* The field is a measure, which the record has too, or the label of the    *)
(* boat, which it has not.                                                  *)
InitProjections ==
  /\ classement \in [Classees -> [famille : Familles, source : {"dossier", "document"},
       champ : {"cote", "modele_bateau_brut"}, trace : Lus, corrige : {FALSE}, verrou : {Vide}]]
  /\ \A f \in Classees : <<classement[f].famille, classement[f].source>> \in Propositions
  /\ projections = [f \in Classees |-> [g \in Familles |->
       IF g = classement[f].famille THEN construire_extraction(classement[f].trace) ELSE Vide]]
  /\ seances = [t \in Mains |-> Vide]

Projection(f) == projections[f][classement[f].famille]
PorteDesCorrections(f) == Projection(f) # Vide /\ Projection(f).corrections # <<>>
Verrouiller(t, f, r) ==
  /\ seances[t] = Vide /\ classement[f].verrou = Vide
  /\ seances' = [seances EXCEPT ![t] = r]
  /\ classement' = [classement EXCEPT ![f].verrou = t]
  /\ UNCHANGED projections
Pendant(t, op) == seances[t] # Vide /\ seances[t].op = op

----------------------------------------------------------------------------
(* The deposit.                                                             *)

(* Slip: the category is looked at before the record is locked.             *)
LireDepotSansVerrou(t, f, lu, p) ==
  /\ seances[t] = Vide /\ ~classement[f].corrige
  /\ seances' = [seances EXCEPT ![t] =
       [op |-> "depot", fiche |-> f, lu |-> lu, famille |-> p[1], source |-> p[2],
        garder |-> classement[f].source = "humain"
                   \/ (p[1] # classement[f].famille /\ PorteDesCorrections(f))]]
  /\ UNCHANGED <<classement, projections>>

(* A record with a corrected field refuses the extraction (RG11); a family  *)
(* chosen by a human is kept, and so is one whose projection was corrected. *)
lire_depot(t, f, lu, p) ==
  /\ ~classement[f].corrige
  /\ Verrouiller(t, f,
       [op |-> "depot", fiche |-> f, lu |-> lu, famille |-> p[1], source |-> p[2],
        garder |-> classement[f].source = "humain"
                   \/ (p[1] # classement[f].famille /\ PorteDesCorrections(f))])

(* The row of the projection is found by its record and overwritten; its    *)
(* corrections and what a human linked stay.                                *)
enregistrer_extraction(p, lu) ==
  IF p = Vide THEN construire_extraction(lu) ELSE [p EXCEPT !.valeur = lu]

ecrire_fiche_dans(t) ==
  /\ Pendant(t, "depot")
  /\ LET s == seances[t]
         f == s.fiche
         famille == IF s.garder THEN classement[f].famille ELSE s.famille IN
     /\ projections' = [projections EXCEPT ![f] = [g \in Familles |->
          CASE g = famille -> enregistrer_extraction(@[g], s.lu)
            [] g # famille /\ s.garder -> @[g]
            [] OTHER -> Vide]]
     /\ classement' = [classement EXCEPT ![f].trace = s.lu, ![f].corrige = FALSE, ![f].verrou = Vide,
          ![f].famille = famille, ![f].source = IF s.garder THEN @ ELSE s.source]
  /\ seances' = [seances EXCEPT ![t] = Vide]

----------------------------------------------------------------------------
(* The approvers.                                                           *)

(* The family is already the one asked for: it becomes a human decision.    *)
confirmer_categorie(f) ==
  /\ classement[f].verrou = Vide
  /\ classement' = [classement EXCEPT ![f].source = "humain"]
  /\ UNCHANGED <<projections, seances>>

lire_categorie(t, f) ==
  /\ ~PorteDesCorrections(f)
  /\ Verrouiller(t, f, [op |-> "reclasser", fiche |-> f])

(* The projection goes with its corrections, those made since included; the *)
(* new one is built from the trace of the record.                           *)
changer_categorie_fiche(t) ==
  /\ Pendant(t, "reclasser")
  /\ LET f == seances[t].fiche
         ancienne == classement[f].famille IN
     /\ projections' = [projections EXCEPT ![f] = [g \in Familles |->
          IF g = ancienne THEN Vide ELSE enregistrer_extraction(@[g], classement[f].trace)]]
     /\ classement' = [classement EXCEPT ![f].source = "humain", ![f].verrou = Vide,
          ![f].famille = CHOOSE g \in Familles : g # ancienne]
  /\ seances' = [seances EXCEPT ![t] = Vide]

(* A corrected label loses its link, whoever made it. *)
Corriger(f, v, propagation) ==
  /\ Projection(f) # Vide /\ Len(Projection(f).corrections) < MaxCorrections
  /\ projections' = [projections EXCEPT ![f][classement[f].famille] =
       [valeur |-> v, corrections |-> Append(@.corrections, [apres |-> v, propagation |-> propagation]),
        humain |-> @.humain /\ classement[f].champ # "modele_bateau_brut"]]

corriger_accessoire(f, v) ==
  /\ classement[f].famille = "accessoire"
  /\ Corriger(f, v, "aucune")
  /\ UNCHANGED <<classement, seances>>

(* A measure of a sail is first corrected in the record, under its lock and *)
(* revision: a refusal there refuses it here.                               *)
corriger_extraction(f, v) ==
  /\ classement[f].famille = "voile" /\ Projection(f) # Vide /\ Projection(f).valeur # v
  /\ IF classement[f].champ = "cote"
       THEN /\ classement[f].verrou = Vide
            /\ Corriger(f, v, "fiche")
            /\ classement' = [classement EXCEPT ![f].trace = v, ![f].corrige = TRUE]
       ELSE /\ Corriger(f, v, "aucune")
            /\ UNCHANGED classement
  /\ UNCHANGED seances

lier(f) ==
  /\ Projection(f) # Vide /\ ~Projection(f).humain
  /\ projections' = [projections EXCEPT ![f][classement[f].famille].humain = TRUE]
  /\ UNCHANGED <<classement, seances>>

(* The record is opened again with its corrections cleared. *)
effacer_corrections(f) ==
  /\ classement[f].corrige /\ classement[f].verrou = Vide
  /\ classement' = [classement EXCEPT ![f].corrige = FALSE]
  /\ UNCHANGED <<projections, seances>>

annuler_seance(t) ==
  /\ seances[t] # Vide
  /\ classement' = [classement EXCEPT ![seances[t].fiche].verrou = Vide]
  /\ seances' = [seances EXCEPT ![t] = Vide]
  /\ UNCHANGED projections

NextProjections ==
  \/ \E t \in Mains :
       \/ \E f \in Classees : lire_categorie(t, f)
       \/ \E f \in Classees, lu \in Lus, p \in Propositions : lire_depot(t, f, lu, p)
       \/ ecrire_fiche_dans(t) \/ changer_categorie_fiche(t) \/ annuler_seance(t)
  \/ \E f \in Classees :
       \/ confirmer_categorie(f) \/ lier(f) \/ effacer_corrections(f)
       \/ \E v \in Lus : corriger_accessoire(f, v) \/ corriger_extraction(f, v)

----------------------------------------------------------------------------

(* The family a human decided is changed by a human alone: no deposit, that *)
(* read it before or found the folder in another family, takes it back      *)
(* ("une catégorie décidée par un humain n'est jamais écrasée au            *)
(* re-dépôt").                                                              *)
CategorieDecidee ==
  [][\A f \in Classees : classement[f].source = "humain" =>
       /\ classement'[f].source = "humain"
       /\ classement'[f].famille # classement[f].famille =>
            \E t \in Mains : Pendant(t, "reclasser") /\ seances'[t] = Vide]_varsProjections

=============================================================================
