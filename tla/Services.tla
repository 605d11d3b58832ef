------------------------------ MODULE Services ------------------------------
(***************************************************************************)
(* What surrounds the queue: records and requests, boat models and links,  *)
(* and the files with their catalogue, objects and backups.  The state of  *)
(* each part is its own; a behaviour has one set of actors, a member of    *)
(* Deploiements, so that a run covers them all without the product of      *)
(* their states.                                                           *)
(***************************************************************************)
EXTENDS Approbations, Referentiel, Stockage

varsServices == <<varsDossiers, varsReferentiel, varsStockage>>

ActeursDuStockage == {"balayage", "import", "depot", "reprise", "sauvegarde", "lecteur"}

Actifs(acteurs) == presents \cap acteurs # {}

(* What nobody works on, or extracts, starts in one state. *)
FichesVides ==
  /\ fiche = [f \in Fiches |->
       [statut |-> "a_valider", revision |-> 1, trace |-> Aucun, corrige |-> FALSE,
        canonique |-> Aucun, assume |-> FALSE]]
  /\ verrou = [f \in Fiches |-> Aucun]
  /\ ecran = [p \in Postes |-> Aucun] /\ requete = [p \in Postes |-> Aucun]
BateauxVides ==
  /\ bateau = [b \in Bateaux |-> [nom |-> Nul, modele |-> Nul]]
  /\ \A x \in Extractions : extraction[x].bateau = Nul
ExtractionsVides ==
  extraction = [x \in Extractions |->
    [brut |-> Nul, bateau |-> Nul, statut |-> "non_resolu", modele |-> Nul]]
ReferentielVide ==
  /\ modele = [l \in Libelles |-> Nul] /\ alias = [l \in Libelles |-> Nul]
  /\ historique = {} /\ transaction = [t \in Connexions |-> Nul]
  /\ BateauxVides

Init ==
  /\ InitStockage
  /\ \A f \in Fichiers : Present(f) <=> Actifs(ActeursDuStockage)
  /\ InitDemandes
  /\ IF "ecritures" \in presents THEN InitFiches ELSE FichesVides
  /\ "liaisons" \in presents \/ ExtractionsVides
  /\ IF Actifs({"bateaux", "fusions", "liaisons"}) THEN InitReferentiel ELSE ReferentielVide
  /\ IF "bateaux" \in presents THEN \A b \in Bateaux : bateau[b].nom # Nul ELSE BateauxVides

NextDossiers ==
  \/ "ecran" \in presents /\ NextFiches /\ UNCHANGED varsDemandes
  \/ "ecritures" \in presents /\ NextEcritures /\ UNCHANGED varsDemandes
  \/ "demandes" \in presents /\ NextDemandes
  \/ Actifs({"ecran", "ecritures"}) /\ \E p \in Postes : abandonner_requete(p)

NextReferentiel ==
  \/ "bateaux" \in presents /\ NextBateaux
  \/ "fusions" \in presents /\ NextFusions
  \/ "liaisons" \in presents /\ NextLiaisons
  \/ Actifs({"bateaux", "fusions", "liaisons"}) /\ \E t \in Connexions : annuler_transaction(t)

Next ==
  \/ NextDossiers /\ UNCHANGED <<varsReferentiel, varsStockage>>
  \/ NextReferentiel /\ UNCHANGED <<varsDossiers, varsStockage>>
  \/ Actifs(ActeursDuStockage) /\ NextStockage /\ UNCHANGED <<varsDossiers, varsReferentiel>>

Spec == Init /\ [][Next]_varsServices
=============================================================================
