------------------------------- MODULE Taches -------------------------------
(***************************************************************************)
(* The tasks beside the archive: the OCR of a file and of a night, the     *)
(* family and the projections of a record, the corrections of an import,   *)
(* the planned backup, the audit log, the migrations, the search, the      *)
(* accounts, the doors of imports, the comparisons and the reading of a    *)
(* folder.  They write in tables and folders of their own, so a behaviour  *)
(* follows one of them, the member of Suivies it starts with, and the      *)
(* others keep still.                                                      *)
(***************************************************************************)
EXTENDS MoteurOCR, NuitOCR, Projections, Corrections, Planification, Audit, Schema, Recherche,
  Comptes, Entrees, MigrationSecurisee, Analyses, Lecture

CONSTANT Suivies

VARIABLE tache

varsTaches ==
  <<tache, varsMoteur, varsNuit, varsProjections, varsCorrections, varsPlanification, varsAudit,
    varsSchema, varsRecherche, varsComptes, varsEntrees, varsMigration, varsAnalyses, varsLecture>>

(* A part that nobody follows starts in one state, without values. *)

ProjectionsVides ==
  /\ classement = [f \in Classees |-> [famille |-> "voile", source |-> "document", champ |-> "cote",
                     trace |-> Vide, corrige |-> FALSE, verrou |-> Vide]]
  /\ projections = [f \in Classees |-> [g \in Familles |-> Vide]]
  /\ seances = [t \in Mains |-> Vide]
DossierVide ==
  /\ dossier = [donnees |-> Sans, statut |-> "completed", generation |-> FALSE,
       publication |-> FALSE, attendu |-> Sans, preuve |-> Sans, ancien |-> TRUE, configure |-> FALSE]
  /\ rapport = Sans /\ envois = {}
  /\ mutations = [m \in Operateurs |-> Sans] /\ verrouImport = Sans /\ verrousPerdus = 0
BaseVide ==
  /\ base = [postgres |-> TRUE, captures |-> FALSE] /\ effets = {} /\ registre = {}
  /\ demarrage = [p \in Processus |-> Arrete]
FondsVide ==
  /\ InitRecherche
  /\ fonds = [f \in FichesTrouvables |->
       [libelle |-> SansValeur, cote |-> SansValeur, texte |-> "aucun", statut |-> "a_valider"]]

ProductionVide ==
  /\ production = [version |-> 0, lignes |-> 0, texte |-> NonLu]
  /\ photo = PasDePhoto /\ controle = PasDeControle /\ retour = PasDeRetour

Init ==
  /\ tache \in Suivies
  /\ InitMoteur /\ InitNuit /\ InitAudit /\ InitComptes
  /\ IF tache = "projections" THEN InitProjections ELSE ProjectionsVides
  /\ IF tache = "corrections" THEN InitCorrections ELSE DossierVide
  /\ InitPlanification /\ (tache = "planification" \/ ~passage.horsSite)
  /\ IF tache = "schema" THEN InitSchema ELSE BaseVide
  /\ IF tache = "recherche" THEN InitRecherche ELSE FondsVide
  /\ InitEntrees /\ (tache = "entrees" \/ (porte = "import" /\ ~requetes.redis))
  /\ InitLecture
  /\ InitAnalyses /\ (tache = "analyses" \/ volet = "voiles")
  /\ IF tache = "migration" THEN InitMigration ELSE ProductionVide

Next ==
  \/ /\ tache = "moteur" /\ NextMoteur
     /\ UNCHANGED <<tache, varsNuit, varsProjections, varsCorrections, varsPlanification, varsAudit,
                   varsSchema, varsRecherche, varsComptes, varsEntrees, varsMigration, varsAnalyses,
                   varsLecture>>
  \/ /\ tache = "nuit" /\ NextNuit
     /\ UNCHANGED <<tache, varsMoteur, varsProjections, varsCorrections, varsPlanification,
                   varsAudit, varsSchema, varsRecherche, varsComptes, varsEntrees, varsMigration,
                   varsAnalyses, varsLecture>>
  \/ /\ tache = "projections" /\ NextProjections
     /\ UNCHANGED <<tache, varsMoteur, varsNuit, varsCorrections, varsPlanification, varsAudit,
                   varsSchema, varsRecherche, varsComptes, varsEntrees, varsMigration, varsAnalyses,
                   varsLecture>>
  \/ /\ tache = "corrections" /\ NextCorrections
     /\ UNCHANGED <<tache, varsMoteur, varsNuit, varsProjections, varsPlanification, varsAudit,
                   varsSchema, varsRecherche, varsComptes, varsEntrees, varsMigration, varsAnalyses,
                   varsLecture>>
  \/ /\ tache = "planification" /\ NextPlanification
     /\ UNCHANGED <<tache, varsMoteur, varsNuit, varsProjections, varsCorrections, varsAudit,
                   varsSchema, varsRecherche, varsComptes, varsEntrees, varsMigration, varsAnalyses,
                   varsLecture>>
  \/ /\ tache = "audit" /\ NextAudit
     /\ UNCHANGED <<tache, varsMoteur, varsNuit, varsProjections, varsCorrections, varsPlanification,
                   varsSchema, varsRecherche, varsComptes, varsEntrees, varsMigration, varsAnalyses,
                   varsLecture>>
  \/ /\ tache = "schema" /\ NextSchema
     /\ UNCHANGED <<tache, varsMoteur, varsNuit, varsProjections, varsCorrections, varsPlanification,
                   varsAudit, varsRecherche, varsComptes, varsEntrees, varsMigration, varsAnalyses,
                   varsLecture>>
  \/ /\ tache = "recherche" /\ NextRecherche
     /\ UNCHANGED <<tache, varsMoteur, varsNuit, varsProjections, varsCorrections, varsPlanification,
                   varsAudit, varsSchema, varsComptes, varsEntrees, varsMigration, varsAnalyses,
                   varsLecture>>
  \/ /\ tache = "comptes" /\ NextComptes
     /\ UNCHANGED <<tache, varsMoteur, varsNuit, varsProjections, varsCorrections, varsPlanification,
                   varsAudit, varsSchema, varsRecherche, varsEntrees, varsMigration, varsAnalyses,
                   varsLecture>>
  \/ /\ tache = "entrees" /\ NextEntrees
     /\ UNCHANGED <<tache, varsMoteur, varsNuit, varsProjections, varsCorrections, varsPlanification,
                   varsAudit, varsSchema, varsRecherche, varsComptes, varsMigration, varsAnalyses,
                   varsLecture>>
  \/ /\ tache = "migration" /\ NextMigration
     /\ UNCHANGED <<tache, varsMoteur, varsNuit, varsProjections, varsCorrections, varsPlanification,
                   varsAudit, varsSchema, varsRecherche, varsComptes, varsEntrees, varsAnalyses,
                   varsLecture>>
  \/ /\ tache = "analyses" /\ NextAnalyses
     /\ UNCHANGED <<tache, varsMoteur, varsNuit, varsProjections, varsCorrections, varsPlanification,
                   varsAudit, varsSchema, varsRecherche, varsComptes, varsEntrees, varsMigration,
                   varsLecture>>
  \/ /\ tache = "lecture" /\ NextLecture
     /\ UNCHANGED <<tache, varsMoteur, varsNuit, varsProjections, varsCorrections, varsPlanification,
                   varsAudit, varsSchema, varsRecherche, varsComptes, varsEntrees, varsMigration,
                   varsAnalyses>>

Spec == Init /\ [][Next]_varsTaches

----------------------------------------------------------------------------

(* Bringing a base to the schema of the code, at the start of a process or  *)
(* through the secured migration: what a process records as migrated is     *)
(* there in full, and a migration that says it may be undone left a copy    *)
(* that was read back.                                                      *)
MigrationsSures == SchemaEntier /\ RetourProuve
=============================================================================
