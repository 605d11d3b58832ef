-------------------------------- MODULE Lots --------------------------------
(***************************************************************************)
(* Lots: the folders under one root, deposited one after the other by the  *)
(* worker that holds the job of the lot (fiches/depot.py, and              *)
(* _process_lot_task in worker.py).  A lot has one job, hence one delivery *)
(* and one claim.  The queue is reduced here to where that delivery is:    *)
(* the module FileDurable details it.                                      *)
(*                                                                         *)
(* Every transaction that writes a folder or the lot first takes the row   *)
(* of the job FOR UPDATE and looks at its owner (_verrouiller_claim).      *)
(***************************************************************************)
EXTENDS Integers, FiniteSets

CONSTANTS
  Lots,            \* lot_import.id_lot
  Dossiers,        \* lot_dossier.id_lot_dossier, in the order of their ids
  LotDe,           \* the lot of a folder
  CleDe,           \* its idempotence key: path and fingerprint of its PDF
  Illisibles,      \* folders in which no record is recognised
  Workers,
  Aucun,
  MaxTentatives,   \* config.max_task_attempts
  MaxPannes,       \* workers killed
  MaxErreurs,      \* calls of a worker that fail
  MaxExpirations   \* claims of a live, stalled worker that expire

Cles == {CleDe[d] : d \in Dossiers}

ASSUME HypDossiers ==
  /\ Dossiers \subseteq Nat /\ IsFiniteSet(Dossiers) /\ Illisibles \subseteq Dossiers
  /\ LotDe \in [Dossiers -> Lots]
  /\ DOMAIN CleDe = Dossiers
ASSUME HypAucunLot == Aucun \notin Workers \cup Lots \cup Dossiers
ASSUME HypBornesLots ==
  /\ MaxTentatives \in Nat \ {0}
  /\ MaxPannes \in Nat /\ MaxErreurs \in Nat /\ MaxExpirations \in Nat

VARIABLES
  statut, par, tentatives, \* the row of the job: status, claimed_by, attempts
  claim,                   \* its claim in Redis
  livraison, essai,        \* where its delivery is, and its attempt number
  drapeau,                 \* the cancellation flag in Redis: down, asked for, up
  statutLot,               \* lot_import.statut
  nbEchecs,                \* lot_import.nb_echecs
  statutDossier,           \* lot_dossier.statut
  porteCle,                \* lot_dossier.cle_idempotence is not NULL
  depots,                  \* records written for a folder (ghost)
  createurs,               \* folders that created a record (ghost)
  apresAnnulation,            \* folders settled since the lot was cancelled (ghost)
  pc, lot, dossier, reference, verdict, \* a worker
  pannes, erreurs, expirations

job     == <<statut, par, tentatives>>
file    == <<claim, livraison, essai>>
lignes  == <<statutDossier, porteCle, depots, createurs, apresAnnulation>>
suivi   == <<statutLot, nbEchecs>>
tache   == <<lot, dossier, reference, verdict>>
alea    == <<pannes, erreurs, expirations>>
vars    == <<job, file, drapeau, suivi, lignes, pc, tache, alea>>

STATUTS_ACTIFS == {"pending", "running"}
Fins == {"completed", "needs_review", "cancelled", "failed"}

PcDossier == {"analyse", "lie", "ecrit", "echec"}
PcLot == {"prepare", "reprise", "continue", "choisit", "compte", "termine",
          "annule", "bilan", "annuleJob", "publie"} \cup PcDossier
Pcs == {"boucle", "marque", "verifie", "rendu"} \cup PcLot

TypeJobs ==
  /\ statut \in [Lots -> STATUTS_ACTIFS \cup Fins \cup {"absent"}]
  /\ par \in [Lots -> Workers \cup {Aucun}]
  /\ tentatives \in [Lots -> Nat]
  /\ claim \in [Lots -> Workers \cup {Aucun}]
  /\ livraison \in [Lots -> {"absente", "file", "traitement", "morte"}]
  /\ essai \in [Lots -> Nat]
  /\ drapeau \in [Lots -> {"baisse", "demande", "leve"}]
  /\ statutLot \in [Lots -> {"absent", "en_cours", "relance", "annule", "termine"}]
  /\ nbEchecs \in [Lots -> Nat]
  /\ pannes \in Nat /\ erreurs \in Nat /\ expirations \in Nat

TypeLignes ==
  /\ statutDossier \in [Dossiers -> {"en_attente", "traite", "echec"}]
  /\ porteCle \in [Dossiers -> BOOLEAN]
  /\ depots \in [Dossiers -> Nat]
  /\ createurs \subseteq Dossiers
  /\ apresAnnulation \in [Lots -> Nat]

TypeTaches ==
  /\ pc \in [Workers -> Pcs]
  /\ lot \in [Workers -> Lots \cup {Aucun}]
  /\ \A w \in Workers : pc[w] = "boucle" <=> lot[w] = Aucun
  /\ dossier \in [Workers -> Dossiers \cup {Aucun}]
  /\ \A w \in Workers :
       pc[w] \in PcDossier \cup {"compte"} =>
         dossier[w] \in Dossiers /\ LotDe[dossier[w]] = lot[w]
  /\ reference \in [Workers -> Dossiers \cup {Aucun}]
  /\ \A w \in Workers : pc[w] = "lie" => reference[w] \in Dossiers
  /\ verdict \in [Workers -> Fins \cup {"aucun", "stale_worker"}]
  /\ \A w \in Workers : pc[w] = "publie" => verdict[w] \in Fins

TypeLots == TypeJobs /\ TypeLignes /\ TypeTaches

Init ==
  /\ statut = [l \in Lots |-> "absent"]
  /\ par = [l \in Lots |-> Aucun]
  /\ tentatives = [l \in Lots |-> 0]
  /\ claim = [l \in Lots |-> Aucun]
  /\ livraison = [l \in Lots |-> "absente"]
  /\ essai = [l \in Lots |-> 0]
  /\ drapeau = [l \in Lots |-> "baisse"]
  /\ statutLot = [l \in Lots |-> "absent"]
  /\ nbEchecs = [l \in Lots |-> 0]
  /\ statutDossier = [d \in Dossiers |-> "en_attente"]
  /\ porteCle = [d \in Dossiers |-> FALSE]
  /\ depots = [d \in Dossiers |-> 0]
  /\ createurs = {}
  /\ apresAnnulation = [l \in Lots |-> 0]
  /\ pc = [w \in Workers |-> "boucle"]
  /\ lot = [w \in Workers |-> Aucun]
  /\ dossier = [w \in Workers |-> Aucun]
  /\ reference = [w \in Workers |-> Aucun]
  /\ verdict = [w \in Workers |-> "aucun"]
  /\ pannes = 0 /\ erreurs = 0 /\ expirations = 0

Aller(w, etape) == pc' = [pc EXCEPT ![w] = etape]

Rendre(w, v) == Aller(w, "rendu") /\ verdict' = [verdict EXCEPT ![w] = v]

Actif(l) == statut[l] \in STATUTS_ACTIFS
DossiersDe(l) == {d \in Dossiers : LotDe[d] = l}
EnAttente(l) == {d \in DossiersDe(l) : statutDossier[d] = "en_attente"}
EnEchec(l) == {d \in DossiersDe(l) : statutDossier[d] = "echec"}

---------------------------------------------------------------------------
(* The web process.                                                        *)

creer_lot(l) ==
  /\ statutLot[l] = "absent"
  /\ statutLot' = [statutLot EXCEPT ![l] = "en_cours"]
  /\ UNCHANGED <<job, file, drapeau, nbEchecs, lignes, pc, tache, alea>>

(* The push may fail (503): the row stays, pending, without a delivery.    *)
route_creer_lot(l) ==
  /\ statutLot[l] = "en_cours" /\ statut[l] = "absent"
  /\ statut' = [statut EXCEPT ![l] = "pending"]
  /\ livraison' \in {livraison, [livraison EXCEPT ![l] = "file"]}
  /\ UNCHANGED <<par, tentatives, claim, essai, drapeau, suivi, lignes, pc, tache, alea>>

(* Nothing to cancel once the lot is closed; but it may close between this *)
(* look and the flag.                                                      *)
route_annuler_lot(l) ==
  /\ \/ /\ statutLot[l] \in {"en_cours", "relance"} /\ drapeau[l] = "baisse"
        /\ drapeau' = [drapeau EXCEPT ![l] = "demande"]
     \/ /\ drapeau[l] = "demande"
        /\ drapeau' = [drapeau EXCEPT ![l] = "leve"]
  /\ UNCHANGED <<job, file, suivi, lignes, pc, tache, alea>>

(* POST /imports/{id}/cancel reaches the job of a lot like any other.      *)
cancel_job(l) ==
  /\ Actif(l)
  /\ statut' = [statut EXCEPT ![l] = "cancelled"]
  /\ UNCHANGED <<par, tentatives, file, drapeau, suivi, lignes, pc, tache, alea>>

---------------------------------------------------------------------------
(* The loop of a worker takes the delivery of a lot.                       *)

(* Dequeue and claim.  Refused, the delivery stays in the processing list. *)
prendre(w, l) ==
  /\ pc[w] = "boucle" /\ livraison[l] = "file"
  /\ livraison' = [livraison EXCEPT ![l] = "traitement"]
  /\ IF claim[l] \in {Aucun, w}
       THEN /\ claim' = [claim EXCEPT ![l] = w]
            /\ lot' = [lot EXCEPT ![w] = l]
            /\ Aller(w, "marque")
       ELSE UNCHANGED <<claim, lot, pc>>
  /\ UNCHANGED <<essai, job, drapeau, suivi, lignes, dossier, reference, verdict, alea>>

(* Back to the loop, the claim released if it still is this worker's.      *)
Lacher(w) ==
  LET l == lot[w] IN
  /\ claim' = IF claim[l] = w THEN [claim EXCEPT ![l] = Aucun] ELSE claim
  /\ Aller(w, "boucle")
  /\ lot' = [lot EXCEPT ![w] = Aucun]
  /\ dossier' = [dossier EXCEPT ![w] = Aucun]
  /\ reference' = [reference EXCEPT ![w] = Aucun]
  /\ verdict' = [verdict EXCEPT ![w] = "aucun"]

(* Active rows only; the delivery of a settled job is acknowledged, that   *)
(* of a failed one is kept.                                                *)
marquer_job_claim(w) ==
  LET l == lot[w] IN
  /\ pc[w] = "marque"
  /\ IF Actif(l)
       THEN /\ statut' = [statut EXCEPT ![l] = "running"]
            /\ par' = [par EXCEPT ![l] = w]
            /\ tentatives' = [tentatives EXCEPT ![l] = @ + 1]
            /\ Aller(w, "verifie")
            /\ UNCHANGED <<file, tache>>
       ELSE /\ livraison' = IF statut[l] # "failed" /\ claim[l] = w
                              THEN [livraison EXCEPT ![l] = "absente"] ELSE livraison
            /\ Lacher(w)
            /\ UNCHANGED <<job, essai>>
  /\ UNCHANGED <<drapeau, suivi, lignes, alea>>

(* The beginning of _process_lot_task: a job of nobody is acquired, one of *)
(* another worker is left to it.                                           *)
acquerir_claim_job(w) ==
  LET l == lot[w] IN
  /\ pc[w] = "verifie"
  /\ \/ /\ par[l] = w
        /\ Aller(w, "prepare")
        /\ UNCHANGED <<job, verdict>>
     \/ /\ par[l] = Aucun /\ Actif(l)
        /\ statut' = [statut EXCEPT ![l] = "running"]
        /\ par' = [par EXCEPT ![l] = w]
        /\ tentatives' = [tentatives EXCEPT ![l] = @ + 1]
        /\ Aller(w, "prepare")
        /\ UNCHANGED verdict
     \/ /\ par[l] # w /\ (par[l] # Aucun \/ ~Actif(l))
        /\ Rendre(w, "stale_worker")
        /\ UNCHANGED job
  /\ UNCHANGED <<file, drapeau, suivi, lignes, lot, dossier, reference, alea>>

---------------------------------------------------------------------------
(* executer_lot.                                                           *)

(* doit_continuer raises ClaimLotPerdu.                                    *)
ClaimLotPerdu(w) == par[lot[w]] # w \/ claim[lot[w]] # w
(* It answers FALSE.                                                       *)
ArretDemande(l) == statut[l] = "cancelled" \/ drapeau[l] = "leve"

(* A transaction under _verrouiller_claim: refused to a former owner.      *)
SousClaim(w, effet) ==
  IF par[lot[w]] = w THEN effet
  ELSE Rendre(w, "stale_worker") /\ UNCHANGED <<suivi, lignes, dossier, reference>>

ResteInchange == UNCHANGED <<job, file, drapeau, lot, alea>>

(* signaler_echec: the job stays active until its delivery has moved.      *)
SignalerEchec(w) ==
  Rendre(w, IF par[lot[w]] = w /\ statut[lot[w]] # "cancelled"
              THEN "failed" ELSE "stale_worker")

(* The files of an uploaded lot are promoted first: done, interrupted by   *)
(* the operator, or impossible.                                            *)
preparer_objets_lot(w) ==
  /\ pc[w] = "prepare"
  /\ \/ Aller(w, "reprise") /\ UNCHANGED verdict
     \/ /\ ~ClaimLotPerdu(w) /\ ArretDemande(lot[w])
        /\ Aller(w, "annuleJob") /\ UNCHANGED verdict
     \/ ClaimLotPerdu(w) /\ Rendre(w, "stale_worker")
     \/ ~ClaimLotPerdu(w) /\ SignalerEchec(w)
  /\ UNCHANGED <<suivi, lignes, dossier, reference>>
  /\ ResteInchange

reprendre_lot(w) ==
  LET l == lot[w] IN
  /\ pc[w] = "reprise"
  /\ SousClaim(w,
       /\ statutLot' = IF statutLot[l] \in {"en_cours", "relance"}
                         THEN [statutLot EXCEPT ![l] = "relance"] ELSE statutLot
       /\ Aller(w, "continue")
       /\ UNCHANGED <<nbEchecs, lignes, dossier, reference, verdict>>)
  /\ ResteInchange

(* Slip: the flag is read once, when the lot begins.                       *)
ContinuerSansDrapeau(w) ==
  /\ pc[w] = "continue"
  /\ \/ ClaimLotPerdu(w) /\ Rendre(w, "stale_worker")
     \/ ~ClaimLotPerdu(w) /\ Aller(w, "choisit") /\ UNCHANGED verdict
  /\ UNCHANGED <<suivi, lignes, dossier, reference>>
  /\ ResteInchange

doit_continuer(w) ==
  /\ pc[w] = "continue"
  /\ \/ ClaimLotPerdu(w) /\ Rendre(w, "stale_worker")
     \/ /\ ~ClaimLotPerdu(w)
        /\ Aller(w, IF ArretDemande(lot[w]) THEN "annule" ELSE "choisit")
        /\ UNCHANGED verdict
  /\ UNCHANGED <<suivi, lignes, dossier, reference>>
  /\ ResteInchange

(* The first folder still waiting, then the heartbeat of the lot.          *)
choisir_dossier(w) ==
  /\ pc[w] = "choisit"
  /\ \/ /\ EnAttente(lot[w]) = {}
        /\ Aller(w, "termine")
        /\ UNCHANGED <<suivi, lignes, dossier, reference, verdict>>
     \/ \E d \in EnAttente(lot[w]) :
          /\ \A e \in EnAttente(lot[w]) : d <= e
          /\ SousClaim(w,
               /\ dossier' = [dossier EXCEPT ![w] = d]
               /\ reference' = [reference EXCEPT ![w] = Aucun]
               /\ Aller(w, "analyse")
               /\ UNCHANGED <<suivi, lignes, verdict>>)
  /\ ResteInchange

(* The treated row that carries the key of d.                              *)
PorteursDe(k) == {e \in Dossiers : CleDe[e] = k /\ porteCle[e] /\ statutDossier[e] = "traite"}

(* A known document: the same pieces, a modified one, or one removed.      *)
analyser(w) ==
  LET d == dossier[w] IN
  /\ pc[w] = "analyse"
  /\ \/ /\ d \in Illisibles
        /\ Aller(w, "echec") /\ UNCHANGED reference
     \/ /\ d \notin Illisibles /\ PorteursDe(CleDe[d]) = {}
        /\ Aller(w, "ecrit") /\ UNCHANGED reference
     \/ /\ d \notin Illisibles
        /\ \E e \in PorteursDe(CleDe[d]), suite \in {"lie", "ecrit", "echec"} :
             /\ reference' = [reference EXCEPT ![w] = e]
             /\ Aller(w, suite)
  /\ UNCHANGED <<suivi, lignes, dossier, verdict>>
  /\ ResteInchange

Regler(w, s, avecCle) ==
  LET l == lot[w] IN
  /\ statutDossier' = [statutDossier EXCEPT ![dossier[w]] = s]
  /\ porteCle' = [porteCle EXCEPT ![dossier[w]] = avecCle]
  /\ apresAnnulation' = IF ArretDemande(l) /\ statutDossier[dossier[w]] = "en_attente"
                       THEN [apresAnnulation EXCEPT ![l] = @ + 1] ELSE apresAnnulation
  /\ Aller(w, "compte")

(* The claim in Redis is looked at just before the commit.                 *)
JusquAuCommit(w, effet) ==
  IF claim[lot[w]] = w THEN effet
  ELSE Rendre(w, "stale_worker") /\ UNCHANGED lignes

(* An identical replay: the row is closed without the key.                 *)
lier_rejeu_objets(w) ==
  /\ pc[w] = "lie"
  /\ SousClaim(w,
       /\ IF porteCle[reference[w]]
            THEN JusquAuCommit(w, Regler(w, "traite", FALSE)
                                  /\ UNCHANGED <<depots, createurs, verdict>>)
            ELSE Aller(w, "echec") /\ UNCHANGED <<lignes, verdict>>
       /\ UNCHANGED <<suivi, dossier, reference>>)
  /\ ResteInchange

(* Slip: no unique index.                                                  *)
DepotSansIndex(w) == reference[w] = Aucun \/ statutDossier[reference[w]] = "traite"

(* The unique index on the key of treated rows, or a reference that is no  *)
(* longer a treated row, rolls the deposit back.                           *)
DepotPossible(w) ==
  IF reference[w] = Aucun THEN PorteursDe(CleDe[dossier[w]]) = {}
                          ELSE statutDossier[reference[w]] = "traite"

(* Slip: the record committed first, the row of the folder after a look at *)
(* the claim.                                                              *)
DeposerPuisNoter(w) ==
  /\ pc[w] = "ecrit"
  /\ depots' = [depots EXCEPT ![dossier[w]] = @ + 1]
  /\ IF par[lot[w]] = w
       THEN Regler(w, "traite", TRUE) /\ UNCHANGED verdict
       ELSE Rendre(w, "stale_worker") /\ UNCHANGED <<statutDossier, porteCle, apresAnnulation>>
  /\ UNCHANGED <<createurs, suivi, dossier, reference>>
  /\ ResteInchange

deposer_dossier(w) ==
  LET d == dossier[w]
      nouveau == reference[w] = Aucun
  IN
  /\ pc[w] = "ecrit"
  /\ SousClaim(w,
       /\ IF DepotPossible(w)
            THEN JusquAuCommit(w,
                   /\ Regler(w, "traite", nouveau)
                   /\ depots' = [depots EXCEPT ![d] = @ + 1]
                   /\ createurs' = IF nouveau THEN createurs \cup {d} ELSE createurs
                   /\ UNCHANGED verdict)
            ELSE Aller(w, "echec") /\ UNCHANGED <<lignes, verdict>>
       /\ UNCHANGED <<suivi, dossier, reference>>)
  /\ ResteInchange

(* Any other reason to refuse: nothing was committed.                      *)
refuser_dossier(w) ==
  /\ pc[w] \in {"analyse", "lie", "ecrit"}
  /\ Aller(w, "echec")
  /\ UNCHANGED <<suivi, lignes, dossier, reference, verdict>>
  /\ ResteInchange

maj_ligne_echec(w) ==
  /\ pc[w] = "echec"
  /\ SousClaim(w, /\ Regler(w, "echec", FALSE)
                  /\ UNCHANGED <<depots, createurs, suivi, dossier, reference, verdict>>)
  /\ ResteInchange

rafraichir_compteurs(w) ==
  LET l == lot[w] IN
  /\ pc[w] = "compte"
  /\ SousClaim(w, /\ nbEchecs' = [nbEchecs EXCEPT ![l] = Cardinality(EnEchec(l))]
                  /\ dossier' = [dossier EXCEPT ![w] = Aucun]
                  /\ Aller(w, "continue")
                  /\ UNCHANGED <<statutLot, lignes, reference, verdict>>)
  /\ ResteInchange

FermerLot(w, s, etape) ==
  SousClaim(w, /\ statutLot' = [statutLot EXCEPT ![lot[w]] = s]
               /\ Aller(w, etape)
               /\ UNCHANGED <<nbEchecs, lignes, dossier, reference>>
               /\ verdict' = [verdict EXCEPT ![w] = IF etape = "publie" THEN "cancelled" ELSE @])

terminer_lot(w) ==
  pc[w] = "termine" /\ FermerLot(w, "termine", "bilan") /\ ResteInchange

(* annuler_lot, called by executer_lot then by _process_lot_task.          *)
annuler_lot(w) ==
  /\ \/ pc[w] = "annule" /\ FermerLot(w, "annule", "annuleJob")
     \/ pc[w] = "annuleJob" /\ FermerLot(w, "annule", "publie")
  /\ ResteInchange

---------------------------------------------------------------------------
(* The end of _process_lot_task, and what the loop makes of its verdict.   *)

(* etat_lot, then doit_continuer once more: a late cancellation counts.    *)
bilan(w) ==
  LET l == lot[w] IN
  /\ pc[w] = "bilan"
  /\ \/ ClaimLotPerdu(w) /\ Rendre(w, "stale_worker")
     \/ /\ ~ClaimLotPerdu(w) /\ ArretDemande(l)
        /\ Aller(w, "annuleJob") /\ UNCHANGED verdict
     \/ /\ ~ClaimLotPerdu(w) /\ ~ArretDemande(l)
        /\ verdict' = [verdict EXCEPT ![w] = IF nbEchecs[l] = 0 THEN "completed"
                                                                 ELSE "needs_review"]
        /\ Aller(w, "publie")
  /\ UNCHANGED <<suivi, lignes, dossier, reference>>
  /\ ResteInchange

(* Slip: the owner is not looked at.                                       *)
ConclureSansProprietaire(w) ==
  verdict[w] = "cancelled" \/ statut[lot[w]] # "cancelled"

PeutConclure(w) ==
  /\ par[lot[w]] = w
  /\ IF verdict[w] = "cancelled" THEN statut[lot[w]] \in STATUTS_ACTIFS \cup {"cancelled"}
                                 ELSE statut[lot[w]] # "cancelled"

terminer_job(w) ==
  LET l == lot[w] IN
  /\ pc[w] = "publie"
  /\ IF PeutConclure(w)
       THEN /\ statut' = [statut EXCEPT ![l] = verdict[w]]
            /\ par' = [par EXCEPT ![l] = Aucun]
            /\ Rendre(w, verdict[w])
       ELSE Rendre(w, "stale_worker") /\ UNCHANGED <<statut, par>>
  /\ UNCHANGED <<tentatives, file, drapeau, suivi, lignes, lot, dossier, reference, alea>>

(* The closing of a delivery, in one step here: a retry is due at once.    *)
clore_livraison(w) ==
  LET l == lot[w]
      mienne == claim[l] = w /\ livraison[l] = "traitement"
      possede == par[l] = w /\ statut[l] # "cancelled"
      relance == essai[l] + 1 < MaxTentatives
  IN
  /\ pc[w] = "rendu"
  /\ \/ /\ ~mienne \/ verdict[w] = "stale_worker"
        /\ UNCHANGED <<job, livraison, essai>>
     \/ /\ mienne /\ verdict[w] = "failed"
        /\ livraison' = [livraison EXCEPT ![l] = IF relance THEN "file" ELSE "morte"]
        /\ essai' = [essai EXCEPT ![l] = IF relance THEN @ + 1 ELSE @]
        /\ IF possede
             THEN /\ statut' = [statut EXCEPT ![l] = IF relance THEN "pending" ELSE "failed"]
                  /\ par' = IF relance THEN par ELSE [par EXCEPT ![l] = Aucun]
             ELSE UNCHANGED <<statut, par>>
        /\ UNCHANGED tentatives
     \/ /\ mienne /\ verdict[w] \in Fins \ {"failed"}
        /\ livraison' = [livraison EXCEPT ![l] = "absente"]
        /\ UNCHANGED <<job, essai>>
  /\ Lacher(w)
  /\ UNCHANGED <<drapeau, suivi, lignes, alea>>

---------------------------------------------------------------------------
(* The sweep, reduced to its two outcomes.                                 *)

(* A delivery without a claim goes back to the queue, or is buried; the    *)
(* row follows, unless it was taken since.                                 *)
reprendre_tache_orpheline(l) ==
  LET remise == essai[l] + 1 < MaxTentatives IN
  /\ livraison[l] = "traitement" /\ claim[l] = Aucun
  /\ livraison' = [livraison EXCEPT ![l] = IF remise THEN "file" ELSE "morte"]
  /\ essai' = [essai EXCEPT ![l] = IF remise THEN @ + 1 ELSE @]
  /\ \/ UNCHANGED <<statut, par>>
     \/ /\ Actif(l)
        /\ statut' = [statut EXCEPT ![l] = IF remise THEN "pending" ELSE "failed"]
        /\ par' = [par EXCEPT ![l] = Aucun]
  /\ UNCHANGED <<tentatives, claim, drapeau, suivi, lignes, pc, tache, alea>>

(* Slip: running rows only.                                                *)
ReprendreEnCours(l) ==
  /\ statut[l] = "running" /\ livraison[l] \in {"absente", "morte"} /\ claim[l] = Aucun
  /\ statut' = [statut EXCEPT ![l] = "failed"]
  /\ par' = [par EXCEPT ![l] = Aucun]
  /\ UNCHANGED <<tentatives, claim, livraison, essai, drapeau, suivi, lignes, pc, tache, alea>>

(* An active row without a delivery.                                       *)
reprendre_job_sans_livraison(l) ==
  /\ Actif(l) /\ livraison[l] \in {"absente", "morte"} /\ claim[l] = Aucun
  /\ IF tentatives[l] >= MaxTentatives
       THEN statut' = [statut EXCEPT ![l] = "failed"] /\ UNCHANGED <<livraison, essai>>
       ELSE /\ statut' = [statut EXCEPT ![l] = "pending"]
            /\ livraison' = [livraison EXCEPT ![l] = "file"]
            /\ essai' = [essai EXCEPT ![l] = 0]
  /\ par' = [par EXCEPT ![l] = Aucun]
  /\ UNCHANGED <<tentatives, claim, drapeau, suivi, lignes, pc, tache, alea>>

---------------------------------------------------------------------------
(* The environment.                                                        *)

LacherClaim(l) ==
  /\ claim' = [claim EXCEPT ![l] = Aucun]
  /\ UNCHANGED <<job, livraison, essai, drapeau, suivi, lignes, pc, tache, pannes, erreurs>>

ExpirerMort(l) ==
  claim[l] # Aucun /\ lot[claim[l]] # l /\ LacherClaim(l) /\ UNCHANGED expirations

ExpirerVivant(l) ==
  /\ claim[l] # Aucun /\ lot[claim[l]] = l /\ expirations < MaxExpirations
  /\ LacherClaim(l)
  /\ expirations' = expirations + 1

(* A worker killed, and started again by the service manager.              *)
Tuer(w) ==
  /\ pc[w] # "boucle" /\ pannes < MaxPannes
  /\ pannes' = pannes + 1
  /\ Aller(w, "boucle")
  /\ lot' = [lot EXCEPT ![w] = Aucun]
  /\ dossier' = [dossier EXCEPT ![w] = Aucun]
  /\ reference' = [reference EXCEPT ![w] = Aucun]
  /\ verdict' = [verdict EXCEPT ![w] = "aucun"]
  /\ UNCHANGED <<job, file, drapeau, suivi, lignes, erreurs, expirations>>

(* The database fails under a call no handler covers: the task failed.     *)
PanneLot(w) ==
  /\ pc[w] \in PcLot \ PcDossier /\ erreurs < MaxErreurs
  /\ erreurs' = erreurs + 1
  /\ Rendre(w, "failed")
  /\ UNCHANGED <<job, file, drapeau, suivi, lignes, lot, dossier, reference, pannes, expirations>>

(* Redis does not answer is_cancelled: no flag, as far as the code knows.  *)
DrapeauIllisible(w) ==
  /\ pc[w] = "continue" /\ ~ClaimLotPerdu(w) /\ drapeau[lot[w]] = "leve"
  /\ statut[lot[w]] # "cancelled" /\ erreurs < MaxErreurs
  /\ erreurs' = erreurs + 1
  /\ Aller(w, "choisit")
  /\ UNCHANGED <<job, file, drapeau, suivi, lignes, tache, pannes, expirations>>

(* An error after the commit of a deposit, inside deposer_dossier: the net *)
(* of executer_lot marks the folder as failed.                             *)
ErreurApresDepot(w) ==
  /\ pc[w] = "compte" /\ erreurs < MaxErreurs
  /\ erreurs' = erreurs + 1
  /\ Aller(w, "echec")
  /\ UNCHANGED <<job, file, drapeau, suivi, lignes, tache, pannes, expirations>>

---------------------------------------------------------------------------
executer_lot(w) ==
  \/ reprendre_lot(w) \/ doit_continuer(w) \/ choisir_dossier(w) \/ analyser(w)
  \/ lier_rejeu_objets(w) \/ deposer_dossier(w) \/ refuser_dossier(w)
  \/ maj_ligne_echec(w) \/ rafraichir_compteurs(w) \/ terminer_lot(w)

process_lot_task(w) ==
  \/ marquer_job_claim(w) \/ acquerir_claim_job(w) \/ preparer_objets_lot(w)
  \/ executer_lot(w) \/ annuler_lot(w) \/ bilan(w) \/ terminer_job(w)
  \/ clore_livraison(w)

Balayage(l) == reprendre_tache_orpheline(l) \/ reprendre_job_sans_livraison(l)

Next ==
  \/ \E l \in Lots : creer_lot(l) \/ route_creer_lot(l) \/ route_annuler_lot(l)
                     \/ cancel_job(l) \/ Balayage(l)
                     \/ ExpirerMort(l) \/ ExpirerVivant(l)
  \/ \E w \in Workers, l \in Lots : prendre(w, l)
  \/ \E w \in Workers : process_lot_task(w)
  \/ \E w \in Workers : Tuer(w) \/ PanneLot(w) \/ DrapeauIllisible(w) \/ ErreurApresDepot(w)

Spec == Init /\ [][Next]_vars

(* A worker goes on with what it began; it dequeues and sweeps at every    *)
(* pass of its loop; Redis expires the claim of a dead worker by itself.   *)
Equite ==
  /\ \A w \in Workers : WF_vars(process_lot_task(w))
  /\ \A l \in Lots :
       /\ SF_vars(\E w \in Workers : prendre(w, l))
       /\ WF_vars(Balayage(l))
       /\ WF_vars(ExpirerMort(l))

SpecEquitable == Spec /\ Equite

---------------------------------------------------------------------------
(* A folder is deposited once: neither a takeover, nor a retry, nor a      *)
(* former owner that wakes up writes its record again.                     *)
JamaisRefait == \A d \in Dossiers : depots[d] <= 1

(* Two lots that hold the same document, run in parallel by two workers,   *)
(* create one record: the other sees a replay or fails. When two folders   *)
(* with the same document both created a record, one of them is marked as  *)
(* failed, its deposit committed: this alone frees a key (executer_lot).   *)
UneFicheParCle ==
  \A d, e \in createurs :
    d # e /\ CleDe[d] = CleDe[e] => "echec" \in {statutDossier[d], statutDossier[e]}

(* The lot stops between two folders: after the flag, the folder in hand   *)
(* is settled and no other, but for reads of the flag that failed.         *)
ArretEntreDeuxDossiers == \A l \in Lots : apresAnnulation[l] <= 1 + erreurs

(* A job that ends well, or for review, leaves no folder waiting and its   *)
(* lot is closed.                                                          *)
FinSansReste ==
  \A l \in Lots : statut[l] \in {"completed", "needs_review"} =>
    EnAttente(l) = {} /\ statutLot[l] = "termine"

(* A lot accepted by the queue ends.                                       *)
LotAboutit == \A l \in Lots : Actif(l) ~> ~Actif(l)

(* Documented: a folder already treated is never done again, and treated   *)
(* rows do not move.                                                       *)
TraiteResteTraite ==
  [][\A d \in Dossiers : statutDossier[d] = "traite" => statutDossier'[d] = "traite"]_vars

----------------------------------------------------------------------------
(* What makes the safety properties inductive: what the owner of the job   *)
(* may rely on from one transaction to the next.                           *)

Detient(w) == lot[w] \in Lots /\ par[lot[w]] = w

EnMain(w) == statutDossier[dossier[w]] = "en_attente"

(* The folder in the hands of the owner still waits, up to its deposit.    *)
InvEnMain ==
  \A w \in Workers : Detient(w) /\ pc[w] \in {"analyse", "lie", "ecrit"} => EnMain(w)

(* A folder deposited no longer waits.                                     *)
InvDepots ==
  \A d \in Dossiers :
    depots[d] <= 1 /\ (depots[d] = 1 => statutDossier[d] # "en_attente")

(* Who created a record carries its key, unless it is marked as failed; a  *)
(* key is that of one treated row.                                         *)
InvCles ==
  /\ \A d \in createurs :
       statutDossier[d] # "en_attente" /\ (statutDossier[d] = "traite" => porteCle[d])
  /\ \A k \in Cles : \A d, e \in PorteursDe(k) : d = e

(* An owner about to settle a folder read the flag before it was raised,   *)
(* or could not read it.                                                   *)
VaRegler(w) ==
  /\ Detient(w)
  /\ \/ pc[w] \in {"choisit", "analyse", "lie", "ecrit"}
     \/ pc[w] = "echec" /\ EnMain(w)

InvArret ==
  /\ \A l \in Lots :
       /\ apresAnnulation[l] <= 1 + erreurs
       /\ apresAnnulation[l] > 0 => ArretDemande(l)
  /\ \A w \in Workers : VaRegler(w) => apresAnnulation[lot[w]] <= erreurs

SansReste(l) == EnAttente(l) = {} /\ statutLot[l] = "termine"
BonneFin == {"completed", "needs_review"}

(* An owner that concludes has settled every folder and closed the lot.    *)
InvFin ==
  /\ \A l \in Lots : statut[l] \in BonneFin => SansReste(l) /\ par[l] = Aucun
  /\ \A w \in Workers : Detient(w) =>
       /\ pc[w] = "termine" => EnAttente(lot[w]) = {}
       /\ pc[w] = "bilan" => SansReste(lot[w])
       /\ pc[w] = "publie" /\ verdict[w] \in BonneFin => SansReste(lot[w])
=============================================================================
