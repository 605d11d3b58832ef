---------------------------- MODULE Approbations ----------------------------
(***************************************************************************)
(* The requests that an approbateur decides (approbations.py): to change a *)
(* field of a record, to delete a record logically, to download a file.    *)
(* Approving one of the first two executes it in the same transaction,     *)
(* with the core of the record routes.                                     *)
(***************************************************************************)
EXTENDS Fiches

CONSTANTS
  Demandes,        \* identifiers of requests
  AutoApprobation  \* SEAMTECH_ALLOW_SELF_APPROVAL

VARIABLES
  demande,        \* the row of each request, Aucun before it is made
  verrouDemande   \* the transaction that keeps the row of a request

varsDemandes == <<demande, verrouDemande>>
varsDossiers == <<varsFiches, varsDemandes>>

StatutsDemande == {"en_attente", "approuvee", "refusee", "annulee", "executee", "expiree"}
TypesDemande == {"telechargement", "modification", "suppression"}

InitDemandes ==
  /\ demande = [d \in Demandes |-> Aucun]
  /\ verrouDemande = [d \in Demandes |-> Aucun]

Existe(d) == demande[d] # Aucun
EnAttente(d) == Existe(d) /\ demande[d].statut = "en_attente"

(* The partial unique indexes: one pending request of a kind, by one        *)
(* account, on one record.                                                  *)
DejaEnAttente(p, type, f) ==
  \E d \in Demandes :
    EnAttente(d) /\ demande[d].par = p /\ demande[d].type = type /\ demande[d].fiche = f

(* A file is asked for by the record it is linked to, which still stands.   *)
resoudre_piece(f) == fiche[f].statut # "supprimee"

(* A change is founded on the current revision of a record that is open.    *)
valider_modification(p, f) ==
  /\ fiche[f].statut \notin {"valide", "supprimee"}
  /\ fiche[f].revision = ecran[p].revision

(* A change or a deletion reads the record FOR UPDATE, so it waits for its  *)
(* writers.                                                                 *)
creer_demande(p, d, type, v) ==
  /\ p \in Operateurs
  /\ requete[p] = Aucun /\ ecran[p] # Aucun
  /\ ~Existe(d)
  /\ LET f == ecran[p].fiche IN
     /\ ~DejaEnAttente(p, type, f)
     /\ IF type = "telechargement" THEN resoudre_piece(f) ELSE verrou[f] = Aucun
     /\ type = "modification" => valider_modification(p, f)
     /\ type = "suppression" => fiche[f].statut # "supprimee" /\ fiche[f].revision = ecran[p].revision
     /\ demande' = [demande EXCEPT ![d] =
          [par |-> p, type |-> type, fiche |-> f, valeur |-> v, statut |-> "en_attente",
           revision |-> ecran[p].revision, vu |-> ecran[p].trace,
           decideur |-> Aucun, ouverte |-> FALSE]]
  /\ ecran' = [ecran EXCEPT ![p] = Aucun]
  /\ UNCHANGED <<fiche, verrou, requete, verrouDemande>>

annuler_demande(p, d) ==
  /\ EnAttente(d) /\ demande[d].par = p
  /\ requete[p] = Aucun
  /\ verrouDemande[d] = Aucun
  /\ demande' = [demande EXCEPT ![d].statut = "annulee"]
  /\ UNCHANGED <<varsFiches, verrouDemande>>

(* Slip: the row of the request is not kept for the decision.               *)
DeciderSansVerrou(p, d) ==
  /\ p \in Approbateurs
  /\ requete[p] = Aucun
  /\ EnAttente(d)
  /\ demande[d].par # p \/ AutoApprobation

(* What every decision checks once it has the row of the request.           *)
PeutDecider(p, d) ==
  /\ p \in Approbateurs
  /\ requete[p] = Aucun
  /\ verrouDemande[d] = Aucun
  /\ EnAttente(d)
  /\ demande[d].par # p \/ AutoApprobation

refuser_demande(p, d) ==
  /\ PeutDecider(p, d)
  /\ demande' = [demande EXCEPT ![d].statut = "refusee", ![d].decideur = p]
  /\ UNCHANGED <<varsFiches, verrouDemande>>

(* A download is approved for DUREE_TELECHARGEMENT_HEURES. *)
approuver_telechargement(p, d) ==
  /\ PeutDecider(p, d)
  /\ demande[d].type = "telechargement"
  /\ demande' = [demande EXCEPT ![d].statut = "approuvee", ![d].decideur = p]
  /\ UNCHANGED <<varsFiches, verrouDemande>>

(* Approving: the request is kept FOR UPDATE and the status of the record   *)
(* is read; the revision is the one of the request, or the one the          *)
(* approbateur confirms from the screen.                                    *)
lire_decision(p, d, confirmee) ==
  /\ PeutDecider(p, d) /\ Place(p)
  /\ demande[d].type # "telechargement"
  /\ confirmee => ecran[p] # Aucun /\ ecran[p].fiche = demande[d].fiche
  /\ LET f == demande[d].fiche IN
     /\ fiche[f].statut \notin
          (IF demande[d].type = "modification" THEN {"valide", "supprimee"} ELSE {"supprimee"})
     /\ requete' = [requete EXCEPT ![p] =
          [op |-> demande[d].type, fiche |-> f,
           revision |-> IF confirmee THEN ecran[p].revision ELSE demande[d].revision,
           statut |-> fiche[f].statut, valeur |-> demande[d].valeur, ecart |-> FALSE,
           vu |-> IF confirmee THEN ecran[p].trace ELSE demande[d].vu, demande |-> d]]
  /\ verrouDemande' = [verrouDemande EXCEPT ![d] = p]
  /\ ecran' = IF confirmee THEN [ecran EXCEPT ![p] = Aucun] ELSE ecran
  /\ UNCHANGED <<fiche, verrou, demande>>

supprimer_fiche(p) ==
  /\ decision_sous_verrou(p)
  /\ LET r == requete[p]
         x == fiche[r.fiche] IN
     Reviser(r, "supprimee", x.trace, x.corrige, x.canonique, FALSE)

(* The core of the correction or of the deletion, the request that becomes  *)
(* executee and the notification commit together.                           *)
executer_demande(p) ==
  /\ requete[p] # Aucun
  /\ \/ /\ requete[p].op = "modification"
        /\ avancer_revision(p)
        /\ CorrigerLeChamp(requete[p])
     \/ /\ requete[p].op = "suppression"
        /\ supprimer_fiche(p)
  /\ LET d == requete[p].demande IN
     /\ demande' = [demande EXCEPT ![d].statut = "executee", ![d].decideur = p]
     /\ verrouDemande' = [verrouDemande EXCEPT ![d] = Aucun]
  /\ Rendre(p)
  /\ UNCHANGED ecran

(* A refusal or a failure in the transaction of a decision leaves the       *)
(* request pending.                                                         *)
abandonner_requete(p) ==
  /\ abandonner(p)
  /\ verrouDemande' = [d \in Demandes |-> IF verrouDemande[d] = p THEN Aucun ELSE verrouDemande[d]]
  /\ UNCHANGED demande

(* The first GET marks the request; others are served until it expires.     *)
autoriser_telechargement_piece(p, d) ==
  /\ p \in Demandeurs
  /\ Existe(d) /\ demande[d].par = p
  /\ demande[d].statut = "approuvee"
  /\ ~demande[d].ouverte
  /\ demande' = [demande EXCEPT ![d].ouverte = TRUE]
  /\ UNCHANGED <<varsFiches, verrouDemande>>

(* Every reader of the requests first closes the downloads whose hours have *)
(* passed.                                                                  *)
expirer_telechargements(d) ==
  /\ Existe(d) /\ demande[d].type = "telechargement"
  /\ demande[d].statut = "approuvee"
  /\ demande' = [demande EXCEPT ![d].statut = "expiree"]
  /\ UNCHANGED <<varsFiches, verrouDemande>>

NextDemandes ==
  \/ \E p \in Postes :
       \/ \E d \in Demandes :
            \/ \E v \in Valeurs : creer_demande(p, d, "modification", v)
            \/ \E t \in TypesDemande \ {"modification"} : creer_demande(p, d, t, Aucun)
            \/ annuler_demande(p, d) \/ refuser_demande(p, d)
            \/ approuver_telechargement(p, d)
            \/ \E b \in BOOLEAN : lire_decision(p, d, b)
            \/ autoriser_telechargement_piece(p, d)
       \/ executer_demande(p)
       \/ abandonner_requete(p)
  \/ \E d \in Demandes : expirer_telechargements(d)

----------------------------------------------------------------------------
(* What the archive promises of records and requests together.             *)

Archive == INSTANCE ArchiveDeConfiance WITH
  Valeurs <- Valeurs \cup {Aucun},
  statut <- [f \in Fiches |-> fiche[f].statut],
  revision <- [f \in Fiches |-> fiche[f].revision],
  valeur <- [f \in Fiches |-> fiche[f].trace],
  humain <- [f \in Fiches |-> fiche[f].corrige]

(* Records, with the races of operators, deposits and requests, are an      *)
(* archive one can rely on: see ArchiveDeConfiance.                         *)
RespecteArchive == Archive!Spec

Decisions == {"corriger", "valider", "rejeter", "rouvrir", "effacer", "modification", "suppression",
              "valide_dans_lot"}

Applique(p) ==
  /\ requete[p] # Aucun /\ requete'[p] = Aucun
  /\ requete[p].op \in Decisions
  /\ fiche'[requete[p].fiche].revision # fiche[requete[p].fiche].revision

(* A decision is only applied to the value that its author had on the       *)
(* screen: whoever wrote in between, under whatever lock, makes it fail.    *)
DecisionSurCeQuiEstLu ==
  [][\A p \in Postes : Applique(p) => fiche[requete[p].fiche].trace = requete[p].vu]_varsDossiers

(* A request is carried out while it is pending, hence once and never after *)
(* a refusal or a cancellation, and by someone else than its author, though *)
(* two approbateurs and its author act on it at the same time.              *)
UneSeuleExecution ==
  [][\A p \in Postes :
       Applique(p) /\ requete[p].demande # Aucun =>
         /\ EnAttente(requete[p].demande)
         /\ AutoApprobation \/ demande[requete[p].demande].par # p]_varsDossiers

(* A record is valid only with canonical data that follow its corrections,  *)
(* or with a difference its validation accepted.  The reconciliation does   *)
(* not keep this: what it read may no longer be in force when it writes.    *)
ValideConforme ==
  \A f \in Fiches : fiche[f].statut = "valide" /\ Divergente(f) => fiche[f].assume
=============================================================================
