-------------------------- MODULE TraitementImport --------------------------
(***************************************************************************)
(* process_import_task and the publication protocol of import_folder and   *)
(* retry_upload: an advisory lock per import, the intention written before *)
(* the first byte leaves for the object store, the upload, the publication *)
(* of its outcome, then the final status of the job.                       *)
(*                                                                         *)
(* publication_protegee is one step: it locks the row of the job (SELECT   *)
(* ... FOR UPDATE) from its first check to its commit.                     *)
(***************************************************************************)
EXTENDS BoucleWorker

(* The first check of the claims; update_job(status='running') changes     *)
(* nothing for an owner whose row still runs.                              *)
DebuterTraitement(w) ==
  /\ pc[w] = "execute"
  /\ LET j == JobDe(w) IN
     IF EstProprietaireActif(w)
       THEN /\ statut' = IF statut[j] = "cancelled" THEN statut ELSE [statut EXCEPT ![j] = "running"]
            /\ Aller(w, "verrou")
            /\ UNCHANGED verdict
       ELSE /\ verdict' = [verdict EXCEPT ![w] = "stale_worker"]
            /\ Aller(w, "rendu")
            /\ UNCHANGED statut
  /\ UNCHANGED <<redis, par, tentatives, motif, imports, livraison, envoi, balayage, portes>>

(* Slip: a publication of unknown outcome is tried again.                  *)
PrendreVerrouSansAttente(w) ==
  /\ pc[w] = "verrou"
  /\ LET j == JobDe(w) IN
     IF verrou[j] = Aucun
       THEN verrou' = [verrou EXCEPT ![j] = w] /\ Aller(w, "capture")
       ELSE Aller(w, "exception") /\ UNCHANGED verrou
  /\ UNCHANGED <<redis, registre, attente, preuve, incertain, tache, balayage, portes>>

(* Slip: the lock taken without asking whether another session holds it.   *)
PrendreVerrouSansEssai(w) ==
  /\ pc[w] = "verrou"
  /\ LET j == JobDe(w) IN
     IF ~attente[j]
       THEN verrou' = [verrou EXCEPT ![j] = w] /\ Aller(w, "capture")
       ELSE Aller(w, "exception") /\ UNCHANGED verrou
  /\ UNCHANGED <<redis, registre, attente, preuve, incertain, tache, balayage, portes>>

(* pg_try_advisory_lock: busy, or a publication whose outcome is unknown,  *)
(* is an exception.                                                        *)
PrendreVerrou(w) ==
  /\ pc[w] = "verrou"
  /\ LET j == JobDe(w) IN
     IF verrou[j] = Aucun /\ ~attente[j]
       THEN verrou' = [verrou EXCEPT ![j] = w] /\ Aller(w, "capture")
       ELSE Aller(w, "exception") /\ UNCHANGED verrou
  /\ UNCHANGED <<redis, registre, attente, preuve, incertain, tache, balayage, portes>>

(* Leaving the serialised section by an exception releases the lock.       *)
PcVerrouille == {"capture", "envoi", "publication"}

Rompre(w, etape) ==
  /\ verrou' = [verrou EXCEPT ![JobDe(w)] = Aucun]
  /\ Aller(w, etape)
  /\ UNCHANGED <<redis, registre, attente, preuve, incertain, tache, balayage, portes>>

(* cancel_check reads the row: it sees a cancellation at every stage.      *)
ConstaterAnnulation(w) ==
  /\ pc[w] \in PcVerrouille
  /\ statut[JobDe(w)] = "cancelled"
  /\ Rompre(w, "annulation")

(* An extraction, a copy or an upload that raises; a lost claim that       *)
(* progress_cb or publication_protegee notices.                            *)
EchouerTraitement(w) ==
  /\ pc[w] \in PcVerrouille
  /\ Rompre(w, "exception")

PeutPublier(w) ==
  /\ EstProprietaireActif(w)
  /\ statut[JobDe(w)] = "running"

PiecesAEnvoyer(j) == StockageConfigure /\ preuve[j] # "complete"

(* _save_import / update_import of the intention, before any remote write. *)
PersisterIntention(w) ==
  /\ pc[w] = "capture"
  /\ PiecesAEnvoyer(JobDe(w))
  /\ PeutPublier(w)
  /\ attente' = [attente EXCEPT ![JobDe(w)] = TRUE]
  /\ Aller(w, "envoi")
  /\ UNCHANGED <<redis, registre, preuve, verrou, incertain, tache, balayage, portes>>

(* Nothing to send: no store, or every piece proven by an earlier attempt. *)
RienAEnvoyer(w) ==
  /\ pc[w] = "capture"
  /\ ~PiecesAEnvoyer(JobDe(w))
  /\ Aller(w, "publication")
  /\ UNCHANGED <<redis, registre, imports, tache, balayage, portes>>

(* upload_artifacts_to_storage: no lock on the row, no look at the claim.  *)
Envoyer(w) ==
  /\ pc[w] = "envoi"
  /\ incertain' = [incertain EXCEPT ![JobDe(w)] = @ + 1]
  /\ \E r \in Envois \ {""} : envoi' = [envoi EXCEPT ![w] = r]
  /\ Aller(w, "publication")
  /\ UNCHANGED <<redis, registre, attente, preuve, verrou, livraison, verdict, balayage, portes>>

PreuveApres(j, r) ==
  CASE r = "complet" -> "complete"
    [] r = "partiel" -> "partielle"
    [] OTHER -> preuve[j]

(* The outcome and the catalogue in one transaction; a key without a proof *)
(* leaves publication_pending up.                                          *)
Publier(w) ==
  /\ pc[w] = "publication"
  /\ PeutPublier(w)
  /\ LET j == JobDe(w) IN
     /\ attente' = [attente EXCEPT ![j] = envoi[w] = "ambigu"]
     /\ preuve' = [preuve EXCEPT ![j] = PreuveApres(j, envoi[w])]
     /\ incertain' = [incertain EXCEPT ![j] = IF envoi[w] \in {"", "ambigu"} THEN @ ELSE @ - 1]
     /\ verrou' = [verrou EXCEPT ![j] = Aucun]
  /\ Aller(w, "bilan")
  /\ UNCHANGED <<redis, registre, tache, balayage, portes>>

---------------------------------------------------------------------------
(* The final status.                                                       *)

(* What the outcome allows: without a store the extraction decides.        *)
StatutsFinaux(j) ==
  CASE attente[j] -> {"needs_review"}
    [] ~StockageConfigure -> {"completed", "needs_review", "failed"}
    [] preuve[j] = "complete" -> {"needs_review"}
    [] OTHER -> {"upload_incomplete"}

(* A failure the worker will retry keeps the row running.                  *)
StatutEcrit(f) == IF f \in {"failed", "upload_incomplete"} THEN "running" ELSE f

(* The quarantine of the copy, or the registry, fails before the result.   *)
EchouerApresPublication(w) ==
  /\ pc[w] = "bilan"
  /\ Aller(w, "exception")
  /\ UNCHANGED <<redis, registre, imports, tache, balayage, portes>>

EcrireResultat(w) ==
  /\ pc[w] = "bilan"
  /\ LET j == JobDe(w) IN
     IF ~EstProprietaireActif(w)
       THEN /\ verdict' = [verdict EXCEPT ![w] = "stale_worker"]
            /\ Aller(w, "rendu")
            /\ UNCHANGED statut
     ELSE IF statut[j] = "cancelled"
       THEN Aller(w, "annulation") /\ UNCHANGED <<statut, verdict>>
     ELSE \E f \in StatutsFinaux(j) :
            /\ statut' = [statut EXCEPT ![j] = StatutEcrit(f)]
            /\ verdict' = [verdict EXCEPT ![w] = f]
            /\ Aller(w, "apres")
  /\ UNCHANGED <<redis, par, tentatives, motif, imports, livraison, envoi, balayage, portes>>

(* After the result: a last look at the cancellation, at the ownership     *)
(* when a purge is granted, then the purge and the report of it.           *)
TerminerTraitement(w) ==
  /\ pc[w] = "apres"
  /\ LET j == JobDe(w) IN
     \/ statut[j] = "cancelled" /\ Aller(w, "annulation") /\ UNCHANGED verdict
     \/ statut[j] # "cancelled" /\ Aller(w, "rendu") /\ UNCHANGED verdict
     \/ /\ statut[j] # "cancelled" /\ ~EstProprietaireActif(w)
        /\ verdict' = [verdict EXCEPT ![w] = "stale_worker"]
        /\ Aller(w, "rendu")
  /\ UNCHANGED <<redis, registre, imports, livraison, envoi, balayage, portes>>

(* The database fails once the result is written.                          *)
PanneTardive(w) ==
  /\ PanneApresResultat
  /\ pc[w] = "apres"
  /\ Aller(w, "exception")
  /\ UNCHANGED <<redis, registre, imports, tache, balayage, portes>>

---------------------------------------------------------------------------
(* The two exception handlers: check the ownership, then write.            *)

VerifierProprietaire(w, etape) ==
  /\ IF EstProprietaireActif(w)
       THEN Aller(w, etape) /\ UNCHANGED verdict
       ELSE /\ verdict' = [verdict EXCEPT ![w] = "stale_worker"]
            /\ Aller(w, "rendu")
  /\ UNCHANGED <<redis, registre, imports, livraison, envoi, balayage, portes>>

AttraperAnnulation(w) ==
  pc[w] = "annulation" /\ VerifierProprietaire(w, "annulationEcrit")

(* Slip: every exception goes to review.                                   *)
AttraperEnRevue(w) ==
  pc[w] = "exception" /\ VerifierProprietaire(w, "excRevue")

AttraperException(w) ==
  /\ pc[w] = "exception"
  /\ VerifierProprietaire(w, IF attente[JobDe(w)] THEN "excRevue" ELSE "excEchec")

Rendre(w, v) ==
  /\ verdict' = [verdict EXCEPT ![w] = v]
  /\ Aller(w, "rendu")
  /\ UNCHANGED <<redis, par, tentatives, motif, imports, livraison, envoi, balayage, portes>>

EcrireAnnulation(w) ==
  /\ pc[w] = "annulationEcrit"
  /\ LET j == JobDe(w) IN
     statut' = IF par[j] = w /\ statut[j] \in STATUTS_ACTIFS
                 THEN [statut EXCEPT ![j] = "cancelled"] ELSE statut
  /\ Rendre(w, "cancelled")

(* A publication of unknown outcome is never retried: it is for review.    *)
EcrireRevue(w) ==
  /\ pc[w] = "excRevue"
  /\ LET j == JobDe(w) IN
     IF par[j] = w /\ statut[j] # "cancelled"
       THEN /\ statut' = [statut EXCEPT ![j] = "needs_review"]
            /\ Rendre(w, "needs_review")
       ELSE /\ UNCHANGED statut
            /\ Rendre(w, IF statut[j] \in {"cancelled", "needs_review"}
                           THEN statut[j] ELSE "stale_worker")

EcrireEchec(w) ==
  /\ pc[w] = "excEchec"
  /\ LET j == JobDe(w) IN
     statut' = IF par[j] = w /\ statut[j] # "cancelled"
                 THEN [statut EXCEPT ![j] = "running"] ELSE statut
  /\ Rendre(w, "failed")

Traiter(w) ==
  \/ DebuterTraitement(w) \/ PrendreVerrou(w)
  \/ ConstaterAnnulation(w) \/ EchouerTraitement(w)
  \/ PersisterIntention(w) \/ RienAEnvoyer(w) \/ Envoyer(w) \/ Publier(w)
  \/ EchouerApresPublication(w) \/ EcrireResultat(w) \/ TerminerTraitement(w) \/ PanneTardive(w)
  \/ AttraperAnnulation(w) \/ AttraperException(w)
  \/ EcrireAnnulation(w) \/ EcrireRevue(w) \/ EcrireEchec(w)
=============================================================================
