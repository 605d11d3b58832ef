---------------------------- MODULE BoucleWorker ----------------------------
(***************************************************************************)
(* The web request that accepts an import and the loop of a worker         *)
(* process around process_import_task: dequeue, claim, and what follows a  *)
(* verdict (acknowledge, retry, dead letter, give the claim back).  Each   *)
(* Redis script and each SQL statement is one atomic step.                 *)
(***************************************************************************)
EXTENDS EtatFileDurable

Aller(w, etape) == pc' = [pc EXCEPT ![w] = etape]

---------------------------------------------------------------------------
(* The web process: POST /imports, POST /imports/{id}/cancel.              *)

create_job(j) ==
  /\ demande[j] = "libre"
  /\ demande' = [demande EXCEPT ![j] = "creee"]
  /\ statut' = [statut EXCEPT ![j] = "pending"]
  /\ UNCHANGED <<redis, par, tentatives, motif, imports, pc, tache, balayage, numero>>

(* enqueue_task pushes a fresh delivery; 202 is answered.                  *)
enqueue_task(j) ==
  /\ demande[j] = "creee"
  /\ demande' = [demande EXCEPT ![j] = "acceptee"]
  /\ numero' = [numero EXCEPT ![j] = @ + 1]
  /\ file' = Append(file, [job |-> j, task_id |-> numero[j] + 1, attempt |-> 0])
  /\ UNCHANGED <<enTraitement, relance, morte, claim, registre, imports, pc, tache, balayage>>

(* enqueue_task returns False (Redis error): the route does not look at it *)
(* and answers 202 all the same.                                           *)
EnfilageRate(j) ==
  /\ demande[j] = "creee"
  /\ demande' = [demande EXCEPT ![j] = "acceptee"]
  /\ UNCHANGED <<redis, registre, imports, pc, tache, balayage, numero>>

cancel_job(j) ==
  /\ Actif(j)
  /\ statut' = [statut EXCEPT ![j] = "cancelled"]
  /\ UNCHANGED <<redis, par, tentatives, motif, imports, pc, tache, balayage, portes>>

PasRoute(j) ==
  create_job(j) \/ enqueue_task(j) \/ EnfilageRate(j) \/ cancel_job(j)

---------------------------------------------------------------------------
(* The head of the loop.                                                   *)

(* One due member of the retry set goes back to the queue.                 *)
process_retry_queue(w) ==
  /\ pc[w] = "boucle"
  /\ \E d \in relance :
       /\ relance' = relance \ {d}
       /\ file' = Append(file, d)
  /\ UNCHANGED <<enTraitement, morte, claim, registre, imports, pc, tache, balayage, portes>>

dequeue_task(w) ==
  /\ pc[w] = "boucle"
  /\ file # <<>>
  /\ file' = Tail(file)
  /\ enTraitement' = Append(enTraitement, Head(file))
  /\ livraison' = [livraison EXCEPT ![w] = Head(file)]
  /\ Aller(w, "depile")
  /\ UNCHANGED <<relance, morte, claim, registre, imports, verdict, envoi, balayage, portes>>

PeutRevendiquer(w) ==
  /\ Contains(enTraitement, livraison[w])
  /\ claim[JobDe(w)] \in {Aucun, w}

(* Refused: the delivery is left in the processing list.                   *)
revendiquer_tache(w) ==
  /\ pc[w] = "depile"
  /\ IF PeutRevendiquer(w)
       THEN /\ claim' = [claim EXCEPT ![JobDe(w)] = w]
            /\ Aller(w, "revendique")
            /\ UNCHANGED livraison
       ELSE /\ livraison' = [livraison EXCEPT ![w] = Aucun]
            /\ Aller(w, "boucle")
            /\ UNCHANGED claim
  /\ UNCHANGED <<file, enTraitement, relance, morte, registre, imports, verdict, envoi, balayage, portes>>

(* The row changes hands whoever held it: only the status is looked at.    *)
marquer_job_claim(w) ==
  /\ pc[w] = "revendique"
  /\ LET j == JobDe(w) IN
     IF Actif(j)
       THEN /\ statut' = [statut EXCEPT ![j] = "running"]
            /\ par' = [par EXCEPT ![j] = w]
            /\ tentatives' = [tentatives EXCEPT ![j] = @ + 1]
            /\ Aller(w, "execute")
       ELSE Aller(w, "refuse") /\ UNCHANGED <<statut, par, tentatives>>
  /\ UNCHANGED <<redis, motif, imports, tache, balayage, portes>>

(* The row refused the claim: a settled job is acknowledged, any other     *)
(* delivery is kept.  The status read is settled for good.                 *)
AcquitterRefus(w) ==
  /\ pc[w] = "refuse"
  /\ IF statut[JobDe(w)] \in {"completed", "cancelled", "needs_review"} /\ ClaimAMoi(w)
       THEN enTraitement' = Lrem(enTraitement, livraison[w])
       ELSE UNCHANGED enTraitement
  /\ Aller(w, "libere")
  /\ UNCHANGED <<file, relance, morte, claim, registre, imports, tache, balayage, portes>>

---------------------------------------------------------------------------
(* After process_import_task: its verdict decides.                         *)

ResteUneTentative(w) == livraison[w].attempt + 1 < MaxTentatives

SuiteDuVerdict(w) ==
  IF ~ClaimAMoi(w) \/ verdict[w] = "stale_worker" THEN "libere"
  ELSE IF verdict[w] \notin {"failed", "upload_incomplete"} THEN "acquitter"
  ELSE IF ResteUneTentative(w) THEN "relancer" ELSE "enterrer"

Decider(w) ==
  /\ pc[w] = "rendu"
  /\ Aller(w, SuiteDuVerdict(w))
  /\ UNCHANGED <<redis, registre, imports, tache, balayage, portes>>

(* Every script below first checks the claim, then removes the exact       *)
(* payload, and does nothing when either is missing.                       *)
PeutClore(w) == ClaimAMoi(w) /\ Contains(enTraitement, livraison[w])

ack_task(w) ==
  /\ pc[w] = "acquitter"
  /\ IF PeutClore(w)
       THEN enTraitement' = Lrem(enTraitement, livraison[w]) /\ Aller(w, "clore")
       ELSE Aller(w, "libere") /\ UNCHANGED enTraitement
  /\ UNCHANGED <<file, relance, morte, claim, registre, imports, tache, balayage, portes>>

(* The payload is rebuilt from the row, hence without a task_id, unless    *)
(* the manual selection is gone.                                           *)
TacheRelancee(d) ==
  [job |-> d.job, task_id |-> IF d.job \in SansCharge THEN d.task_id ELSE 0,
   attempt |-> d.attempt + 1]

(* Slip: the payload leaves the processing list and enters no other.       *)
RelancerSansDepot(w) ==
  /\ pc[w] = "relancer"
  /\ IF PeutClore(w)
       THEN enTraitement' = Lrem(enTraitement, livraison[w]) /\ Aller(w, "remettre")
       ELSE Aller(w, "libere") /\ UNCHANGED enTraitement
  /\ UNCHANGED <<file, relance, morte, claim, registre, imports, tache, balayage, portes>>

retry_task(w) ==
  /\ pc[w] = "relancer"
  /\ IF PeutClore(w)
       THEN /\ enTraitement' = Lrem(enTraitement, livraison[w])
            /\ relance' = relance \cup {TacheRelancee(livraison[w])}
            /\ Aller(w, "remettre")
       ELSE Aller(w, "libere") /\ UNCHANGED <<enTraitement, relance>>
  /\ UNCHANGED <<file, morte, claim, registre, imports, tache, balayage, portes>>

(* update_job(status='pending', expected_worker=w): claimed_by stays.      *)
NoterRelance(w) ==
  /\ pc[w] = "remettre"
  /\ LET j == JobDe(w) IN
     statut' = IF par[j] = w /\ statut[j] # "cancelled"
                 THEN [statut EXCEPT ![j] = "pending"] ELSE statut
  /\ Aller(w, "libere")
  /\ UNCHANGED <<redis, par, tentatives, motif, imports, tache, balayage, portes>>

deadletter_task(w) ==
  /\ pc[w] = "enterrer"
  /\ IF PeutClore(w)
       THEN /\ enTraitement' = Lrem(enTraitement, livraison[w])
            /\ morte' = Append(morte, livraison[w])
            /\ verdict' = [verdict EXCEPT ![w] = "failed"]
            /\ Aller(w, "clore")
       ELSE Aller(w, "libere") /\ UNCHANGED <<enTraitement, morte, verdict>>
  /\ UNCHANGED <<file, relance, claim, registre, imports, livraison, envoi, balayage, portes>>

(* Slip: the owner concludes over a cancellation.                          *)
TerminerSansStatut(w) == par[JobDe(w)] = w

PeutTerminer(w) ==
  LET j == JobDe(w) IN
  /\ par[j] = w
  /\ IF verdict[w] = "cancelled" THEN statut[j] \in STATUTS_ACTIFS \cup {"cancelled"}
                                 ELSE statut[j] # "cancelled"

terminer_job(w) ==
  /\ pc[w] = "clore"
  /\ LET j == JobDe(w) IN
     IF PeutTerminer(w)
       THEN /\ statut' = [statut EXCEPT ![j] = verdict[w]]
            /\ par' = [par EXCEPT ![j] = Aucun]
            /\ motif' = [motif EXCEPT ![j] = verdict[w] \in {"failed", "cancelled"}]
       ELSE UNCHANGED <<statut, par, motif>>
  /\ Aller(w, "libere")
  /\ UNCHANGED <<redis, tentatives, imports, tache, balayage, portes>>

(* The registry fails under the worker, outside any handler of             *)
(* process_import_task: reprogrammed or buried whatever the verdict.       *)
PcSansFilet == {"execute", "annulation", "annulationEcrit", "exception",
                "excRevue", "excEchec", "remettre", "clore"}

ExceptionEchappee(w) ==
  /\ pc[w] \in PcSansFilet
  /\ Aller(w, IF ResteUneTentative(w) THEN "relancer" ELSE "enterrer")
  /\ verdict' = [verdict EXCEPT ![w] = "failed"]
  /\ UNCHANGED <<redis, registre, imports, livraison, envoi, balayage, portes>>

(* Redis answers an error to the acknowledgement, the retry or the burial. *)
ClotureRatee(w) ==
  /\ pc[w] \in {"acquitter", "relancer", "enterrer"}
  /\ Aller(w, "libere")
  /\ UNCHANGED <<redis, registre, imports, tache, balayage, portes>>

(* DEL only if the claim is still this worker's; back to the loop.         *)
liberer_revendication(w) ==
  /\ pc[w] = "libere"
  /\ claim' = IF ClaimAMoi(w) THEN [claim EXCEPT ![JobDe(w)] = Aucun] ELSE claim
  /\ livraison' = [livraison EXCEPT ![w] = Aucun]
  /\ verdict' = [verdict EXCEPT ![w] = ""]
  /\ envoi' = [envoi EXCEPT ![w] = ""]
  /\ Aller(w, "boucle")
  /\ UNCHANGED <<file, enTraitement, relance, morte, registre, imports, balayage, portes>>

TeteDeBoucle(w) == process_retry_queue(w) \/ dequeue_task(w)

SuiteDeBoucle(w) ==
  \/ revendiquer_tache(w) \/ marquer_job_claim(w) \/ AcquitterRefus(w)
  \/ Decider(w) \/ ack_task(w) \/ retry_task(w) \/ NoterRelance(w)
  \/ deadletter_task(w) \/ terminer_job(w) \/ liberer_revendication(w)
=============================================================================
