--------------------------- MODULE Reconciliation ---------------------------
(***************************************************************************)
(* reconcilier_file, which every worker runs at its start and periodically *)
(* in its loop: the sweep of deliveries without a claim, then the jobs the *)
(* database holds active and the queue no longer knows.  Also              *)
(* recover_stale_jobs, which the web process runs once at its start, and   *)
(* the replay of dead letters by an administrator.                         *)
(***************************************************************************)
EXTENDS BoucleWorker

VARIABLES
  pcWeb,      \* where the starting web process stands in recover_stale_jobs
  candidats,  \* the active jobs it read, not looked up yet
  orphelins,  \* those it found nowhere in the queue
  examineWeb  \* the one it is looking up

web == <<pcWeb, candidats, orphelins, examineWeb>>

TypeWeb ==
  /\ pcWeb \in {"arret", "cherche", "traitement", "relance", "fini"}
  /\ candidats \in SUBSET Jobs
  /\ orphelins \in SUBSET Jobs
  /\ examineWeb \in Jobs \cup {Aucun}
  /\ pcWeb \in {"traitement", "relance"} => examineWeb \in Jobs

InitWeb ==
  /\ pcWeb = "arret" /\ candidats = {} /\ orphelins = {} /\ examineWeb = Aucun

(* Slips: a row put back that another worker took since, or that settled.  *)
RemettreSansVersion(j, version) == Actif(j)

(* remettre_en_file: active rows only, and only at the expected version.   *)
PeutRemettre(j, version) == Actif(j) /\ tentatives[j] = version

(* remettre_en_file writes the reason with the status.                     *)
remettre_en_file(j, durable, version) ==
  IF PeutRemettre(j, version)
    THEN /\ statut' = [statut EXCEPT ![j] = IF durable THEN "pending" ELSE "failed"]
         /\ par' = [par EXCEPT ![j] = Aucun]
         /\ motif' = [motif EXCEPT ![j] = TRUE]
    ELSE UNCHANGED <<statut, par, motif>>

VersionsLues == [j \in Jobs |-> IF Actif(j) THEN tentatives[j] ELSE -1]

---------------------------------------------------------------------------
(* Case 1: the deliveries left in the processing list.                     *)

LireVersions(w) ==
  /\ pc[w] \in {"depart", "boucle"}
  /\ versions' = [versions EXCEPT ![w] = VersionsLues]
  /\ Aller(w, "reprise")
  /\ UNCHANGED <<redis, registre, imports, tache, aVoir, decisions, aVerifier, examine, portes>>

LireEnTraitement(w) ==
  /\ pc[w] = "reprise"
  /\ aVoir' = [aVoir EXCEPT ![w] = enTraitement]
  /\ Aller(w, "reprend")
  /\ UNCHANGED <<redis, registre, imports, tache, versions, decisions, aVerifier, examine, portes>>

(* The sweep of the start fails at its first read: the loop begins all the *)
(* same.                                                                   *)
SauterBalayage(w) ==
  /\ pc[w] = "depart"
  /\ Aller(w, "boucle")
  /\ UNCHANGED <<redis, registre, imports, tache, balayage, portes>>

OublierBalayage(w) ==
  /\ versions' = [versions EXCEPT ![w] = [j \in Jobs |-> -1]]
  /\ aVoir' = [aVoir EXCEPT ![w] = <<>>]
  /\ decisions' = [decisions EXCEPT ![w] = <<>>]
  /\ aVerifier' = [aVerifier EXCEPT ![w] = {}]
  /\ examine' = [examine EXCEPT ![w] = Aucun]

(* One script per delivery: no claim on the job, and the payload still     *)
(* there; the transfer is part of the script.                              *)
Orpheline(d) == claim[d.job] = Aucun /\ Contains(enTraitement, d)

reprendre_taches_orphelines(w) ==
  /\ pc[w] = "reprend"
  /\ aVoir[w] # <<>>
  /\ LET d == Head(aVoir[w])
         suivante == [d EXCEPT !.attempt = @ + 1]
         remise == d.attempt + 1 < MaxTentatives
     IN IF Orpheline(d)
          THEN /\ enTraitement' = Lrem(enTraitement, d)
               /\ file' = IF remise THEN Append(file, suivante) ELSE file
               /\ morte' = IF remise THEN morte ELSE Append(morte, d)
               /\ decisions' = [decisions EXCEPT ![w] = Append(@, [job |-> d.job, requeued |-> remise])]
          ELSE UNCHANGED <<enTraitement, file, morte, decisions>>
  /\ aVoir' = [aVoir EXCEPT ![w] = Tail(@)]
  /\ UNCHANGED <<relance, claim, registre, imports, pc, tache, versions, aVerifier, examine, portes>>

AppliquerDecision(w) ==
  /\ pc[w] = "reprend"
  /\ aVoir[w] = <<>> /\ decisions[w] # <<>>
  /\ LET d == Head(decisions[w]) IN
     remettre_en_file(d.job, d.requeued, versions[w][d.job])
  /\ decisions' = [decisions EXCEPT ![w] = Tail(@)]
  /\ UNCHANGED <<redis, tentatives, imports, pc, tache, versions, aVoir, aVerifier, examine, portes>>

---------------------------------------------------------------------------
(* Case 2: the active rows, each looked up in three reads.                 *)

(* Slip: only the running rows are looked up.                              *)
JobsEnCours(w) ==
  /\ pc[w] = "reprend"
  /\ aVoir[w] = <<>> /\ decisions[w] = <<>>
  /\ versions' = [versions EXCEPT ![w] = VersionsLues]
  /\ aVerifier' = [aVerifier EXCEPT ![w] = {j \in Jobs : statut[j] = "running"}]
  /\ Aller(w, "cas2")
  /\ UNCHANGED <<redis, registre, imports, tache, aVoir, decisions, examine, portes>>

jobs_actifs(w) ==
  /\ pc[w] = "reprend"
  /\ aVoir[w] = <<>> /\ decisions[w] = <<>>
  /\ versions' = [versions EXCEPT ![w] = VersionsLues]
  /\ aVerifier' = [aVerifier EXCEPT ![w] = {j \in Jobs : Actif(j)}]
  /\ Aller(w, "cas2")
  /\ UNCHANGED <<redis, registre, imports, tache, aVoir, decisions, examine, portes>>

Examiner(w, j, etape) ==
  /\ Aller(w, etape)
  /\ examine' = [examine EXCEPT ![w] = j]
  /\ UNCHANGED <<redis, registre, imports, tache, versions, aVoir, decisions, portes>>

ChercherFile(w) ==
  /\ pc[w] = "cas2"
  /\ \E j \in aVerifier[w] :
       /\ aVerifier' = [aVerifier EXCEPT ![w] = @ \ {j}]
       /\ IF DansListe(file, j) THEN Examiner(w, Aucun, "cas2")
                                ELSE Examiner(w, j, "cas2traitement")

ChercherTraitement(w) ==
  /\ pc[w] = "cas2traitement"
  /\ IF DansListe(enTraitement, examine[w]) THEN Examiner(w, Aucun, "cas2")
                                            ELSE Examiner(w, examine[w], "cas2relance")
  /\ UNCHANGED aVerifier

ChercherRelance(w) ==
  /\ pc[w] = "cas2relance"
  /\ IF DansRelance(examine[w]) THEN Examiner(w, Aucun, "cas2")
                                ELSE Examiner(w, examine[w], "cas2arbitre")
  /\ UNCHANGED aVerifier

NonRelancable(w) ==
  versions[w][examine[w]] >= MaxTentatives \/ examine[w] \in SansCharge

AbandonnerOrphelin(w) ==
  /\ pc[w] = "cas2arbitre"
  /\ NonRelancable(w)
  /\ remettre_en_file(examine[w], FALSE, versions[w][examine[w]])
  /\ Aller(w, "cas2")
  /\ examine' = [examine EXCEPT ![w] = Aucun]
  /\ UNCHANGED <<redis, tentatives, imports, tache, versions, aVoir, decisions, aVerifier, portes>>

(* One script: no claim, no delivery anywhere, then RPUSH.                 *)
enqueue_task_si_absent(w) ==
  /\ pc[w] = "cas2arbitre"
  /\ ~NonRelancable(w)
  /\ LET j == examine[w] IN
     IF claim[j] = Aucun /\ ~EnFile(j)
       THEN /\ numero' = [numero EXCEPT ![j] = @ + 1]
            /\ file' = Append(file, [job |-> j, task_id |-> numero[j] + 1, attempt |-> 0])
            /\ Aller(w, "cas2remettre")
            /\ UNCHANGED examine
       ELSE /\ Aller(w, "cas2")
            /\ examine' = [examine EXCEPT ![w] = Aucun]
            /\ UNCHANGED <<file, numero>>
  /\ UNCHANGED <<enTraitement, relance, morte, claim, registre, imports, tache,
                 versions, aVoir, decisions, aVerifier, demande>>

RemettreOrphelin(w) ==
  /\ pc[w] = "cas2remettre"
  /\ remettre_en_file(examine[w], TRUE, versions[w][examine[w]])
  /\ Aller(w, "cas2")
  /\ examine' = [examine EXCEPT ![w] = Aucun]
  /\ UNCHANGED <<redis, tentatives, imports, tache, versions, aVoir, decisions, aVerifier, portes>>

FinirReconciliation(w) ==
  /\ pc[w] = "cas2"
  /\ aVerifier[w] = {}
  /\ versions' = [versions EXCEPT ![w] = [j \in Jobs |-> -1]]
  /\ Aller(w, "boucle")
  /\ UNCHANGED <<redis, registre, imports, tache, aVoir, decisions, aVerifier, examine, portes>>

Reconcilier(w) ==
  \/ LireEnTraitement(w) \/ reprendre_taches_orphelines(w) \/ AppliquerDecision(w)
  \/ jobs_actifs(w) \/ ChercherFile(w) \/ ChercherTraitement(w) \/ ChercherRelance(w)
  \/ AbandonnerOrphelin(w) \/ enqueue_task_si_absent(w) \/ RemettreOrphelin(w)
  \/ FinirReconciliation(w)

---------------------------------------------------------------------------
(* recover_stale_jobs.  The age of a row is not modelled: any active rows  *)
(* may be older than the threshold.                                        *)

autres == <<redis, tentatives, imports, pc, tache, balayage, portes>>

ListerCandidats ==
  /\ pcWeb = "arret"
  /\ candidats' \in SUBSET {j \in Jobs : Actif(j)}
  /\ pcWeb' = "cherche"
  /\ UNCHANGED <<autres, statut, par, motif, orphelins, examineWeb>>

ChercherCandidat ==
  /\ pcWeb = "cherche"
  /\ \E j \in candidats :
       /\ candidats' = candidats \ {j}
       /\ IF DansListe(file, j) THEN UNCHANGED <<pcWeb, examineWeb>>
                                ELSE pcWeb' = "traitement" /\ examineWeb' = j
  /\ UNCHANGED <<autres, statut, par, motif, orphelins>>

ChercherCandidatTraitement ==
  /\ pcWeb = "traitement"
  /\ IF DansListe(enTraitement, examineWeb)
       THEN pcWeb' = "cherche" /\ examineWeb' = Aucun
       ELSE pcWeb' = "relance" /\ UNCHANGED examineWeb
  /\ UNCHANGED <<autres, statut, par, motif, candidats, orphelins>>

ChercherCandidatRelance ==
  /\ pcWeb = "relance"
  /\ pcWeb' = "cherche" /\ examineWeb' = Aucun
  /\ orphelins' = IF DansRelance(examineWeb) THEN orphelins ELSE orphelins \cup {examineWeb}
  /\ UNCHANGED <<autres, statut, par, motif, candidats>>

(* One UPDATE, WHERE id = ANY(orphelins): the status is not looked at.     *)
recover_stale_jobs ==
  /\ pcWeb = "cherche"
  /\ candidats = {}
  /\ statut' = [j \in Jobs |-> IF j \in orphelins THEN "failed" ELSE statut[j]]
  /\ par' = [j \in Jobs |-> IF j \in orphelins THEN Aucun ELSE par[j]]
  /\ motif' = [j \in Jobs |-> j \in orphelins \/ motif[j]]
  /\ pcWeb' = "fini"
  /\ orphelins' = {}
  /\ UNCHANGED <<autres, candidats, examineWeb>>

DemarrerWeb ==
  \/ ListerCandidats \/ ChercherCandidat \/ ChercherCandidatTraitement
  \/ ChercherCandidatRelance \/ recover_stale_jobs

(* One LMOVE of replay_deadletters: the payload as it is, the row as it is. *)
replay_deadletters ==
  /\ morte # <<>>
  /\ file' = Append(file, Head(morte))
  /\ morte' = Tail(morte)
  /\ UNCHANGED <<enTraitement, relance, claim, registre, imports, pc, tache, balayage, portes>>
=============================================================================
