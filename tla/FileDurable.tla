---------------------------- MODULE FileDurable ----------------------------
(***************************************************************************)
(* The durable import queue: web process, workers, reconcilers, and what   *)
(* the environment does to them (a worker killed, a claim that expires, a  *)
(* Redis server that restarts empty).                                      *)
(***************************************************************************)
EXTENDS TraitementImport, Reconciliation

CONSTANTS
  MaxPannes,      \* workers killed
  MaxErreurs,     \* calls to the registry or to Redis that fail
  MaxExpirations, \* claims of a live, stalled worker that expire
  MaxPertes,      \* restarts of Redis without its volume
  MaxDemarrages,  \* web starts during the run, 0 or 1
  MaxRejeux,      \* dead letters replayed
  MaxBalayages    \* sweeps begun, 0 for no bound

ASSUME HypBornes ==
  /\ MaxPannes \in Nat /\ MaxErreurs \in Nat
  /\ MaxExpirations \in Nat /\ MaxPertes \in Nat
  /\ MaxDemarrages \in {0, 1} /\ MaxRejeux \in Nat /\ MaxBalayages \in Nat

VARIABLES pannes, erreurs, expirations, pertes, rejeux, balayages

compteurs == <<pannes, erreurs, expirations, pertes, rejeux, balayages>>
vars == <<redis, registre, imports, pc, tache, balayage, portes, web, compteurs>>

TypeCompteurs ==
  /\ pannes \in Nat /\ erreurs \in Nat
  /\ expirations \in Nat /\ pertes \in Nat
  /\ rejeux \in Nat /\ balayages \in Nat

TypeComplet == TypeOK /\ TypeWeb /\ TypeCompteurs

Init ==
  /\ InitFile /\ InitWeb
  /\ pannes = 0 /\ erreurs = 0 /\ expirations = 0 /\ pertes = 0 /\ rejeux = 0 /\ balayages = 0

---------------------------------------------------------------------------
(* The environment.                                                        *)

(* The heartbeat thread keeps the claim of the delivery in hand.           *)
Suit(w, j) == livraison[w] # Aucun /\ JobDe(w) = j

LacherClaim(j) ==
  /\ claim' = [claim EXCEPT ![j] = Aucun]
  /\ UNCHANGED <<file, enTraitement, relance, morte, registre, imports, pc, tache,
                 balayage, portes, web, pannes, erreurs, pertes, rejeux, balayages>>

ExpirerMort(j) ==
  /\ claim[j] # Aucun /\ ~Suit(claim[j], j)
  /\ LacherClaim(j)
  /\ UNCHANGED expirations

ExpirerVivant(j) ==
  /\ claim[j] # Aucun /\ Suit(claim[j], j)
  /\ expirations < MaxExpirations
  /\ LacherClaim(j)
  /\ expirations' = expirations + 1

(* SIGKILL: the memory goes, the advisory lock with the connection; the    *)
(* claim and the row stay.                                                 *)
Tuer(w) ==
  /\ pannes < MaxPannes
  /\ pc[w] # "arret"
  /\ pannes' = pannes + 1
  /\ Aller(w, "arret")
  /\ verrou' = [j \in Jobs |-> IF verrou[j] = w THEN Aucun ELSE verrou[j]]
  /\ livraison' = [livraison EXCEPT ![w] = Aucun]
  /\ verdict' = [verdict EXCEPT ![w] = ""]
  /\ envoi' = [envoi EXCEPT ![w] = ""]
  /\ OublierBalayage(w)
  /\ UNCHANGED <<redis, registre, attente, preuve, incertain, portes, web, erreurs,
                 expirations, pertes, rejeux, balayages>>

(* A database or Redis error inside a sweep: logged, the loop goes on, and  *)
(* the decisions not applied yet are forgotten.                            *)
InterrompreBalayage(w) ==
  /\ erreurs < MaxErreurs
  /\ pc[w] \in PcBalayage
  /\ erreurs' = erreurs + 1
  /\ Aller(w, "boucle")
  /\ OublierBalayage(w)
  /\ UNCHANGED <<redis, registre, imports, tache, portes, web, pannes, expirations,
                 pertes, rejeux, balayages>>

(* The registry or Redis fails for one call of a worker.                   *)
PanneAppel(w) ==
  /\ erreurs < MaxErreurs
  /\ erreurs' = erreurs + 1
  /\ ExceptionEchappee(w) \/ ClotureRatee(w)
  /\ UNCHANGED <<web, pannes, expirations, pertes, rejeux, balayages>>

Relancer(w) ==
  /\ pc[w] = "arret"
  /\ Aller(w, "depart")
  /\ UNCHANGED <<redis, registre, imports, tache, balayage, portes, web, compteurs>>

PerdreRedis ==
  /\ pertes < MaxPertes
  /\ pertes' = pertes + 1
  /\ file' = <<>> /\ enTraitement' = <<>> /\ relance' = {} /\ morte' = <<>>
  /\ claim' = [j \in Jobs |-> Aucun]
  /\ UNCHANGED <<registre, imports, pc, tache, balayage, portes, web, pannes, erreurs,
                 expirations, rejeux, balayages>>

---------------------------------------------------------------------------
(* A worker after the head of its loop.                                    *)
Avancer(w) == SuiteDeBoucle(w) \/ Traiter(w) \/ Reconcilier(w)

PasWorker(w) == SauterBalayage(w) \/ TeteDeBoucle(w) \/ Avancer(w)

(* The sweep of the start and the periodic one.                            *)
Balayer(w) ==
  /\ LireVersions(w)
  /\ UNCHANGED <<web, pannes, erreurs, expirations, pertes, rejeux>>
  /\ IF MaxBalayages = 0 THEN UNCHANGED balayages
     ELSE balayages < MaxBalayages /\ balayages' = balayages + 1

Rejouer ==
  /\ rejeux < MaxRejeux
  /\ replay_deadletters
  /\ rejeux' = rejeux + 1
  /\ UNCHANGED <<web, pannes, erreurs, expirations, pertes, balayages>>

AleaWorker(w) ==
  Tuer(w) \/ Relancer(w) \/ PanneAppel(w) \/ InterrompreBalayage(w)

Next ==
  \/ \E j \in Jobs : PasRoute(j) /\ UNCHANGED <<web, compteurs>>
  \/ \E w \in Workers : PasWorker(w) /\ UNCHANGED <<web, compteurs>>
  \/ \E w \in Workers : Balayer(w) \/ AleaWorker(w)
  \/ \E j \in Jobs : ExpirerMort(j) \/ ExpirerVivant(j)
  \/ MaxDemarrages > 0 /\ DemarrerWeb /\ UNCHANGED compteurs
  \/ Rejouer
  \/ PerdreRedis

Spec == Init /\ [][Next]_vars

(***************************************************************************)
(* Fairness.  worker_loop is one thread going round: it never stops inside *)
(* a pass (Avancer), and each pass sweeps, promotes and dequeues in turn,  *)
(* so what is enabled every time it comes back to the head is done.  Redis *)
(* expires a key by itself; the service manager restarts a worker.         *)
(***************************************************************************)
Equite ==
  /\ \A w \in Workers :
       /\ WF_vars(Avancer(w) /\ UNCHANGED <<web, compteurs>>)
       /\ SF_vars(Balayer(w))
       /\ SF_vars(process_retry_queue(w) /\ UNCHANGED <<web, compteurs>>)
       /\ SF_vars(dequeue_task(w) /\ UNCHANGED <<web, compteurs>>)
       /\ WF_vars(Relancer(w))
  /\ \A j \in Jobs : WF_vars(ExpirerMort(j))

SpecEquitable == Spec /\ Equite

---------------------------------------------------------------------------
(* Nothing is lost in silence: as long as Redis kept its volume, a job     *)
(* once pushed and still active has a delivery in the queue, in            *)
(* processing, waiting a retry, or among the dead letters.                 *)
AucunePerte ==
  \A j \in Jobs :
    Actif(j) /\ numero[j] > 0 /\ pertes = 0 => EnFile(j) \/ DansListe(morte, j)

(* A worker that still holds the claim of its job has its delivery in the  *)
(* processing list until it closes it: a sweep that passed between the     *)
(* dequeue and the claim, or after an expiry, cannot have taken it.        *)
PcTenu == PcTravail \cup {"revendique", "refuse", "rendu", "acquitter"}

LivraisonEnTraitement ==
  \A w \in Workers :
    pc[w] \in PcTenu /\ ClaimAMoi(w) => Contains(enTraitement, livraison[w])

(* The intention is durable before the first remote write, and as long as  *)
(* the outcome of an upload is recorded nowhere no other upload starts.    *)
PasDeRenvoiAveugle ==
  \A j \in Jobs : incertain[j] <= 1 /\ (incertain[j] = 1 => attente[j])

(* With an object store, a job that ends well or for review has every      *)
(* piece of its import proven there, or still says its outcome is unknown. *)
FinProuvee ==
  \A j \in Jobs :
    StockageConfigure /\ statut[j] \in {"completed", "needs_review"}
      => preuve[j] = "complete" \/ attente[j]

(* While a worker holds both claims of its job, nobody but an operator who *)
(* cancels changes the status of the row under it; the update of           *)
(* recover_stale_jobs, which looks at neither, is apart.                   *)
Possede(w, j) ==
  pc[w] \in PcTravail /\ JobDe(w) = j /\ claim[j] = w /\ par[j] = w

ProprietaireSeulEcrit ==
  [][\A w \in Workers, j \in Jobs :
       /\ Possede(w, j) /\ statut'[j] # statut[j]
       /\ pc'[w] = pc[w] /\ pcWeb' = pcWeb
       => statut'[j] = "cancelled"]_vars

(* Every step of the queue is a transition the lifecycle allows, or none.  *)
Cycle == INSTANCE CycleDeVie
RespecteCycle == Cycle!SpecCycle

(* An accepted job ends, and a failure tells why.                          *)
ToutJobAboutit ==
  \A j \in Jobs :
    Actif(j) ~> statut[j] \in {"completed", "cancelled", "needs_review"}
                \/ (statut[j] = "failed" /\ motif[j])

----------------------------------------------------------------------------
(* The inductive strengthenings of the safety invariants: what each stage  *)
(* of a worker knows of the import it has in hand.                         *)

PcAvantEnvoi == {"depile", "revendique", "execute", "verrou", "capture", "envoi"}

(* The serialised section: its holder owns the advisory lock, so no two    *)
(* workers are ever in it for one import.                                  *)
SectionSerialisee ==
  \A w \in Workers : pc[w] \in PcVerrouille => verrou[JobDe(w)] = w

EnvoiVide ==
  \A w \in Workers : pc[w] \in PcAvantEnvoi \/ pc[w] \notin PcTache => envoi[w] = ""

(* What each stage of the section knows of the publication.                *)
EtapeConnue(w) ==
  LET j == JobDe(w) IN
  /\ pc[w] = "capture" => ~attente[j]
  /\ pc[w] = "envoi" => attente[j] /\ incertain[j] = 0
  /\ pc[w] = "publication" => incertain[j] = IF envoi[w] = "" THEN 0 ELSE 1

IncertainBorne ==
  \A j \in Jobs : incertain[j] \in {0, 1} /\ (incertain[j] = 1 => attente[j])

InvPublication ==
  SectionSerialisee /\ EnvoiVide /\ IncertainBorne /\ \A w \in Workers : EtapeConnue(w)

(* No verdict before the result; the one of an owner, and its passage to   *)
(* review, are backed by what the import proves.                           *)
PcSansVerdict == PcAvantEnvoi \cup {"publication", "bilan"}

Etayee(j) == preuve[j] = "complete" \/ attente[j]

VerdictEtaye(w) ==
  /\ pc[w] \in PcSansVerdict \/ pc[w] \notin PcTache => verdict[w] = ""
  /\ pc[w] \in PcTache /\ par[JobDe(w)] = w =>
       /\ verdict[w] \in {"completed", "needs_review"} => Etayee(JobDe(w))
       /\ pc[w] = "excRevue" => attente[JobDe(w)]

InvVerdict ==
  StockageConfigure => FinProuvee /\ \A w \in Workers : VerdictEtaye(w)

(* A job whose row the web request has not inserted is known of nobody.    *)
DemandeConnue ==
  \A j \in Jobs : demande[j] = "libre" =>
    /\ statut[j] = "absent" /\ par[j] = Aucun /\ numero[j] = 0
    /\ j \notin candidats \cup orphelins /\ examineWeb # j
    /\ \A w \in Workers : j \notin aVerifier[w] /\ examine[w] # j

(* A row at work was marked when it was claimed.                           *)
LigneMarquee ==
  \A w \in Workers :
    pc[w] \in PcTravail /\ par[JobDe(w)] = w => statut[JobDe(w)] \notin {"pending", "absent"}

(* The jobs a sweep may still put back: those whose delivery it moved, and *)
(* the one it found in no processing list.                                 *)
Vise(w, j) ==
  \/ DansListe(decisions[w], j)
  \/ pc[w] \in PcExamen \ {"cas2traitement"} /\ examine[w] = j

(* The version a sweep read is never ahead of the row; and it is behind    *)
(* when a worker took the job since.                                       *)
VersionsVieilles ==
  \A w \in Workers :
    /\ pc[w] # "reprend" => decisions[w] = <<>>
    /\ \A j \in Jobs : versions[w][j] <= tentatives[j]
    /\ \A x \in Workers :
         pc[x] \in PcTravail /\ ClaimAMoi(x) /\ Vise(w, JobDe(x))
           => versions[w][JobDe(x)] < tentatives[JobDe(x)]

InvPropriete == DemandeConnue /\ LigneMarquee /\ VersionsVieilles

(* What a worker knows of the status of its job, as long as no error comes *)
(* after its outcome (ExceptionTardive).                                   *)
Soldes == {"completed", "needs_review", "cancelled", "failed"}
VerdictsFinis == {"completed", "needs_review", "cancelled"}
PcRejouable ==
  {"execute", "verrou", "capture", "envoi", "publication", "bilan", "exception", "excRevue",
   "excEchec", "relancer", "remettre", "enterrer"}
PcRendu == {"apres", "rendu", "acquitter", "clore"}

(* Before a result, or after one to retry, the row runs still, unless it   *)
(* was cancelled.                                                          *)
LigneVive(w) ==
  /\ pc[w] \in PcRejouable \/ (pc[w] \in PcRendu /\ verdict[w] \in {"failed", "upload_incomplete"})
  /\ par[JobDe(w)] = w
  => statut[JobDe(w)] \in {"running", "cancelled"}

(* A cancellation seen, or a final verdict, is that of the row.            *)
LigneSoldee(w) ==
  /\ pc[w] \in {"annulation", "annulationEcrit"} =>
       /\ statut[JobDe(w)] \in Soldes
       /\ par[JobDe(w)] = w => statut[JobDe(w)] = "cancelled"
  /\ pc[w] \in PcRendu /\ verdict[w] \in VerdictsFinis =>
       /\ statut[JobDe(w)] \in Soldes
       /\ par[JobDe(w)] = w => statut[JobDe(w)] \in {verdict[w], "cancelled"}
  /\ pc[w] = "acquitter" => verdict[w] \in VerdictsFinis

LignesTenues == \A w \in Workers : LigneVive(w) /\ LigneSoldee(w)

(* An error that no handler takes for what it is, because the outcome is   *)
(* already in the row: of the database once the result is written, or of   *)
(* the registry at the closing of a settled job.  Both send a settled job  *)
(* to the retries, or to the dead letters.                                 *)
ExceptionTardive(w) ==
  \/ PanneTardive(w)
  \/ pc[w] = "clore" /\ verdict[w] \in VerdictsFinis /\ ExceptionEchappee(w)

AucuneTardive == \A w \in Workers : ~ExceptionTardive(w)

SansExceptionTardive == [][AucuneTardive]_vars

(* As long as no claim of a live worker expires and Redis keeps its        *)
(* volume, a worker past its claim has it: one worker at most is on a job. *)
(* So the row that it settled stays so while it closes the delivery, and   *)
(* the delivery it put back to retry stays somewhere until it says so in   *)
(* the row, whatever call fails.                                           *)
PcExclusif == PcTache \ {"depile", "libere"}

ClaimGarde == \A w \in Workers : pc[w] \in PcExclusif => ClaimAMoi(w)

ResultatSolde(w) ==
  (\/ pc[w] \in {"annulation", "annulationEcrit", "acquitter"}
   \/ pc[w] \in {"apres", "rendu"} /\ verdict[w] \in VerdictsFinis)
  => statut[JobDe(w)] \in Soldes

Connu(j) == EnFile(j) \/ DansListe(morte, j)

RelanceConnue == \A w \in Workers : pc[w] = "remettre" => Connu(JobDe(w))

Exclusif == ClaimGarde /\ RelanceConnue /\ \A w \in Workers : ResultatSolde(w)

AucuneExpiration == \A j \in Jobs : ~ExpirerVivant(j)

SansExpirationVivante == [][AucuneExpiration]_vars
=============================================================================
