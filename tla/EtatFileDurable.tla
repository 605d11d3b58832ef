-------------------------- MODULE EtatFileDurable --------------------------
(***************************************************************************)
(* The state shared by the durable import queue of SEAMTECH Search: the    *)
(* Redis lists and claims (redis_store.py), the rows of import_jobs        *)
(* (jobs.py), the rows of imports and the advisory lock of one import      *)
(* (import_pipeline.py), and where each worker process stands in its loop  *)
(* (worker.py).  The handlers that read and write it are in                *)
(* BoucleWorker, TraitementImport and Reconciliation.                      *)
(***************************************************************************)
EXTENDS Integers, Sequences, SequencesExt

CONSTANTS
  Jobs,              \* job ids, import_jobs.id
  Workers,           \* worker identities (host-pid), claimed_by
  Aucun,             \* NULL: no owner, no lock, no delivery
  MaxTentatives,     \* config.max_task_attempts
  StockageConfigure, \* TRUE: an object store is configured
  SansCharge,        \* jobs whose manually selected file is gone
  PanneApresResultat \* TRUE: an exception may strike after the result is written

ASSUME HypMaxTentatives == MaxTentatives \in Nat \ {0}
ASSUME HypConfig ==
  /\ SansCharge \subseteq Jobs
  /\ StockageConfigure \in BOOLEAN
  /\ PanneApresResultat \in BOOLEAN

(* LREM with a count of 1.  Which of several equal payloads goes cannot be *)
(* told apart, the processing list being only searched.                    *)
Lrem(s, e) ==
  IF Contains(s, e) THEN RemoveAt(s, CHOOSE i \in 1..Len(s) : s[i] = e) ELSE s

(* A scan of a list for the deliveries of a job.                           *)
DansListe(s, j) == \E i \in 1..Len(s) : s[i].job = j

VARIABLES
  file,         \* seamtech:queue:imports, a list
  enTraitement, \* seamtech:processing:imports, a list
  relance,      \* seamtech:retry:imports, a sorted set: the due time is abstracted
  morte,        \* seamtech:deadletter:imports, a list
  claim,        \* seamtech:claim:imports:<job>, worker or Aucun
  statut,       \* import_jobs.status
  par,          \* import_jobs.claimed_by
  tentatives,   \* import_jobs.attempts
  motif,        \* import_jobs.failure_reason is not NULL
  attente,      \* imports.payload.publication_pending
  preuve,       \* what imports.payload.artifacts proves
  verrou,       \* advisory lock of the import, held by a worker
  incertain,    \* upload batches started whose outcome no row records (ghost)
  pc, livraison, verdict, envoi,                       \* a worker, in its loop
  versions, aVoir, decisions, aVerifier, examine,      \* a worker, reconciling
  demande,      \* the web request of each job: none, row inserted, answered 202
  numero        \* task_id issued so far, per job

redis    == <<file, enTraitement, relance, morte, claim>>
registre == <<statut, par, tentatives, motif>>
imports  == <<attente, preuve, verrou, incertain>>
tache    == <<livraison, verdict, envoi>>
balayage == <<versions, aVoir, decisions, aVerifier, examine>>
portes   == <<demande, numero>>

STATUTS_ACTIFS == {"pending", "running"}
Statuts == STATUTS_ACTIFS \cup
  {"absent", "completed", "failed", "cancelled", "needs_review"}

(***************************************************************************)
(* A delivery is one JSON payload of the queue.  task_id 0 stands for a    *)
(* payload without one: retry_task rebuilds the payload from the row.      *)
(* Payload equality is equality of these three fields.                     *)
(***************************************************************************)
Livraisons == [job : Jobs, task_id : Nat, attempt : Nat]

ASSUME HypAucun == Aucun \notin Workers \cup Jobs \cup Livraisons

Verdicts == {"", "completed", "needs_review", "cancelled", "failed",
             "upload_incomplete", "stale_worker"}

(* Those that close a job: the others are retried, buried or dropped.       *)
VerdictsClos == {"completed", "needs_review", "cancelled", "failed"}

(* What an upload batch came back with: every piece proven, some proven,   *)
(* a key without a proof, nothing written; "" before any batch.            *)
Envois == {"", "complet", "partiel", "ambigu", "rien"}
Preuves == {"aucune", "partielle", "complete"}

PcTravail == {"execute", "verrou", "capture", "envoi", "publication", "bilan",
              "apres", "annulation", "annulationEcrit", "exception",
              "excRevue", "excEchec"}
PcTache == PcTravail \cup
  {"depile", "revendique", "refuse", "rendu", "relancer", "remettre",
   "enterrer", "acquitter", "clore", "libere"}
PcBalayage == {"reprise", "reprend", "cas2", "cas2traitement", "cas2relance",
               "cas2arbitre", "cas2remettre"}
PcExamen == {"cas2traitement", "cas2relance", "cas2arbitre", "cas2remettre"}
PcLibre == {"arret", "depart", "boucle"}
Pcs == PcTache \cup PcBalayage \cup PcLibre

(* The versions a reconciler snapshots: -1 for a job it did not see active. *)
Version == Nat \cup {-1}

TypeRedis ==
  /\ file \in Seq(Livraisons)
  /\ enTraitement \in Seq(Livraisons)
  /\ relance \in SUBSET Livraisons
  /\ morte \in Seq(Livraisons)
  /\ claim \in [Jobs -> Workers \cup {Aucun}]

TypeRegistre ==
  /\ statut \in [Jobs -> Statuts]
  /\ par \in [Jobs -> Workers \cup {Aucun}]
  /\ tentatives \in [Jobs -> Nat]
  /\ motif \in [Jobs -> BOOLEAN]

TypeImports ==
  /\ attente \in [Jobs -> BOOLEAN]
  /\ preuve \in [Jobs -> Preuves]
  /\ verrou \in [Jobs -> Workers \cup {Aucun}]
  /\ incertain \in [Jobs -> Int]

TypeTache ==
  /\ pc \in [Workers -> Pcs]
  /\ livraison \in [Workers -> Livraisons \cup {Aucun}]
  /\ \A w \in Workers : pc[w] \in PcTache <=> livraison[w] # Aucun
  /\ verdict \in [Workers -> Verdicts]
  /\ envoi \in [Workers -> Envois]
  /\ \A w \in Workers : pc[w] \in {"apres", "rendu"} => verdict[w] # ""
  /\ \A w \in Workers : pc[w] \in {"acquitter", "clore"} => verdict[w] \in VerdictsClos

TypeBalayage ==
  /\ versions \in [Workers -> [Jobs -> Version]]
  /\ aVoir \in [Workers -> Seq(Livraisons)]
  /\ decisions \in [Workers -> Seq([job : Jobs, requeued : BOOLEAN])]
  /\ aVerifier \in [Workers -> SUBSET Jobs]
  /\ examine \in [Workers -> Jobs \cup {Aucun}]
  /\ \A w \in Workers : pc[w] \in PcExamen => examine[w] \in Jobs

TypePortes ==
  /\ demande \in [Jobs -> {"libre", "creee", "acceptee"}]
  /\ numero \in [Jobs -> Nat]

TypeOK ==
  TypeRedis /\ TypeRegistre /\ TypeImports /\ TypeTache /\ TypeBalayage /\ TypePortes

DansRelance(j) == \E d \in relance : d.job = j

(* Some delivery of j is in the queue, being processed or waiting a retry. *)
EnFile(j) == DansListe(file, j) \/ DansListe(enTraitement, j) \/ DansRelance(j)

Actif(j) == statut[j] \in STATUTS_ACTIFS

(* The job a worker has in hand, and the two halves of its ownership.      *)
JobDe(w) == livraison[w].job
ClaimAMoi(w) == claim[JobDe(w)] = w
EstProprietaireActif(w) == ClaimAMoi(w) /\ par[JobDe(w)] = w

InitFile ==
  /\ file = <<>> /\ enTraitement = <<>> /\ relance = {} /\ morte = <<>>
  /\ claim = [j \in Jobs |-> Aucun]
  /\ statut = [j \in Jobs |-> "absent"]
  /\ par = [j \in Jobs |-> Aucun]
  /\ tentatives = [j \in Jobs |-> 0]
  /\ motif = [j \in Jobs |-> FALSE]
  /\ attente = [j \in Jobs |-> FALSE]
  /\ preuve = [j \in Jobs |-> "aucune"]
  /\ verrou = [j \in Jobs |-> Aucun]
  /\ incertain = [j \in Jobs |-> 0]
  /\ pc = [w \in Workers |-> "depart"]
  /\ livraison = [w \in Workers |-> Aucun]
  /\ verdict = [w \in Workers |-> ""]
  /\ envoi = [w \in Workers |-> ""]
  /\ versions = [w \in Workers |-> [j \in Jobs |-> -1]]
  /\ aVoir = [w \in Workers |-> <<>>]
  /\ decisions = [w \in Workers |-> <<>>]
  /\ aVerifier = [w \in Workers |-> {}]
  /\ examine = [w \in Workers |-> Aucun]
  /\ demande = [j \in Jobs |-> "libre"]
  /\ numero = [j \in Jobs |-> 0]
=============================================================================
