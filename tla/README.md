# Formal models of SEAMTECH Search

SEAMTECH Search imports the folders of a sail loft (drawings, technical sheets,
spreadsheets), extracts records from them, keeps the originals in an object
store and makes everything searchable. This directory holds TLA+ models of the
parts of the server whose correctness depends on the *order* of things: workers
that die, claims that expire, uploads that are cancelled while files still
arrive, a Redis that comes back empty. Paths below are relative to the repository root; every definition of
a model names its lines of code in `PROJECT.json` ("map").

How to run: `tlc -config panne.cfg MCFileDurable`, `tlapm Import_preuves.tla`.

## 1. Inventory

### 1.1 Import queue (modelled)

| part | state | operations |
|---|---|---|
| `redis_store.py` | lists `queue`, `processing`, `deadletter`, sorted set `retry`, claims `claim:imports:<job>` (TTL 300 s) | `enqueue_task`, `dequeue_task` (BLMOVE), `revendiquer_livraison`, `ack_task`, `retry_task`, `deadletter_task` (Lua, guarded by the claim), `process_retry_queue`, `reprendre_taches_orphelines`, `enqueue_task_si_absent`, `replay_deadletters` |
| `jobs.py` | a row of `import_jobs`: `status`, `claimed_by`, `attempts`, `failure_reason` | `create_job`, `cancel_job`, `marquer_job_claim`, `remettre_en_file`, `terminer_job`, `update_job`, `recover_stale_jobs` |
| `worker.py` | the loop of each worker, its heartbeat thread, its sweep | `worker_loop`, `process_import_task`, `reconcilier_file` |
| `import_pipeline.py` | `imports.payload` (`publication_pending`, `artifacts`), one advisory lock per import | capture, intention, upload, publication |
| `api.py` | the request of a job (row inserted, then pushed) | `create_import`, cancellation, replay, start-up recovery |

A route inserts the row, then pushes the delivery. A worker moves the delivery
to `processing`, claims the job in Redis, then in the database, runs the import,
and finally closes the delivery (ack, retry or dead letter) and settles the row.
Sweeps, run by every worker at its start and every few minutes, take the
deliveries of dead workers and re-enqueue the active rows known to no list.

Hard behaviour: a worker may be killed, or stall past its claim, between any two
of these steps; the queue and the row are two stores with no common transaction;
an upload may succeed with its answer lost; a user may cancel at any time.

### 1.2 Lots (modelled)

| part | state | operations |
|---|---|---|
| `fiches/depot.py` | `lot_import` (`statut`, counters), `lot_dossier` (`statut`, `cle_idempotence`, `id_fiche`), records | `creer_lot`, `executer_lot` (`reprendre`, `deposer_dossier`, `_lier_rejeu_objets`, `_enregistrer_echec`, `_maj_ligne`, `_rafraichir_compteurs`), `annuler_lot` |
| `worker.py:428-613` | the job of the lot | `acquerir_claim_job`, `doit_continuer`, verdict, `terminer_job` |
| `fiches/routes.py:2366-2520` | | creation of a lot, cancellation by a flag in Redis |

A lot lists the folders under one root; a worker deposits them one by one. Each
folder and the lot are written in transactions of their own, each of which first
takes the job row `FOR UPDATE` and refuses a worker that no longer owns it
(`_verrouiller_claim`). A treated folder carries a key (path and fingerprint of
its PDF) that a partial unique index keeps unique among treated rows.

Hard behaviour: a takeover while the former owner still analyses a folder; two
lots that reach the same document at once; a flag raised between any two steps;
an error after a commit; a verdict read from counters that lag.

### 1.3 Upload sessions (modelled)

| part | state | operations |
|---|---|---|
| `fiches/televersement_lot.py` | a row of `creations` (SQLite: token, was the first manifest written); a directory per session: `session.json`, `session.lock`, `.tmp`, received files, `promotion-objets.jsonl` | `creer_session_televersement_lot`, `recevoir_fichiers_televersement_lot`, `etat_session_televersement_lot`, `terminer_session_televersement_lot`, `annuler_session_televersement_lot`, `creer_lot_session_televersement`, `promouvoir_session_televersement_objets` |
| `fiches/depot.py` | the lot in PostgreSQL, records | `creer_lot`, `_preparer_objets_lot`, `_supprimer_copies_rejeu` |
| object store | copies, each with its key | `upload_file`, `verifier_integrite` |

A browser opens a session for an announced number of files and bytes, sends the
files in several requests, has the session completed, then asks for a lot. The
worker of the lot copies every file to the object store before it deposits the
folders. Every request but the creation works under one lock per session; the
state is a directory, hence a set of files that no transaction ties together.

Hard behaviour: requests are repeated and meet (a client asks again what got no
answer); a process dies between two writes; a cancellation removes the
directory, its lock included, entry by entry; the lot is committed in PostgreSQL
and its association to the session in a file; a copy may be damaged on its way,
or its answer lost.

### 1.4 Records and requests (modelled)

| part | state | operations |
|---|---|---|
| `fiches/routes.py`, `corrections_canoniques.py` | `fiche` (`statut`, `revision`, lock of its corrections), the trace of extraction, canonical rows | correction, validation, rejection, reopening, `reconcilier_fiche_dans_transaction` |
| `fiches/persistance.py` | the same rows | the deposit that extracts a document again |
| `approbations.py` | `approval_requests` | creation, cancellation, decision and execution, download and its expiry |
| `accessoires.py`, `extractions_voile.py` | the family of a record, `sail_extractions`, `accessory_extractions` and their corrections | classification by a deposit or a human, corrections and links of a projection |

Every writer is one transaction at READ COMMITTED, and most read before they
lock. Hard behaviour: two operators on one row, a deposit that extracts a
document again under the operator who corrects it, two approbateurs and the
author on one request.

### 1.5 Boat models, links, comparisons (modelled)

| part | state | operations |
|---|---|---|
| `referentiel_bateaux.py` | `boat_models`, `boat_model_aliases`, history of merges, boats of records | creation of a model, learning of a label, merge, unmerge |
| `liaison_voile.py` | link of an extraction to a model, and who decided it | batch resolution, correction of a label, human link |
| `dedup/`, `comparaison_voile.py`, `confiance_reutilisation.py` | `fiche_lien`, `evaluations_confiance` | scan of duplicates, banner of a record, comparison of two sails, confidence |

Hard behaviour: merges that cross (a chain that turns on itself, a label that
leads nowhere); a batch that chose its rows before a human decided; a computation
over rows read in several statements while they move.

### 1.6 Files, catalogue, objects, backups (modelled)

| part | state | operations |
|---|---|---|
| `crawler.py`, `indexer.py` | `documents` | the scan: manifest, walk, upsert, removal |
| `import_pipeline.py` | imports and their captures | publication of captured documents, retry of the upload, corrections of a published import |
| `fiches/promotion.py`, `fiches/depot.py` | object keys of documents | deposit, promotion, resumed promotion |
| `purge_locale.py` | local copies | removal against a proof read again |
| `fiches/routes.py`, `api.py`, `fichiers_securises.py` | | opening a piece, a path, the source of an import: local, object or redirect |
| `sauvegarde.py` | bundle, manifest, base and bucket restored into | `sauver` with references, `restaurer_complet`, qualification |
| `sauvegarde_planifiee.py`, `etat_exploitation.py` | files of each generation, copies off site | planned backup, state announced |
| `migration_securee.py`, `indexer.py`, `schema_metier.py` | registry of migrations, dumps | start on an old schema, rebuild, `avant`, `apres`, `rollback` |

The disk, the database and the bucket are three stores that no transaction
spans. Hard behaviour: what was read of one is stale when the other is written;
a backup copies files one by one while everything goes on; a script compares
reads made one after the other.

### 1.7 Reading documents (modelled for its control)

| part | state | operations |
|---|---|---|
| `ocr/moteur.py`, `ocr/pipeline.py`, `ocr/reconnaissance.py` | a slave process, a thread that reads it, a queue | start, page, delay, replacement, fall back |
| `ocr/cli.py`, `ocr/etat.py` | lock file, list of what was treated, pages in the database | night runs, killed and taken over |
| `fiches/extraction.py`, `gabarits.py`, `reprise.py`, `depot.py` | the record being read, its traces | detection of a template, its rules in order, choice of the PDF of a folder, record of a folder without a record |

Hard behaviour: answers that come late and do not say what they answer; a run
killed between a mark and a row; rules that write over each other's attributes,
one of which may raise half-way.

### 1.8 Doors, accounts, journal, search (modelled)

| part | state | operations |
|---|---|---|
| `comptes/`, `securite_requetes.py`, `sessions_redis.py` | account, failures, sessions in PostgreSQL and in Redis | lock, login, use of a session, revocations, role, from a route or the command line |
| `api.py` | files received, job and import executed by the web process, requests counted | upload, confirmation, synchronous or threaded import, cancellation, state announced, rate limit |
| `audit.py` | `audit_log`, the chain of `audit_logs` | record, migration of the history, pruning |
| `recherche.py` | records and texts of documents | search, filters, facets, following a facet |

### 1.9 Not modelled

| what | why |
|---|---|
| words, images, regular expressions, geometry of pages (`pdf_orientation.py`, `pdf_vue_graphique.py`, `lexique.py`, `normalisation.py`, the inside of each rule of a template) | conversion of data without concurrent state; `Lecture` draws what they may answer |
| assistant, machine learning, ranking and suggestions of the search | numeric scores and prompts |
| quality pages, lists, pagination, inventories | they read and count |
| `retention.py` but for the journal, `appliquer_retention`, `copier_data` | removal by age with no proof to keep; their guards are noted in section 4 |
| settings, printing of the command line, cookies, the front end | no state of their own |
| job mirror in Redis, synchronous lots, lots in process memory | informational, or the same steps without a queue |
| the reindexing script | one transaction of statements modelled in `Referentiel` and `Recherche` |

## 2. Modules

| module | models |
|---|---|
| `EtatFileDurable` | variables, types and initial state of the queue |
| `BoucleWorker` | routes, `worker_loop` and the Redis scripts it calls |
| `TraitementImport` | `process_import_task` and the publication protocol |
| `Reconciliation` | sweeps, `recover_stale_jobs`, replay of dead letters |
| `FileDurable` | composition, environment, fairness, properties |
| `CycleDeVie` | abstract specification: the life cycle of one row, as `jobs.py:524-545` states it |
| `MCFileDurable` | instance for TLC |
| `Lots`, `MCLots` | `executer_lot`, `_process_lot_task` and the routes of lots, their environment and properties |
| `EtatTeleversement` | variables and initial state of one upload session, its lock, the reconciliation of a manifest with the disk |
| `SessionTeleversement` | the requests of clients |
| `PromotionObjets` | the promotion to the object store and the deposit that follows |
| `Televersement` | composition, faults, properties |
| `TransfertAnnonce` | abstract specification: what a session promises its client |
| `MCTeleversement` | instances for TLC |
| `ArchiveDeConfiance` | abstract specification: what a record promises those who rely on it |
| `Fiches` | the writers of a record |
| `Approbations` | the requests an approbateur decides, over `Fiches`; the properties of both and the refinement of `ArchiveDeConfiance` |
| `Referentiel` | models, labels, merges, boats and links |
| `Catalogue` | the disk, the catalogue and the bucket with those who write there |
| `Pieces` | opening a document, over `Catalogue` |
| `Sauvegarde` | backup with references and coordinated restoration, over `Catalogue` |
| `Stockage` | all the actors of the three stores, their properties |
| `Services`, `MCServices` | `Approbations`, `Referentiel` and `Stockage` in one specification, and its instance |
| `MoteurOCR`, `NuitOCR` | the OCR of one file; the night runs |
| `Lecture` | a folder read: templates, rules, choice, reprise |
| `Projections` | family and projections of a record |
| `Corrections` | what is done to a published import |
| `Planification` | planned backups |
| `Audit` | the journal |
| `Schema`, `MigrationSecurisee` | start on an old schema; the script around a change of version |
| `Recherche` | search and facets |
| `Comptes` | accounts and sessions |
| `Entrees` | the doors of the web process |
| `Analyses` | duplicates, comparison, confidence |
| `Taches`, `MCTaches` | the thirteen modules above from `MoteurOCR` on, one at a time, and their instance |
| `*_preuves` | TLAPS proofs |

### 2.1 Correspondence

A worker's `pc` names the call it is about to make, so that every Redis script
and every SQL transaction is one step and anything may happen between two of
them. `livraison` is the payload in hand: job, task id, attempt. Two payloads
rebuilt from the row carry no task id and are *equal*, as their JSON is: LREM
and the retry set then merge them, and the model keeps that. `verdict` is the
dict `process_import_task` returns. `envoi` is what the upload came back with:
complete, partial, ambiguous, nothing. `versions`, `aVoir`, `decisions`,
`aVerifier`, `examine` are the local variables of `reconcilier_file`, read at
one step and used at later ones. `incertain` is a ghost: batches started whose
outcome no row records.

Abstractions: due times of retries (a retry is due at any time); the heartbeat
(a live worker keeps its claim except for `MaxExpirations` stalls; the claim of
a dead one expires); the contents of an import, reduced to what its artifacts
prove; the Redis mirror of job rows, which nothing decides on. The transaction
of a publication holds the row `FOR UPDATE`, so that check and write are one
step. With an
object store a job never becomes `completed`: the code asks for a review
(`import_pipeline.py:1722-1728`), and so does the model.

In `Lots`, `pc` names the transaction or the look at a store that comes next in
`executer_lot`; `SousClaim` is `_verrouiller_claim`, `JusquAuCommit` the second
look at the Redis claim inside the transaction. `depots`, `createurs` and
`apresAnnulation` are ghosts: records written for a folder, folders that created
one, and folders settled since the cancellation. `drapeau` has a middle value because the
route reads the state of the lot first and raises the flag later. Abstractions:
a lot has one job, hence one delivery, which is closed or swept in one step (the
steps inside are those of `FileDurable`); a deposit writes its row at its end,
since everything before is rolled back with it; whether the pieces of a known
document are the same, modified or gone is a choice of the environment; folders
are listed once; the flag (TTL 24 h) does not expire.

In `Televersement`, one session and any number of processes. `verrou.tenant` is
who holds the lock of the lock files now in the directory: SQLite and `fcntl`
locks are both needed to enter, so they are one, which vanishes with the file.
A process whose lock file was removed still works; that is `Rendre`, which gives
back only what is still held. `greffe` is the write lock of the registry between
the making of the directory and its commit. `lu` is the manifest a request read
at its beginning and saves at its end, `reste` what a loop has still to do,
`tampon` the lines of the journal not yet flushed. A file's contents stand for
its bytes, so equal contents are equal fingerprints; the key of a copy is its
rank among the copies of the same path, since the code takes the next free key.
`rmtree` takes the entries of a directory in any order, since `os.scandir` promises
none. `Versions` limits what clients send. `accuses`, `lotsRendus`, `annulation`,
`promu` are ghosts: what was answered. So is `intrus`: a request entered a session
under a removal that had deleted its lock and not yet its manifest.

Abstractions: requests refused before they write have no action; the state and
completion routes hold the lock all along and are one step; the upload of a copy
and its reading back are one step; the deposit of a folder is a step that only
settles it, and removes its files when the record existed (its inside is
`Lots`). Left out: creation without a key, paths as text (normalisation,
symbolic links), limits of size and of space.

In `Fiches`, `Approbations`, `Projections` and `Referentiel` a transaction is two
steps: what it reads, holding the row locks the code asks for, and what it
writes up to its commit; a write waits for the rows another one holds. `ecran` is
what an operator has before him, so that a decision can be compared with it. A
record has one field with a canonical target. In `Referentiel` a model is known
by the label of its key, since the table has it unique.

In `Catalogue` a file has bytes and a date, a row the date, the bytes its text
came from and the identity of captured bytes; `pertes` counts objects that went,
at any moment. A purge reads the file, the object, then the file once more, and
unlinks whatever the path has become: four steps, with writes and losses between any
two. `luLe` and `perdus` are ghosts of the purge of an import: the date of that last
reading, the losses counted when the object was read.
`ouverture` (`Pieces`) is what one reader read of the row before it opens bytes,
with `captures` what published imports captured of it. `sauvegarde`, `manifeste`,
`bundle`, `restauration`, `seau` (`Sauvegarde`) are one generation and what is made
of it. `presents` (`Stockage`, `Services`) is the set of actors of a behaviour: all
behaviours of two actors are in the run, not those of three.

`tache` (`Taches`) is the one task a behaviour is about. The tasks write in tables
and folders of their own, so a behaviour of all of them is an interleaving of
behaviours of each, and every property speaks of one.

In `MoteurOCR` a line of the queue knows its page and its slave only for the
property; the parent cannot see them. In `NuitOCR` the three steps of the lock
(look, remove, write) are three; a save of the list may fail without a word or
leave half a file, which the next night cannot read. `perdus` is a ghost of a night,
the prints its saves left out, and so are `doublee` (another was at work when it
began) and `pressee` (another was taking the lock when it was launched).
`Corrections` lets the database drop the lock of a connection (`verrousPerdus`), as the code has no fencing. `Planification` has the
state of each file of a generation: absent, cut short, whole. In `Audit` an event
takes the lock of the chain, reads the head and commits in steps. `Schema` keeps for
each process the rows of the registry it read and what it did not commit.
`Recherche` makes one step of each statement; `suivie` is the facet the operator
follows. In `Comptes`, `juste` says whether the password a client typed still is the
account's; `dejaRevoquee` and `tenus` are ghosts: whether the session was revoked
when the request came, the roles the account had since. `porte` (`Entrees`) and
`volet` (`Analyses`) choose which of several tables a behaviour is about.

In `Lecture`, a value is the rank of the rule that read it, and `champs` the traces
the validation screen shows; `page` is the PDF being read, `lus` what the PDFs gave,
`plan` what `scanner_dossier` returns. What the words say is drawn: whether a rule
finds its anchor, its value, or raises; which parts of a line are recognised; which
class the page has. A group of bands, seams, finishings or reinforcements is one
attribute. The rules that fill a group share one definition when they differ only
by the words they look for.

Abstractions there: one account, one record or two, one document or two, contents
as values; the content of a report is the data it was made from; dates are counted
by `MaxDates`; thresholds of `Analyses` are reduced to 1, which is where they bite.

The slips at hand in the modules (`...Sans...`, marked "Slip") are plausible
mistakes in the same place: each property is shown to fail under one of them.

## 3. Runs

| run | question |
|---|---|
| `panne` | one of two workers is killed anywhere: is a delivery lost, an import sent twice? |
| `expiration` | a claim expires under a live worker: does the deposed one publish or settle, does the row leave its cycle? |
| `environnement` | one worker and one of every other fault, a late exception, a replay, a start of the web process (`recover_stale_jobs`) in the middle: is a good end proven? |
| `aboutit` | liveness, one worker that dies, Redis emptied |
| `lots` | one lot of two folders, one unreadable, two workers, an expired claim, a failed call, cancellations: is a folder deposited twice, one forgotten, the flag ignored? does the lot end? |
| `deux_lots` | two lots with one document, two workers, one killed, an error after a commit: is a second record made, but for a folder marked as failed? |
| `televersement` | two processes serve all requests of one session, one crash, removals in any order: is a received file lost, a cancelled session back, a client told of two lots? |
| `promotion` | the same with promotions, a damaged file or copy, and folders that already have a record: is the lot whole, a key trusted without proof, a journal stuck? does the session keep its promise? |
| `services` | records, models and files, two actors at a time in every pair that meets: does the archive keep its promise, does a label lead to one live model, is a byte lost or served for another? |
| `taches` | thirteen tasks, one at a time with its own two actors: does each keep what it announces? |

| property | states |
|---|---|
| `AucunePerte` | an active job once pushed is in some list as long as Redis kept its volume |
| `PasDeRenvoiAveugle`, `SectionSerialisee` | no second upload while the first is unaccounted for; one publication of an import at a time |
| `FinProuvee` | a good end is backed by proofs or by the recorded uncertainty |
| `ProprietaireSeulEcrit`, `RespecteCycle` | nobody writes over an owner; refinement of `CycleDeVie` |
| `ToutJobAboutit`, `LotAboutit` | every accepted job, every lot ends |
| `JamaisRefait`, `UneFicheParCle` | a record is written once for a folder; once for a document, or else a folder that had made it was marked as failed afterwards |
| `ArretEntreDeuxDossiers`, `FinSansReste` | after a cancellation the folder in hand is settled and no other; a good end leaves nothing waiting |
| `AccuseTenu`, `UnSeulLotRendu`, `AnnulationDefinitive` | a file acknowledged stays, on disk until the deposit of a known folder removes it; clients hear of one lot; nothing comes back after a cancellation was answered |
| `LotComplet`, `PromotionTenue`, `TientSaPromesse` | a lot has its files, on disk unless a request intruded under a removal; a key kept was proven, no crash leaves a journal refused for ever, a promotion said done is; refinement of `TransfertAnnonce` up to such an intrusion |
| `RespecteArchive` | refinement of `ArchiveDeConfiance`: every change moves the revision, a validated record keeps its values, a human value is replaced by a human only |
| `DecisionSurCeQuiEstLu`, `UneSeuleExecution` | a decision applies to what its author had on the screen; a request is carried out once, while pending, by another than its author |
| `EtiquetteSure`, `LiaisonHumaineTenue` | labels lead to one live model and merges do not turn on themselves; no batch decides again what a human linked |
| `CaptureGardee`, `PurgeSansPerte` | the row of a captured document keeps its identity; a copy is removed when the bucket has its bytes, but for a write after its last reading or a loss after the remote one |
| `SauvegardeFidele`, `ServiConforme` | a backup said whole is, and gives back what it holds; the bytes served are those of the identity asked for |
| `TexteDeLaPage`, `PagesUneFois` | a text is published for the page it was read on; pages are inserted once, unless a save lost their print or two nights worked together, which takes two that were launched together |
| `CategorieDecidee` | no deposit takes back the family a human decided |
| `RapportDesDonnees`, `CorrectionGardee` | the report served is that of the data recorded; no retry writes back old data |
| `CopieAnnoncee` | when no backup is due, the last one is whole and its remote copy is the dump |
| `ChaineLineaire` | each row of the journal names the row just before it |
| `MigrationsSures` | what is recorded as migrated is there in full; a way back declared right gives the rows that were in service |
| `FacetteTenue` | following a facet finds as many records as it announced, up to the depth of a source, unless one changed |
| `RevocationEffective` | no request that comes after a revocation is accepted, nor acts with a role lost before |
| `EntreeHonnete` | an upload told received is whole, a state announced is true, an error told leaves nothing uncertain, no window holds more than the limit |
| `AnalyseTenue` | links, comparisons and scores speak of rows that held what is said |
| `LectureTenue` | each attribute of a record has a trace of its value; the folder gives the record it should and is refused for a reason |

Bounds of the queue: one job, one or two workers, two attempts, and each fault
counted by a constant of its own (`MaxPannes`, `MaxErreurs`, `MaxExpirations`,
`MaxPertes`, `MaxDemarrages`, `MaxRejeux`; `MaxBalayages` bounds the sweeps of
safety runs, 0 is no bound). Two workers are needed for a takeover and two suffice
since a sweep acts for any dead one; two attempts reach retry, then dead letter;
one fault of each kind meets every interleaving of a pass. Jobs interact only
through the lists, whose order decides when a delivery is taken and not what is
done with it; what one job leaves out, a worker busy with another and the reconciler
that looks at several rows, is in the theorems of section 5, which hold for any set
of jobs. `aboutit` has one worker and no expiry: that two workers never both give up
a job is not checked. Its job has its selection; with `SansCharge = {j1}` the same
run shows a job without one end too.

`RespecteCycle` runs with `MaxErreurs = 0` and without a late exception: after an
error that comes late the code itself leaves the cycle (section 4); section 5 proves it
for all other errors.

Lots: two folders are the fewest with a "between two folders"; one of them
unreadable makes failures and counters matter; two workers make a takeover. The
second lot only meets the first through the key of a document, so one folder
each is enough there. One error may come after a commit: the key is then free
again (`dv_lot_traite`), and `UneFicheParCle` says that nothing else frees it.

Sessions: two processes, since the lock keeps one at work and the other is the
one that comes at the wrong time; two files announced of three that may come, the
third colliding with each of the others in its own way, and two versions of the
first; one crash; one altered file or copy; two copies per file, so that a key
changes. `televersement` has two lots, so that the second can exist, and runs without
promotions; `promotion` has one lot and no third file: the requests before a lot and
those after it meet only through the manifest. Its two files are interchangeable, both
in folders that already have a record (`DejaConnus`), whose deposit removes them;
a deposit that removes nothing is in the theorems. Both runs take the entries of a removed
directory in any order. Without the excuse of `intrus` TLC refutes `LotComplet` and
`TientSaPromesse` at once (section 4.1). No liveness is claimed of sessions:
a client may stop at any time and nothing in the code ends a session by age.

`services`: the behaviours of each pair of `Acteurs` (`MCServices`), the pairs
that share a row or a file. One record and `MaxRevision = 3` (a decision, a
reopening, a decision) with `MaxSimultanes = 2` writers at work; one request; three
labels, the fewest for a chain of merges, and `MaxFusions = 2` for two merges that
cross; one file with `MaxDates = 2` writes, `MaxCles = 2` keys (a key taken makes
the next one), `MaxPertes = 1` lost object. `FichesAnciennes` and
`AdressePublique` turn on the oldest records and the redirects. Operators, clients
and connections are the same two model values, and so are field values, labels
and bytes: no behaviour has two of these at work, and one symmetry is sound for all.

`taches`: `NbPages = 5` with one page that has a text of its own (`Natives`) outlasts the
slaves the engine may start; two nights and two documents; `MaxCorrections = 2` and
one lock lost (`MaxPertesVerrou`); three generations (`MaxGenerations`) and an age of
two (`Intervalle`), so that one is old while another is not; two events and two
processes that migrate; three migrations (`NbMigrations`), of which two concern documents
(`SurDocuments`); two records found and a
source cut at `Profondeur = 1`, since a source must hold more than the depth for a facet to count
what a page cannot show; one session, two clients and a failure (`MaxEchecs`); names
that differ by case, three sends (`MaxEnvois`), a window of two seconds with a limit of two over
`MaxInstant = 4`; a base of `MaxLignes = 2` rows with `SeuilEmpreinte = 1`, so that one
table is fingerprinted and another is not, and one version to install; three records and two fingerprints, hence
pairs that share twice; the thresholds of a score at 1 instead of 5, 3 and 2; a folder of two PDFs (`NbPdfs`),
the second named like a record, and templates made of the rules of the embedded
ones in their order (`GabaritsEmbarques`).

Deadlock is not checked: the system stops when every job is settled and the
bounds are spent.

Fairness (`Equite`): `worker_loop` is a single thread that never stops inside a
pass (WF on `Avancer`); each pass sweeps when due, promotes retries and
dequeues, so what is enabled at each return to the head is done (SF); Redis
expires the claim of a dead worker by itself; the service manager restarts
workers (`worker_service.py`). Nothing is assumed of users nor of faults.
`Lots!Equite` is the same on its reduced queue: WF on what a worker has begun,
SF on taking the delivery of a lot, since a worker may be busy with another lot,
WF on the sweep and on the expiry of a dead claim. `services` and `taches` claim
no liveness: each of their operations is a request that may simply not come.

## 4. Disagreements between the code and what it says

| run | what |
|---|---|
| `dv_lot_traite` | an error after the commit of a deposit turns the treated folder into a failed one, without its record and its key |
| `dv_texte` | on PostgreSQL a second scan empties the text of the files it found unchanged |

### 4.1 Seen in a model, without a run of its own

Queue and lots. `recover_stale_jobs` looks the
queue up, then updates, and marks failed a job put back meanwhile (`jobs.py:493`
against `jobs.py:422`). The handler of late exceptions writes `running` over
`needs_review` (`worker.py:416`), which is why `RespecteCycle` runs without it. A
job whose upload has an unknown outcome ends `failed` when a sweep buries it
(`worker.py:711`), against `import_pipeline.py:1729-1732`. A replayed dead letter
keeps the row it had, and is refused for ever (`redis_store.py:1113`). An expired
claim lets two workers acknowledge the same task identifier
(`redis_store.py:1043`); a late error after the acknowledgement leaves the row
`running` until a sweep (`worker.py:1323`), and with an expired claim besides, active
with no delivery in any list. Attempts are counted by the delivery
(`worker.py:1270`), so that duplicates and an emptied Redis start them again. The
reconciler does not look at durability and may enqueue a job that a thread of the
web process runs (`worker.py:727`).

Upload sessions. When `rmtree` meets
`session.lock` before `session.json`, a request makes a lock of its own and a
lot can be created while the files go, against `docs/API.md:539` ("une annulation
concurrente attend puis est refusée"). This is what `intrus` excuses in `LotComplet`
and in `TientSaPromesse`: remove it from either and TLC shows the lot. After a crash between the promotion of files and the save of the
manifest, a path that differs only by case from a file on disk is accepted,
since case is looked up in the manifest (`televersement_lot.py:659`). A crash between the commit of
a lot and its association to the session makes the next request create a second
lot (`televersement_lot.py:862`). The copies of a replayed folder are removed
although the manifest lists them, and no later pass of the lot can prepare its
files (`depot.py:1297`).

Files. A reader redirected to the store may receive other bytes than those of the row: a deposit
reads a file, its user rewrites it, the promotion sends what it has become and
`maj_document` sets the key beside the older identity; the comment of `open_path`
(`api.py:843-856`, "L'objet est donc CES octets") admits the date of its proof. Listing the
pieces of an old record catalogues its file without a text and without an
identity (`fiches/routes.py:1499-1548`): the scan then finds it known, an import of
it is in conflict, and its deposit is refused. A purge unlinks a file rewritten after its last
hash (`purge_locale.py:275` against 281), and the last copy of bytes whose object went
after the remote reading (262 against 281): `PurgeSansPerte` says that these two windows
are all. The qualification of a restoration
passes when objects written by somebody else take the keys (`sauvegarde.py:1463`
against 1429-1433 and 1446-1447); data copies are overwritten by the next backup of
the same folder, against the comment at `sauvegarde.py:1654-1658`. A planned backup that fails after its manifest is written is not
tried again before the interval is over, where `sauvegarde_planifiee.py:88` and `:100` announce a
new try at the next pass.

Reading. An OCR slave that starts after `_DELAI_AMORCAGE_S` has its "pret" taken for that of its
successor, and later answers are one page late (`ocr/moteur.py:120-122`,
`docs/OCR_MOTEURS.md:66-68`): `TexteDeLaPage` supposes that slaves start in time. The end of a
reader's thread puts a marker in the shared queue that condemns the live slave. Two nights that
meet on an abandoned lock both enter (`docs/OCR_ETAGES.md:118`, `:174`); a save of the list
that fails says nothing (`ocr/etat.py:229-240`), the pages are stored all the same
(`ocr/cli.py:351-396`) and stored again by the next night, since their table has no key; a list that
cannot be read is started anew, with the same effect. `PagesUneFois` says that pages are
inserted twice in these cases only. The print is
marked before its pages are stored (`docs/OCR_ETAGES.md:176`), and a file is marked with an engine
absent or after `--pages` read a part of it.

Records and accounts. A correction of a projection accepted between the count of corrections and the removal of the
projection is lost with it (`accessoires.py:994-1000` and `docs/PLAN_DIRECTEUR_V2_LOT7.md:42-45` say
that no human work is). A
reconciliation of a validated record changes its canonical data. A record set
`supprimee` comes back when its document is extracted again
(`fiches/routes.py:770-774`). A login under way during a change of password opens its session
afterwards. A link or a boat may be written to a model merged meanwhile, until
the next reading follows the merge; a merge and an unmerge that cross are only
stopped by a CHECK of the table (`schema_metier.py:1664`).

Doors and analyses. A synchronous import answers an error when the database cannot be read after a
publication (`api.py:1022-1036`). The rate limit is that of one process without Redis,
and does not limit while a configured Redis does not answer. An applied scan of duplicates counts a pair once that the dry run
counts for each document shared (`dedup/routes.py:75-90`). A comparison reads its two
rows in two statements; confidence accepts two unread types where comparison
refuses them; links of duplicates are never removed.

Migrations. The fingerprint of a table is not compared when it is too large or empty on one side; the counts after
an installation hide a loss made up for by an addition.

### 4.2 Seen in reading

Documents. `docs/FILE_DURABLE.md` section 5 describes a
cancellation flag in Redis (the code cancels in the database only); it says
that a lost Redis needs imports to be started again (`reconcilier_file`
re-enqueues them); `create_import` answers 202 `durable` although the push to
Redis failed; `worker.py:1264` calls `max_task_attempts` the total of tries; a comment of `reconcilier_file` announces keyset pagination
where the code uses OFFSET (`jobs.py:891`). When the
job of a lot cannot be created, the same request answers `deja_cree` ever after
and the job is never made (`fiches/routes.py:2333-2345`). The route of a
cancellation answers from a state read before (`fiches/routes.py:2505`). The lock of
an account is read before the failure is recorded (`comptes.py:414`), so that
parallel logins try a few more passwords. For lots: a pass cut between the failure of the last
folder and the refresh of the counters leaves `nb_echecs` at 0, and the next pass
closes the job `completed` where `tests/test_file_durable_operations.py:878-888`
expects a review; every first pass marks its lot `relance`; cancelling the job of
a lot that still waits leaves its `lot_import` `en_cours`. Two batches of
validations in opposite orders may deadlock.

Reading a folder. In the template of downwind sails the rules of the three bands share one
group (`gabarits.py:159-161`, and the seams 162-165), and a rule is skipped when its group
has a value (`extraction.py:3214-3231`, `3254-3256`): once the band of the luff is
read those of the leech and the foot never are, and since their anchors count as
consumed `_collecter_libres` does not keep them either. A rule that raises still
claims its anchors; the model lets it raise before it writes or after its traces, not
between a value and its trace inside one rule (`extraction.py:2831-2853`). The dimensions of a grid without template and those of
a reprise are written without a trace. A deposit takes the fingerprint of the PDF
after having read it: a file rewritten in between gives the record of one content
under the identity of the other. The data of a reprise come from the first sheet
that is read, its document is the first that is classified. A folder with no
candidate and an uncertain orientation still tries the reprise, one with
candidates that cannot be chosen does not.

Search and start. Facets ignore records found by trigrams, synonyms, models or vectors, and count beyond the hundred that a
source returns; above ten values an interval is half open where its filter is
closed. Two processes that start together may leave the configuration of accents to its
fallback (`indexer.py:562-632`); the stale lock of a SQLite scan may be removed by two (`indexer.py:1809-1851`).
Retention of backups never removes one in practice (a copy is never `complet`);
`prune_reports` and `prune_staged_uploads` are suspended.

## 5. Proofs

Every theorem holds for any sets and any bounds, under the named assumptions of
the modules. They say three things: bounds are numbers (`HypMaxTentatives`,
`HypBornes`, `HypBornesLots`, `HypBornesTeleversement`, `HypVersions`,
`HypMigrations`, `HypAnalyses`, `HypContenus`, part of `HypRecherche`, `HypEntrees`, `HypCatalogue`,
`HypotheseLecture`); the records, paths, labels of an instance are finitely many
where something is counted or folded (`HypRecherche`, `HypFichiers`,
`HypReferentiel`); and a marker such as "absent" is none of the values it stands
beside (`HypAucun`, `HypAucunLot`, `HypAbsent`, `HypStructure`, `HypPersonne`,
`HypRien`, `HypNeant`, `HypVide`, `HypSans`, `AucunEstApart`, `HypReferentiel`,
`HypCatalogue`, `HypSauvegarde`). `HypConfig` and `HypDossiers` are what the
configuration and a listing give.

Four theorems suppose more, each time what is false without it:

| supposed | by | because |
|---|---|---|
| `SansExceptionTardive`: no error comes after the outcome is in the row, of the database between the result and the end of the handler, or of the registry at the closing of a settled job | `AucunePerteProuvee`, `CycleHorsDemarrage`, `RespecteCycleProuve` | the settled job goes to the retries, and the row back to `running` or `pending` (section 4.1). Another worker that took the delivery back after one expiry, and found the row still settled, has acknowledged it: the row is then active and in no list. TLC finds it. All other failures of a call are covered |
| `SansExpirationVivante`: no claim of a live worker expires | `AucunePerteSansExpiration` | the same counterexample, which takes both; each theorem removes one half of it |
| `SansDemarrage`: `recover_stale_jobs` does not run | `RespecteCycleProuve` | it writes `failed` whatever the status has become (section 4.1); `CycleHorsDemarrage` says the rest of a behaviour that has starts |

| theorem | argument |
|---|---|
| `TypeCorrect` | `TypeComplet` is inductive; it carries which stages hold a delivery and which verdicts a stage can have |
| `JamaisDeRenvoiAveugle`, `UnSeulPublie` | `InvPublication`: the holder of the section owns the advisory lock; before `envoi` nothing is pending; at `publication` at most one batch is unaccounted for. `PasDeRenvoiAveugle` alone is not inductive: it says nothing of a worker about to send |
| `FinToujoursProuvee` | `InvVerdict`: a verdict in hand of the owner is already backed by the import, so that writing it keeps `FinProuvee`; proofs never shrink |
| `ProprietaireSeulEcritProuve`, `VersionsToujoursVieilles` | `InvPropriete`: a job not inserted is known of nobody, a row at work was marked, and the version a sweep holds is behind the row as soon as a worker has claimed the job, since a new decision is taken only where the claim is free or no delivery is in processing |
| `AucunePerteProuvee` | `LignesTenues`: what a worker knows of its row. Until the result it runs or is cancelled; after, it is settled with the verdict in hand; a settled row never becomes active; each script moves a delivery from a list to another |
| `AucunePerteSansExpiration` | `Exclusif`: a worker past its claim has it, so one at most is on a job; what it has seen settled is, while it closes the delivery; a delivery put back to retry is in a list until its row says so. A settled row that an error sets going again has its delivery in one of these two places |
| `CycleHorsDemarrage`, `RespecteCycleProuve` | from `LignesTenues` too: an error that is not late finds the row running or cancelled, so that each step of the queue is one transition of one job, or none, or the update of `recover_stale_jobs` |
| `LivraisonToujoursTenue` | inductive as it stands, given the types (`FileDurable_preuves`): every script that removes a delivery checks the claim |
| `TypeCorrectLots` | `TypeLots` is inductive; it ties the folder in hand to the lot of the job |
| `JamaisRefaitProuve` | `InvEnMain`, `InvDepots`: the folder in the hands of the *owner* still waits, and a folder with a record does not. A former owner may hold a settled folder; it is the lock on the row that stops it, and a job has one owner |
| `UneFicheParCleProuve` | `InvCles`: a folder that created a record is settled, and carries its key as long as it is treated; a key has one carrier. A failed folder carries none, which only the net of `executer_lot` makes of a treated one |
| `FinSansResteProuve` | `InvFin`: from `termine` on the owner has nothing left waiting, and nobody else can move the lot |
| `ArretEntreDeuxDossiersProuve` | `InvArret`: an owner about to settle a folder read the flag before it was raised, or failed to read it |
| `TypeCorrectTeleversement` | `TypeTeleversement` is inductive; `Coherence` in it says what a request counts on at each place |
| `AnnulationDefinitiveProuvee` | `InvCree`, `InvAccuse`: who works on a session does so after its row recorded that it existed, so that no creation makes it again; the directory goes only when nothing is left in it, and then nobody can bring anything back |
| `UnSeulLotRenduProuve` | `InvVerrou`, `InvLu`, `InvRendu`: an association is made under the lock, by a manifest read with no lot or with this one. A lot may be created while a removal runs; the lock file its request makes is then one that the removal has not listed, so the removal never ends well |
| `AccuseTenuProuve` | `InvManifeste`: the manifest changes under the lock only, so what a request read of it is still true when it saves. `InvRecus`, `InvDisque`: what was answered is in the manifest, and what will be answered is on disk or on its way there |
| `LotCompletProuve` | `InvDocuments`: the manifest that counts, the one on disk or the copy a request will save though a removal took the first away, is one, and changes under the lock only. `InvPret`: a session such a document marks ready has received all that was announced, and has nothing else on disk. `InvDisque`: what it received is there once a lot is made of it, as long as no request enters under a removal (`Serein`), which otherwise goes on under the lot |
| `PromotionTenueProuvee` | `InvCles`, `InvTampon`, `InvPromu`: each file done has one key, the same in buffer, journal and manifest, whose copy was read back; no step of a request removes a copy. They are stated of the documents of `InvDocuments`, and of the keys a request holds as much as of those on disk, so no order of removal is supposed |
| `TientSaPromesseProuvee` | each action is one step of `TransfertAnnonce` or none, or a step of a session that was entered under a removal. The hard one is the reconciliation that every request makes: one that leaves a session ready changes nothing, because two complete sets of files, one within the other, are equal, which is where paths must be finitely many |
| `RespecteArchiveProuve`, `DecisionSurCeQuiEstLuProuvee`, `UneSeuleExecutionProuvee` | `InvDossiers`: a value read at a revision is the value of the record as long as the revision lasts; each transaction keeps the rows it read until its commit |
| `EtiquetteSureProuvee`, `LiaisonHumaineTenueProuvee` | `InvReferentiel`: the rows a writer decides on are its own until it commits, and the chain of merges has one link, so that the loop of `resoudre_modele_final` never takes a second |
| `CaptureGardeeProuvee`, `PurgeSansPerteProuvee` | `InvCatalogue`: an object that an import holds proved lies under its own name space and has its bytes, or was deleted from outside; promotions write under `lots` only; the row of a published capture keeps its identity or belongs to a record; dates only grow. `ObjetProuve`, `CopieProuvee`: after each reading of a purge what it read still stands, or was lost or written since, which a counter or a date shows |
| `ServiConformeProuvee` | `InvPieces`: what an opened piece is compared with is what was captured |
| `SauvegardeFideleProuvee` | `InvSauvegarde`: a copy is that of the disk while its date stands; every file and object of the snapshot was seen or is noted as missed; a restoration goes on only with what the manifest says |
| `PagesUneFoisProuve` | `InvPrise`: as long as no night is launched while another takes the lock, one at most takes it or works, and no two were at work together. `InvListe`: as long as no two were, the night at work knows all that the list on disk holds, and a print that no save lost is there before its pages are stored and as long as they are |
| `ChaineLineaireProuve` | `InvAudit`: who read the head holds the lock of the chain until the commit |
| `MigrationsSuresProuve` | `InvSchema`: rows of the registry never go, so that what a process read is there; `InvMigration`: a photograph begun before the change of version saw the first version only, and nothing changes a finished one |
| `RevocationEffectiveProuve` | `InvComptes`: a request that arrived on a revoked session has not gone past the row it reads, and the role it has is one the account had since it came |
| `LectureTenueProuvee` | `InvLecture`: the traces cover the attributes after each rule, and the plan is the one that the PDFs read so far give |
| `CopieAnnonceeProuvee` | `InvPlanification`: a generation with a manifest has a whole dump and one with a key has its remote copy; what a process knows of its generation at each step; no two write the same one |
| `CategorieDecideeProuvee` | `InvProjections`: a deposit keeps the lock of the record from what it reads to what it writes |
| `RapportDesDonneesProuve`, `CorrectionGardeeProuvee` | `InvCorrections`: as long as no lock is lost the copy a request works on is the payload of the table, but for the proof it just received; the report of an import that names none is that of its data |
| `TexteDeLaPageProuve` | `InvMoteur`: the first slave alone gets as far as a page, and once it is given up its end comes in the queue before any other slave says that it is ready |
| `AnalyseTenueProuvee` | `InvBalayages`: a row not committed yet is of one scan, which counts it; a pair that shared a document is in the list of the scan, written by it, or in the table. `InvVoiles`: a score has samples, counted under the model and the type that the sails still have; a comparison is symmetric |
| `FacetteTenueProuvee` | `InvRecherche`: the facets shown are those of the records as they are unless one changed since; what was announced is what the sources will give, then what they gave |
| `EntreeHonneteProuvee` | `InvEnvoi`: a send without collisions has each file written at the place of its own name; `InvImport`: what is written at each step, and a job is completed only after its import is published so; `InvLimite`: a request let through is remembered as long as the limit looks back |

The four theorems on lots rest on two lemmas on steps: a step settles one folder of its
owner or none (`RegleOuRien`), and an owner at a place of interest was there
before, or came from the place before (`Progression`).

The invariants of the queue, of lots and of sessions stand after the properties of their
modules (`FileDurable`, `Lots`, `Televersement`), where TLC can read them, and were
checked on the configurations of their runs before they were proved; those of
`services` and `taches` stand in the proof modules. The parts of `Services`, and the
tasks of `Taches`, have variables of their own: each invariant is shown inductive
for the steps of its part, and the others leave these variables alone.

Two proofs changed the statement they were about. `FacetteTenue` ignored the depth of
a source, and held of the run because its bound covered all records; it now says
up to which depth, and the run has a source deeper than that. `AccuseTenu` held
of its run because no folder there has a record; it now covers those that have
one, with what the deposit does to their files.

Only model-checked: what is temporal under fairness (`ToutJobAboutit`,
`LotAboutit`), since liveness and `ENABLED` are out of the prover's reach; and the two runs of section 4,
which show a violation. A recursion over data needs an induction the provers cannot
instantiate, so sums and sorts were kept out of the statements: `AnalyseTenue` says
that the scans count each link once by a function from links to the scan that created
them, in place of a sum, and the list of a scan is a set with an order
(`Devance`). Where a recursion stops after
one step (a chain of merges) or an argument needs a least element, well-foundedness
was enough: a recursive function can be exhibited, and its least counterexample
refuted.

## 6. Plan

Done: the queue, imports, lots, upload sessions, records and requests, models
and links, files and backups, reading, doors, accounts, journal, search; a
theorem for every safety property of the runs.

What could still be said: `LotAboutit` and `ToutJobAboutit` with one worker more than their
runs have (two and one).

Left out for good: section 1.9.
