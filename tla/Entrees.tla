------------------------------ MODULE Entrees ------------------------------
(***************************************************************************)
(* The doors of the web process for imports (api.py): the files sent by a  *)
(* browser, the import executed by the web process itself, while its       *)
(* caller waits or in a thread when the queue is away, and the rate limit  *)
(* in front of all.  The import a worker executes is TraitementImport's.   *)
(***************************************************************************)
EXTENDS Naturals, Sequences, FiniteSets, SequencesExt

CONSTANTS
  Chemins,   \* the destinations a browser may name, as sequences of names
  Repli(_),  \* a name without its case
  MaxEnvois,
  Lecteurs,
  Fenetre,   \* the seconds the rate limit looks back
  Limite,
  MaxInstant,
  Absent

ASSUME HypEntrees ==
  /\ {Fenetre, Limite, MaxInstant} \subseteq Nat
  /\ Absent \notin [statut : {"completed", "needs_review", "failed", "upload_incomplete"}, attente : BOOLEAN]
  /\ Absent \notin {"completed", "erreur"}

VARIABLES
  porte,      \* which door the behaviour is about
  envoi,      \* a send: its files, its step, what each destination holds
  job,        \* the row of import_jobs, if any
  fil,        \* the import in the web process: how it was asked, where it stands
  imp,        \* the row of imports: its status, whether a publication is uncertain
  lecture,    \* of each reader: the row of imports it read, and its answer
  requetes    \* the clock, the dates of the requests that were kept, those the limit
              \* remembers and those let through

varsEntrees == <<porte, envoi, job, fil, imp, lecture, requetes>>

FilAbsent == [mode |-> Absent, etape |-> "repos", reponse |-> Absent]
PasLu == [etape |-> "attend", record |-> Absent, reponse |-> Absent]
RienEnvoye == [etape |-> "attend", fichiers |-> <<>>, ecrits |-> 0, disque |-> <<>>]

InitEntrees ==
  /\ porte \in {"envoi", "import", "limite"}
  /\ envoi = RienEnvoye
  /\ job = Absent /\ fil = FilAbsent /\ imp = Absent
  /\ lecture = [l \in Lecteurs |-> PasLu]
  /\ \E r \in BOOLEAN :
       /\ r => porte = "limite"
       /\ requetes = [instant |-> 0, dates |-> <<>>, memoire |-> {}, servies |-> {}, redis |-> r]

----------------------------------------------------------------------------
(* upload_import: the whole plan is checked, then the files are written    *)
(* one after the other in a folder of this send.                           *)

CleInsensible(c) == [i \in DOMAIN c |-> Repli(c[i])]

analyser_collisions(plan) ==
  LET cle(i) == CleInsensible(plan[i]) IN
  {p \in (DOMAIN plan) \X (DOMAIN plan) :
     \/ p[1] < p[2] /\ cle(p[1]) = cle(p[2])
     \/ IsStrictPrefix(cle(p[1]), cle(p[2]))}

SuiteEnvoi(valeurs) ==
  /\ porte = "envoi"
  /\ envoi' = valeurs
  /\ UNCHANGED <<porte, job, fil, imp, lecture, requetes>>

upload_import ==
  /\ envoi.etape = "attend"
  /\ \E plan \in UNION {[1..n -> Chemins] : n \in 1..MaxEnvois} :
       SuiteEnvoi(IF analyser_collisions(plan) # {}
                 THEN [RienEnvoye EXCEPT !.etape = "refuse", !.fichiers = plan]
                 ELSE [RienEnvoye EXCEPT !.etape = "ecrit", !.fichiers = plan])

(* On a file system without case the same key is the same file; what a     *)
(* file replaces, or a folder that takes its place, is lost.               *)
Place(disque, i, plan) ==
  LET cle == CleInsensible(plan[i]) IN
  Append([k \in DOMAIN disque |->
           IF disque[k].cle = cle THEN [cle |-> cle, de |-> Absent] ELSE disque[k]],
         [cle |-> cle, de |-> i])

(* A parent that is a file, or a target that is a folder, is an OSError.   *)
EcritureImpossible(disque, i, plan) ==
  \E k \in DOMAIN disque :
    \/ IsStrictPrefix(disque[k].cle, CleInsensible(plan[i]))
    \/ IsStrictPrefix(CleInsensible(plan[i]), disque[k].cle)

ecrire_fichier ==
  /\ envoi.etape = "ecrit" /\ envoi.ecrits < Len(envoi.fichiers)
  /\ LET i == envoi.ecrits + 1 IN
     SuiteEnvoi(IF EcritureImpossible(envoi.disque, i, envoi.fichiers)
               THEN [RienEnvoye EXCEPT !.etape = "erreur", !.fichiers = envoi.fichiers]
               ELSE [envoi EXCEPT !.ecrits = i, !.disque = Place(@, i, envoi.fichiers)])

(* A file too large, no space left, the client gone: the folder is removed.*)
interrompre_envoi ==
  /\ envoi.etape = "ecrit"
  /\ SuiteEnvoi([RienEnvoye EXCEPT !.etape = "erreur", !.fichiers = envoi.fichiers])

rendre_envoi ==
  /\ envoi.etape = "ecrit" /\ envoi.ecrits = Len(envoi.fichiers)
  /\ SuiteEnvoi([envoi EXCEPT !.etape = "rendu"])

NextEnvoi == upload_import \/ ecrire_fichier \/ interrompre_envoi \/ rendre_envoi

----------------------------------------------------------------------------
(* confirm_import and create_import in the web process.                    *)

Importer(etape) ==
  /\ porte = "import"
  /\ fil' = [fil EXCEPT !.etape = etape]
  /\ UNCHANGED <<porte, envoi, lecture, requetes>>

(* update_job: no write on a cancelled row, and a cancellation only of an  *)
(* active one or again.                                                    *)
update_job(statut) ==
  job' = IF job # Absent /\ (IF statut = "cancelled" THEN job.statut \in {"pending", "running", "cancelled"}
                              ELSE job.statut # "cancelled")
           THEN [job EXCEPT !.statut = statut] ELSE job

(* With wait, no row; otherwise the row says the import dies with the      *)
(* process.  The queue away and required is a refusal, without effect.     *)
confirm_import ==
  /\ porte = "import" /\ fil = FilAbsent
  /\ \/ fil' = [FilAbsent EXCEPT !.mode = "attendu", !.etape = "debut"] /\ UNCHANGED job
     \/ /\ fil' = [FilAbsent EXCEPT !.mode = "memoire", !.etape = "debut"]
        /\ job' = [statut |-> "pending", durabilite |-> "process_memory"]
  /\ UNCHANGED <<porte, envoi, imp, lecture, requetes>>

debuter_import ==
  /\ fil.etape = "debut" /\ Importer("travail") /\ update_job("running") /\ UNCHANGED imp

(* cancel_check reads the row; nobody can cancel what has no row.          *)
Annule == job # Absent /\ job.statut = "cancelled"

persister_intention ==
  /\ fil.etape = "travail" /\ ~Annule
  /\ imp' = [statut |-> "needs_review", attente |-> TRUE]
  /\ Importer("envoi") /\ UNCHANGED job

(* Without an intention nothing was sent, and the extraction decides.      *)
publier_import ==
  /\ \/ /\ fil.etape = "travail" /\ ~Annule
        /\ \E s \in {"completed", "needs_review", "failed"} : imp' = [statut |-> s, attente |-> FALSE]
     \/ /\ fil.etape = "envoi"
        /\ imp' \in [statut : {"needs_review", "upload_incomplete"}, attente : {FALSE}]
                     \cup {[statut |-> "needs_review", attente |-> TRUE]}
  /\ Importer("publie") /\ UNCHANGED job

(* The call waiting for it receives it; the thread looks at the row again. *)
rendre_import ==
  /\ fil.etape = "publie" /\ fil.mode = "attendu"
  /\ porte = "import"
  /\ fil' = [fil EXCEPT !.etape = "rendu", !.reponse = imp.statut]
  /\ UNCHANGED <<porte, envoi, job, imp, lecture, requetes>>
ecrire_resultat ==
  /\ fil.etape = "publie" /\ fil.mode = "memoire"
  /\ Importer(IF Annule THEN "annulation" ELSE "resultat") /\ UNCHANGED <<job, imp>>
terminer_fil ==
  /\ fil.etape = "resultat"
  /\ update_job(imp.statut) /\ Importer("rendu") /\ UNCHANGED imp

echouer_import ==
  /\ fil.etape \in {"debut", "travail", "envoi", "publie"}
  /\ Importer("exception") /\ UNCHANGED <<job, imp>>
annuler_import ==
  /\ fil.etape \in {"travail", "envoi"} /\ Annule
  /\ Importer("annulation") /\ UNCHANGED <<job, imp>>

PublicationIncertaine == imp # Absent /\ imp.attente

(* The handlers of the thread: a publication that may have been made is    *)
(* for a review.                                                           *)
execute_import_background ==
  /\ fil.mode = "memoire"
  /\ \/ fil.etape = "annulation" /\ update_job("cancelled")
     \/ fil.etape = "exception" /\ update_job(IF PublicationIncertaine THEN "needs_review" ELSE "failed")
  /\ Importer("rendu") /\ UNCHANGED imp

(* _reponse_intention_incertaine: the row is read again before an error is *)
(* told.                                                                   *)
reponse_intention_incertaine == IF PublicationIncertaine THEN "needs_review" ELSE "erreur"

(* The row may be out of reach then: the error is told without it.         *)
repondre_echec ==
  /\ porte = "import" /\ fil.mode = "attendu" /\ fil.etape = "exception"
  /\ \E r \in {reponse_intention_incertaine, "erreur_base"} :
       fil' = [fil EXCEPT !.etape = "rendu", !.reponse = r]
  /\ UNCHANGED <<porte, envoi, job, imp, lecture, requetes>>

cancel_import_job ==
  /\ porte = "import" /\ job # Absent /\ job.statut \in {"pending", "running"}
  /\ job' = [job EXCEPT !.statut = "cancelled"]
  /\ UNCHANGED <<porte, envoi, fil, imp, lecture, requetes>>

(* The web process stops and starts: the rows long active and not in the   *)
(* queue are failures.                                                     *)
recover_stale_jobs ==
  /\ porte = "import" /\ fil.mode # Absent /\ fil.etape # "arrete"
  /\ fil' = [fil EXCEPT !.etape = "arrete"]
  /\ \/ UNCHANGED job
     \/ job # Absent /\ job.statut \in {"pending", "running"} /\ job' = [job EXCEPT !.statut = "failed"]
  /\ UNCHANGED <<porte, envoi, imp, lecture, requetes>>

(* Redis is back: the reconciler of a worker queues any active row it does *)
(* not find there, whether its thread lives or not; the worker's pass is   *)
(* TraitementImport's.                                                     *)
reconcilier_orphelin ==
  /\ porte = "import" /\ job # Absent /\ job.statut \in {"pending", "running"}
  /\ job' = [job EXCEPT !.statut = "pending"]
  /\ UNCHANGED <<porte, envoi, fil, imp, lecture, requetes>>

----------------------------------------------------------------------------
(* read_import: the row of imports, then that of the job.                  *)

lire_record(l) ==
  /\ porte = "import" /\ lecture[l].etape = "attend"
  /\ lecture' = [lecture EXCEPT ![l] = [etape |-> "lu", record |-> imp, reponse |-> Absent]]
  /\ UNCHANGED <<porte, envoi, job, fil, imp, requetes>>

(* Slip: what the import says is told, whatever became of its job.         *)
EtatDuRecord(record, ligne) ==
  IF record # Absent THEN record.statut ELSE IF ligne # Absent THEN ligne.statut ELSE "404"

EtatAnnonce(record, ligne) ==
  IF record # Absent /\ record.attente
    THEN IF ligne # Absent /\ ligne.statut # "completed" THEN ligne.statut
         ELSE IF record.statut = "completed" THEN "needs_review" ELSE record.statut
  ELSE IF ligne # Absent
    THEN IF record # Absent /\ ligne.statut = "completed" THEN record.statut ELSE ligne.statut
  ELSE IF record # Absent THEN record.statut ELSE "404"

repondre_lecture(l) ==
  /\ porte = "import" /\ lecture[l].etape = "lu"
  /\ lecture' = [lecture EXCEPT ![l] =
       [etape |-> "repondu", record |-> Absent, reponse |-> EtatAnnonce(@.record, job)]]
  /\ UNCHANGED <<porte, envoi, job, fil, imp, requetes>>

NextImport ==
  \/ confirm_import \/ debuter_import \/ persister_intention \/ publier_import
  \/ rendre_import \/ ecrire_resultat \/ terminer_fil
  \/ echouer_import \/ annuler_import \/ execute_import_background \/ repondre_echec
  \/ cancel_import_job \/ recover_stale_jobs \/ reconcilier_orphelin
  \/ \E l \in Lecteurs : lire_record(l) \/ repondre_lecture(l)

----------------------------------------------------------------------------
(* The rate limit of one client: the dates remembered in the process, or   *)
(* in Redis, which remembers the refused requests too.                     *)

Recentes(S) == {r \in S : requetes.dates[r] + Fenetre > requetes.instant}

Retenir(connues, r, accepte) == IF requetes.redis \/ accepte THEN connues \cup {r} ELSE connues

check_rate_limit ==
  /\ porte = "limite" /\ Cardinality(requetes.memoire) < 2 * Limite
  /\ LET connues == Recentes(requetes.memoire)
         accepte == Cardinality(connues) < Limite
         r == Len(requetes.dates) + 1
     IN requetes' = [requetes EXCEPT
          !.dates = IF requetes.redis \/ accepte THEN Append(@, requetes.instant) ELSE @,
          !.memoire = Retenir(connues, r, accepte),
          !.servies = IF accepte THEN @ \cup {r} ELSE @]
  /\ UNCHANGED <<porte, envoi, job, fil, imp, lecture>>

passer_seconde ==
  /\ porte = "limite" /\ requetes.instant < MaxInstant
  /\ requetes' = [requetes EXCEPT !.instant = @ + 1]
  /\ UNCHANGED <<porte, envoi, job, fil, imp, lecture>>

NextEntrees == NextEnvoi \/ NextImport \/ check_rate_limit \/ passer_seconde

----------------------------------------------------------------------------

(* A send that was accepted is whole: each file is where it was written,   *)
(* on a host that ignores the case as on one that does not.                *)
EnvoiEntier ==
  envoi.etape = "rendu" =>
    \A i \in DOMAIN envoi.fichiers :
      \E k \in DOMAIN envoi.disque :
        envoi.disque[k] = [cle |-> CleInsensible(envoi.fichiers[i]), de |-> i]

(* An import is told completed only if it was published and its job did    *)
(* not fail, stop or get cancelled, whatever moves between the two reads.  *)
AnnonceVraie ==
  \A l \in Lecteurs : lecture[l].reponse = "completed" =>
    /\ imp # Absent /\ imp.statut = "completed"
    /\ job # Absent => job.statut = "completed"

(* An error without a doubt told to the caller leaves nothing uncertain    *)
(* behind: to ask again cannot send twice.                                 *)
ErreurSansDoute == fil.reponse = "erreur" => ~PublicationIncertaine

(* No window holds more requests than the limit.                           *)
LimiteTenue ==
  \A t \in 0..MaxInstant :
    Cardinality({r \in requetes.servies :
      requetes.dates[r] <= t /\ requetes.dates[r] + Fenetre > t}) <= Limite

(* What the web process answers at its doors is true.                      *)
EntreeHonnete == EnvoiEntier /\ AnnonceVraie /\ ErreurSansDoute /\ LimiteTenue
=============================================================================
