----------------------------- MODULE Corrections -----------------------------
(***************************************************************************)
(* What is done to an import that was published (import_pipeline.py,       *)
(* api.py): a correction revokes the proofs of its reports, writes them    *)
(* again, sends them and records the data; a retry sends what has no proof.*)
(* Each works on its copy of the record, under a lock of its own           *)
(* connection, which the database may drop.  The two reports go together   *)
(* and are one here; its content is the data it was made from.             *)
(***************************************************************************)
EXTENDS Naturals

CONSTANTS
  Operateurs,  \* requests that correct or retry
  Donnees,     \* data of the import
  Sans,        \* no content, no identity
  MaxPertesVerrou

ASSUME HypSans == Sans \notin Operateurs \cup Donnees

VARIABLES
  dossier,      \* the payload of the import in the table
  rapport,      \* the report on the disk
  envois,       \* the reports in the object storage
  mutations,    \* what each request does, with its copy of the payload
  verrouImport, \* who holds the lock of the import
  verrousPerdus

varsCorrections == <<dossier, rapport, envois, mutations, verrouImport, verrousPerdus>>

(* An old import has no identity of its report; one that was sent has the   *)
(* proof of it.  The report may be gone from the disk.                      *)
InitCorrections ==
  /\ dossier \in [donnees : Donnees, statut : {"completed", "needs_review"}, generation : {FALSE},
       publication : {FALSE}, attendu : Donnees \cup {Sans}, preuve : Donnees \cup {Sans},
       ancien : BOOLEAN, configure : BOOLEAN]
  /\ {dossier.attendu, dossier.preuve} \subseteq {dossier.donnees, Sans}
  /\ dossier.ancien <=> dossier.attendu = Sans /\ dossier.preuve = Sans
  /\ dossier.preuve # Sans => dossier.configure
  /\ rapport \in {dossier.donnees, Sans}
  /\ envois = {dossier.preuve} \ {Sans}
  /\ mutations = [m \in Operateurs |-> Sans]
  /\ verrouImport = Sans
  /\ verrousPerdus = 0

Pour(m, op, e) == mutations[m] # Sans /\ mutations[m].op = op /\ mutations[m].etape = e
Copie(m) == mutations[m].copie
Avancer(m, e, copie) == mutations' = [mutations EXCEPT ![m].etape = e, ![m].copie = copie]

----------------------------------------------------------------------------
(* The lock.                                                                *)

(* Slip: the payload is read before the lock is taken, and a retry needs    *)
(* none.                                                                    *)
LireSansVerrou(m, op, v) ==
  /\ mutations[m] = Sans
  /\ ~dossier.publication
  /\ op = "reprise" => ~dossier.generation
  /\ op = "correction" => verrouImport = Sans
  /\ verrouImport' = IF op = "correction" THEN m ELSE verrouImport
  /\ mutations' = [mutations EXCEPT ![m] = [op |-> op, etape |-> "lu", voulu |-> v, copie |-> dossier, recu |-> "rien"]]
  /\ UNCHANGED <<dossier, rapport, envois, verrousPerdus>>

(* An interrupted publication refuses both; an interrupted generation       *)
(* refuses the retry, and is resumed by a correction.                       *)
verrou_mutation_import(m, op, v) ==
  /\ mutations[m] = Sans /\ verrouImport = Sans
  /\ ~dossier.publication
  /\ op = "reprise" => ~dossier.generation
  /\ verrouImport' = m
  /\ mutations' = [mutations EXCEPT ![m] = [op |-> op, etape |-> "lu", voulu |-> v, copie |-> dossier, recu |-> "rien"]]
  /\ UNCHANGED <<dossier, rapport, envois, verrousPerdus>>

Liberer(m) == verrouImport' = IF verrouImport = m THEN Sans ELSE verrouImport

(* The database drops the connection that holds the lock; the request knows *)
(* it when it gives the lock back.                                          *)
perdre_verrou ==
  /\ verrouImport # Sans
  /\ verrousPerdus < MaxPertesVerrou
  /\ verrouImport' = Sans
  /\ verrousPerdus' = verrousPerdus + 1
  /\ UNCHANGED <<dossier, rapport, envois, mutations>>

(* An exception, or the death of the process, at any step. *)
interrompre(m) ==
  /\ mutations[m] # Sans
  /\ mutations' = [mutations EXCEPT ![m] = Sans]
  /\ Liberer(m)
  /\ UNCHANGED <<dossier, rapport, envois, verrousPerdus>>

----------------------------------------------------------------------------
(* The correction.                                                          *)

(* Slip: the revocation is written with the intention to send only.         *)
RevoquerEnMemoire(m) ==
  /\ Pour(m, "correction", "lu")
  /\ Avancer(m, "generer", [Copie(m) EXCEPT !.generation = TRUE, !.preuve = Sans,
                                            !.statut = "needs_review"])
  /\ UNCHANGED <<dossier, rapport, envois, verrouImport, verrousPerdus>>

(* The proofs are revoked in the table before anything is written.          *)
revoquer(m) ==
  /\ Pour(m, "correction", "lu")
  /\ LET c == [Copie(m) EXCEPT !.generation = TRUE, !.preuve = Sans, !.statut = "needs_review"] IN
     dossier' = c /\ Avancer(m, "generer", c)
  /\ UNCHANGED <<rapport, envois, verrouImport, verrousPerdus>>

generer_rapports_confines(m) ==
  /\ Pour(m, "correction", "generer")
  /\ rapport' = mutations[m].voulu
  /\ Avancer(m, IF dossier.configure THEN "annoncer" ELSE "enregistrer", Copie(m))
  /\ UNCHANGED <<dossier, envois, verrouImport, verrousPerdus>>

annoncer(m) ==
  /\ Pour(m, "correction", "annoncer")
  /\ LET c == [Copie(m) EXCEPT !.publication = TRUE, !.attendu = mutations[m].voulu] IN
     dossier' = c /\ Avancer(m, "envoyer", c)
  /\ UNCHANGED <<rapport, envois, verrouImport, verrousPerdus>>

(* One result for one report: proved by a hash of what was sent, a key      *)
(* without a proof, a refusal, or none at all though it may have been sent. *)
Resultats == {"prouve", "cle", "echec", "omis"}
Deposer(m, r, contenu) ==
  /\ envois' \in IF r = "prouve" THEN {envois \cup {contenu}}
                 ELSE IF r = "echec" THEN {envois}
                 ELSE {envois, envois \cup {contenu}}
  /\ mutations' = [mutations EXCEPT ![m].etape = "enregistrer", ![m].recu = r,
       ![m].copie.preuve = IF r = "prouve" THEN contenu ELSE Sans]
  /\ UNCHANGED <<dossier, rapport, verrouImport, verrousPerdus>>

envoyer_rapports(m, r) ==
  /\ Pour(m, "correction", "envoyer")
  /\ Deposer(m, r, mutations[m].voulu)

Incertain(r) == r \in {"cle", "omis"}
Conclure(m, c) ==
  /\ dossier' = c
  /\ mutations' = [mutations EXCEPT ![m] = Sans]
  /\ Liberer(m)
  /\ UNCHANGED <<rapport, envois, verrousPerdus>>

(* The data, the identity of the reports and their proof, in one update.    *)
(* With a storage the import stays to be reviewed.                          *)
correct_import(m) ==
  /\ Pour(m, "correction", "enregistrer")
  /\ LET x == mutations[m] IN
     Conclure(m, [x.copie EXCEPT !.donnees = x.voulu, !.generation = FALSE,
       !.attendu = IF x.recu = "prouve" THEN Sans ELSE x.voulu,
       !.publication = Incertain(x.recu),
       !.statut = IF dossier.configure THEN "needs_review" ELSE "completed"])

----------------------------------------------------------------------------
(* The retry.                                                               *)

(* Nothing to send, or the intention to send it.                            *)
annoncer_reprise(m) ==
  /\ Pour(m, "reprise", "lu")
  /\ IF Copie(m).preuve = Sans /\ dossier.configure
       THEN LET c == [Copie(m) EXCEPT !.publication = TRUE] IN
            dossier' = c /\ Avancer(m, "envoyer", c)
       ELSE UNCHANGED dossier /\ Avancer(m, "enregistrer", Copie(m))
  /\ UNCHANGED <<rapport, envois, verrouImport, verrousPerdus>>

(* What is on the disk is sent if it is what the record expects, or if the  *)
(* record expects nothing.                                                  *)
Renvoyable(m) == rapport # Sans /\ Copie(m).attendu \in {Sans, rapport}
renvoyer_rapport(m, r) ==
  /\ Pour(m, "reprise", "envoyer")
  /\ IF Renvoyable(m)
       THEN Deposer(m, r, rapport)
       ELSE /\ r = "echec"
            /\ Avancer(m, "enregistrer", Copie(m))
            /\ UNCHANGED <<dossier, rapport, envois, verrouImport, verrousPerdus>>

retry_upload_rapport(m) ==
  /\ Pour(m, "reprise", "enregistrer")
  /\ LET x == mutations[m] IN
     Conclure(m, [x.copie EXCEPT !.publication = Incertain(x.recu),
       !.statut = IF Incertain(x.recu) THEN "needs_review" ELSE @])

NextCorrections ==
  \/ perdre_verrou
  \/ \E m \in Operateurs :
       \/ \E v \in Donnees : verrou_mutation_import(m, "correction", v)
       \/ verrou_mutation_import(m, "reprise", Sans)
       \/ interrompre(m)
       \/ revoquer(m) \/ generer_rapports_confines(m) \/ annoncer(m) \/ correct_import(m)
       \/ annoncer_reprise(m) \/ retry_upload_rapport(m)
       \/ \E r \in Resultats : envoyer_rapports(m, r) \/ renvoyer_rapport(m, r)

----------------------------------------------------------------------------
(* What the interface gives.                                                *)

(* read_import: an intention that stands contradicts "completed". *)
read_import ==
  IF (dossier.generation \/ dossier.publication) /\ dossier.statut = "completed"
    THEN "needs_review" ELSE dossier.statut

(* get_import_artifact: the identity recorded is that of the bytes served,  *)
(* those of the disk first, those of the object next.                       *)
Identite == IF dossier.attendu # Sans THEN dossier.attendu ELSE dossier.preuve
get_import_artifact ==
  IF dossier.generation THEN Sans
  ELSE IF rapport # Sans /\ Identite \in {Sans, rapport} THEN rapport
  ELSE IF dossier.preuve = Identite THEN dossier.preuve
  ELSE Sans

----------------------------------------------------------------------------

(* The report served is that of the data recorded, wherever a correction or *)
(* a retry stopped and whatever two of them did when the lock was lost:     *)
(* only an old report, of which no identity was kept, has no other          *)
(* protection than the lock.                                                *)
RapportDesDonnees ==
  verrousPerdus = 0 \/ ~dossier.ancien =>
    get_import_artifact \in {Sans, dossier.donnees}

(* The data of an import change by a correction alone: no retry writes back *)
(* the payload it read before.                                              *)
CorrectionGardee ==
  [][dossier'.donnees # dossier.donnees /\ verrousPerdus' = 0 =>
       \E m \in Operateurs : Pour(m, "correction", "enregistrer") /\ mutations'[m] = Sans
                             /\ dossier'.donnees = mutations[m].voulu]_varsCorrections
=============================================================================
