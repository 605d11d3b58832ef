------------------------------ MODULE Catalogue ------------------------------
(***************************************************************************)
(* The catalogue of documents and those who write in it: the scan of the   *)
(* archive (crawler.py, cli.py, indexer.py), the publication of an import  *)
(* and its retry (import_pipeline.py), the deposit of a folder and the     *)
(* promotion of its files to the object store (fiches/depot.py,            *)
(* fiches/promotion.py), and the purge of the local copies of an import    *)
(* (purge_locale.py).                                                      *)
(*                                                                         *)
(* The disk, the catalogue (PostgreSQL) and the bucket are three stores    *)
(* that no transaction spans.  A file has bytes and a modification date;   *)
(* a row keeps the date, the bytes its text was extracted from, and the    *)
(* identity (sha) of bytes that were captured, when it is known.  A write  *)
(* of a row that a transaction holds to its commit is one step.            *)
(***************************************************************************)
EXTENDS Naturals, FiniteSets

CONSTANTS
  Fichiers,   \* paths
  Octets,     \* contents of a file
  Rien,
  Imports,
  MaxDates,   \* writes of files by users
  MaxCles,    \* object keys tried for one file in one name space
  MaxPertes   \* objects the outside deletes from the bucket

VARIABLES
  disque,    \* each file, Rien when absent
  horloge,   \* the date of the last write
  ligne,     \* the row of each file, Rien when absent
  objets,    \* the bucket
  pertes,    \* objects lost
  balayage,  \* the scan in progress
  imports,   \* each import, its saved result included
  promotions \* a deposit and a resumed promotion, each on one file

varsCatalogue == <<disque, horloge, ligne, objets, pertes, balayage, imports, promotions>>

Promoteurs == {"depot", "reprise"}
Espaces == Imports \cup {"lots"}
Cles == [fichier : Fichiers, espace : Espaces, n : 1..MaxCles]

(* What a row may be: no content of a file and no row is the absence of     *)
(* one, and imports have name spaces of their own in the bucket.            *)
LignesCatalogue ==
  [date : Nat, texte : Octets \cup {Rien}, sha : Octets \cup {Rien}, hash : Octets \cup {Rien},
   cle : Cles \cup {Rien}, envoye : BOOLEAN, fiche : BOOLEAN]

ASSUME HypCatalogue ==
  /\ Rien \notin Octets \cup LignesCatalogue
  /\ "lots" \notin Imports
  /\ MaxCles \in Nat

InitCatalogue ==
  /\ disque \in [Fichiers -> {Rien} \cup {[octets |-> o, date |-> 1] : o \in Octets}]
  /\ horloge = 1
  /\ ligne = [f \in Fichiers |-> Rien]
  /\ objets = [c \in Cles |-> Rien]
  /\ pertes = 0
  /\ balayage = Rien
  /\ imports = [i \in Imports |-> Rien]
  /\ promotions = [p \in Promoteurs |-> Rien]

Present(f) == disque[f] # Rien
Contient(f, o) == Present(f) /\ disque[f].octets = o

----------------------------------------------------------------------------
(* The outside: users of the shared folders, the operator of the bucket.    *)

ecrire_fichier(f, o) ==
  /\ horloge < MaxDates
  /\ horloge' = horloge + 1
  /\ disque' = [disque EXCEPT ![f] = [octets |-> o, date |-> horloge + 1]]
  /\ UNCHANGED <<ligne, objets, pertes, balayage, imports, promotions>>

retirer_fichier(f) ==
  /\ Present(f) /\ horloge < MaxDates
  /\ horloge' = horloge + 1
  /\ disque' = [disque EXCEPT ![f] = Rien]
  /\ UNCHANGED <<ligne, objets, pertes, balayage, imports, promotions>>

perdre_objet(c) ==
  /\ objets[c] # Rien /\ pertes < MaxPertes
  /\ pertes' = pertes + 1
  /\ objets' = [objets EXCEPT ![c] = Rien]
  /\ UNCHANGED <<disque, horloge, ligne, balayage, imports, promotions>>

----------------------------------------------------------------------------
(* Object keys: the first free one is looked up, then written.              *)

Libres(f, e) == {n \in 1..MaxCles : objets[[fichier |-> f, espace |-> e, n |-> n]] = Rien}
first_free_key(f, e) ==
  [fichier |-> f, espace |-> e, n |-> CHOOSE n \in Libres(f, e) : \A m \in Libres(f, e) : n <= m]

----------------------------------------------------------------------------
(* The scan.  A rebuild ignores the stored manifest; a business schema      *)
(* refers to documents, so the table is kept in place.                      *)

run_index(rebuild) ==
  /\ balayage = Rien
  /\ balayage' =
       [manifeste |-> [f \in Fichiers |-> IF rebuild \/ ligne[f] = Rien THEN 0 ELSE ligne[f].date],
        vus |-> [f \in Fichiers |-> Rien], reste |-> Fichiers]
  /\ UNCHANGED <<disque, horloge, ligne, objets, pertes, imports, promotions>>

(* A file whose stored date still stands is not extracted: its document     *)
(* has no text.                                                             *)
document_from_path(f) ==
  /\ balayage # Rien /\ f \in balayage.reste
  /\ balayage' = [balayage EXCEPT
       !.reste = @ \ {f},
       !.vus[f] = IF ~Present(f) THEN Rien
                  ELSE [date |-> disque[f].date,
                        texte |-> IF balayage.manifeste[f] = disque[f].date THEN Rien
                                  ELSE disque[f].octets]]
  /\ UNCHANGED <<disque, horloge, ligne, objets, pertes, imports, promotions>>

NouvelleLigne(d) ==
  [date |-> d.date, texte |-> d.texte, sha |-> Rien, hash |-> Rien, cle |-> Rien,
   envoye |-> FALSE, fiche |-> FALSE]

(* Slip: an identity without an object is not protected.                    *)
ProtegeeParObjet(l) == l.fiche \/ l.cle # Rien

(* What neither the scan nor its removal of missing rows may touch.         *)
Protegee(l) == l.fiche \/ l.cle # Rien \/ l.sha # Rien

upsert_documents(f, d) ==
  IF ligne[f] # Rien /\ Protegee(ligne[f]) THEN ligne[f] ELSE NouvelleLigne(d)

remove_missing(f) == IF ligne[f] # Rien /\ Protegee(ligne[f]) THEN ligne[f] ELSE Rien

(* Both in the transaction of the scan. *)
publier_balayage ==
  /\ balayage # Rien /\ balayage.reste = {}
  /\ ligne' = [f \in Fichiers |->
       IF balayage.vus[f] = Rien THEN remove_missing(f) ELSE upsert_documents(f, balayage.vus[f])]
  /\ balayage' = Rien
  /\ UNCHANGED <<disque, horloge, objets, pertes, imports, promotions>>

(* A scan that is incomplete, fails or dies is rolled back. *)
annuler_balayage ==
  /\ balayage # Rien
  /\ balayage' = Rien
  /\ UNCHANGED <<disque, horloge, ligne, objets, pertes, imports, promotions>>

NextBalayage ==
  \/ \E rebuild \in BOOLEAN : run_index(rebuild)
  \/ \E f \in Fichiers : document_from_path(f)
  \/ publier_balayage
  \/ annuler_balayage

----------------------------------------------------------------------------
(* An import captures private copies, sends them, publishes the rows with   *)
(* its own result, and purges the staging when an object is proved.  What   *)
(* the worker learnt of an object and did not save yet is in "preuve" and   *)
(* "doute"; a crash forgets it.                                             *)

Etape(i, e) == imports[i] # Rien /\ imports[i].etape = e
Attendu(i) == Contient(imports[i].fichier, imports[i].sha)

capturer(i, f) ==
  /\ imports[i] = Rien /\ Present(f)
  /\ imports' = [imports EXCEPT ![i] =
       [fichier |-> f, sha |-> disque[f].octets, date |-> disque[f].date, etape |-> "capture",
        cle |-> Rien, incertain |-> FALSE, conflit |-> FALSE, lie |-> FALSE,
        preuve |-> Rien, doute |-> FALSE, luLe |-> 0, perdus |-> 0]]
  /\ UNCHANGED <<disque, horloge, ligne, objets, pertes, balayage, promotions>>

(* No purge is under way when an import is sent, or any longer when it dies.*)
Apprendre(i, e, preuve, doute) ==
  imports' = [imports EXCEPT ![i].etape = e, ![i].preuve = preuve, ![i].doute = doute,
                             ![i].luLe = 0, ![i].perdus = 0]

(* The copy is sent and read back: proved; refused before any write; or     *)
(* written or not, with no answer that says so.                             *)
upload_file(i, suite) ==
  \/ Apprendre(i, suite, Rien, FALSE) /\ UNCHANGED objets
  \/ /\ Libres(imports[i].fichier, i) # {}
     /\ LET c == first_free_key(imports[i].fichier, i)
            ecrit == [objets EXCEPT ![c] = imports[i].sha] IN
        \/ objets' = ecrit /\ Apprendre(i, suite, c, FALSE)
        \/ objets' \in {objets, ecrit} /\ Apprendre(i, suite, Rien, TRUE)

envoyer(i) ==
  /\ Etape(i, "capture")
  /\ upload_file(i, "envoye")
  /\ UNCHANGED <<disque, horloge, ligne, pertes, balayage, promotions>>

UpsertPermis(l, sha) == l # Rien => ~l.fiche /\ l.cle = Rien /\ l.sha \in {Rien, sha}

(* upsert_documents with its guard, the comparison with the row really      *)
(* written, and the result of the import: one transaction.                  *)
publier_import(i) ==
  /\ Etape(i, "envoye")
  /\ LET x == imports[i]
         permis == UpsertPermis(ligne[x.fichier], x.sha)
         apres == IF permis
                    THEN [date |-> x.date, texte |-> x.sha, sha |-> x.sha, hash |-> Rien,
                          cle |-> x.preuve, envoye |-> x.preuve # Rien, fiche |-> FALSE]
                    ELSE ligne[x.fichier] IN
     /\ ligne' = [ligne EXCEPT ![x.fichier] = apres]
     /\ imports' = [imports EXCEPT ![i] =
          [x EXCEPT !.etape = "publie", !.cle = x.preuve, !.incertain = x.doute,
                    !.preuve = Rien, !.doute = FALSE,
                    !.conflit = ~permis, !.lie = permis /\ x.preuve # Rien]]
  /\ UNCHANGED <<disque, horloge, objets, pertes, balayage, promotions>>

(* The intention is committed first: after a crash the import is uncertain  *)
(* and no other retry starts.                                               *)
retry_upload(i) ==
  /\ Etape(i, "publie") /\ ~imports[i].incertain
  /\ imports' = [imports EXCEPT ![i].etape = "reprise", ![i].incertain = imports[i].cle = Rien]
  /\ UNCHANGED <<disque, horloge, ligne, objets, pertes, balayage, promotions>>

(* A proved object is kept; a source that is absent or no longer the        *)
(* capture is not sent.                                                     *)
renvoyer(i) ==
  /\ Etape(i, "reprise")
  /\ IF imports[i].cle = Rien /\ Attendu(i)
       THEN upload_file(i, "renvoye")
       ELSE Apprendre(i, "renvoye", imports[i].cle, FALSE) /\ UNCHANGED objets
  /\ UNCHANGED <<disque, horloge, ligne, pertes, balayage, promotions>>

(* The row that still has the identity of the capture and no other key gets *)
(* the proved one, in the transaction of the result.                        *)
lier_objets_capture(i) ==
  /\ Etape(i, "renvoye")
  /\ LET x == imports[i]
         l == ligne[x.fichier]
         lie == x.preuve # Rien /\ l # Rien /\ l.sha = x.sha /\ l.cle \in {Rien, x.preuve} IN
     /\ ligne' = IF lie THEN [ligne EXCEPT ![x.fichier] = [l EXCEPT !.cle = x.preuve, !.envoye = TRUE]]
                 ELSE ligne
     /\ imports' = [imports EXCEPT ![i] =
          [x EXCEPT !.etape = "publie", !.cle = x.preuve, !.incertain = x.doute,
                    !.preuve = Rien, !.doute = FALSE, !.lie = lie]]
  /\ UNCHANGED <<disque, horloge, objets, pertes, balayage, promotions>>

(* An import that was not published is gone; of a published one stays what  *)
(* was committed.                                                           *)
mort_import(i) ==
  /\ imports[i] # Rien /\ imports[i].etape \notin {"publie", "purge"}
  /\ IF imports[i].etape \in {"capture", "envoye"}
       THEN imports' = [imports EXCEPT ![i] = Rien]
       ELSE Apprendre(i, "publie", Rien, FALSE)
  /\ UNCHANGED <<disque, horloge, ligne, objets, pertes, balayage, promotions>>

Avancer(i, e, luLe, perdus) ==
  /\ imports' = [imports EXCEPT ![i].etape = e, ![i].luLe = luLe, ![i].perdus = perdus]
  /\ UNCHANGED <<horloge, ligne, objets, pertes, balayage, promotions>>

(* purger_copie_prouvee, one file: the local bytes are those of the         *)
(* inventory, the remote ones are read again and compared with the local    *)
(* ones, the local ones are read once more, and the file is removed: four   *)
(* steps, between which the outside writes and deletes.  A ghost keeps the  *)
(* losses counted at the remote reading, another the date of the last one.  *)
relire_local(i) ==
  /\ Etape(i, "publie") /\ imports[i].cle # Rien /\ Attendu(i)
  /\ Avancer(i, "lu", 0, 0) /\ UNCHANGED disque

relire_objet(i) ==
  /\ Etape(i, "lu")
  /\ LET o == objets[imports[i].cle] IN
     IF o # Rien /\ Contient(imports[i].fichier, o)
       THEN Avancer(i, "verifie", 0, pertes) ELSE Avancer(i, "publie", 0, 0)
  /\ UNCHANGED disque

Condamner(i) == Avancer(i, "condamne", horloge, imports[i].perdus)

(* Slip: the local bytes are not read once more.                            *)
SansRelire(i) == Etape(i, "verifie") /\ Condamner(i) /\ UNCHANGED disque

relire_avant_suppression(i) ==
  /\ Etape(i, "verifie")
  /\ IF Attendu(i) THEN Condamner(i) ELSE Avancer(i, "publie", 0, 0)
  /\ UNCHANGED disque

(* Whatever the path has become since; gone, the removal is refused.        *)
supprimer_local(i) ==
  /\ Etape(i, "condamne")
  /\ Avancer(i, IF Present(imports[i].fichier) THEN "purge" ELSE "publie", 0, 0)
  /\ disque' = [disque EXCEPT ![imports[i].fichier] = Rien]

NextImport ==
  \E i \in Imports :
    \/ \E f \in Fichiers : capturer(i, f)
    \/ envoyer(i) \/ publier_import(i)
    \/ retry_upload(i) \/ renvoyer(i) \/ lier_objets_capture(i)
    \/ relire_local(i) \/ relire_objet(i) \/ relire_avant_suppression(i) \/ supprimer_local(i)
    \/ mort_import(i)

----------------------------------------------------------------------------
(* A deposit publishes the row of a file under the identity of the bytes it *)
(* read, then promotes the file outside the transaction; the resumption of  *)
(* promotions takes the rows that are not sent.                             *)

Fait(p, e) == promotions[p] # Rien /\ promotions[p].etape = e

Retenir(p, x) ==
  /\ promotions' = [promotions EXCEPT ![p] = x]
  /\ UNCHANGED <<disque, horloge, pertes, balayage, imports>>

lire_depot(f) ==
  /\ promotions["depot"] = Rien /\ Present(f)
  /\ Retenir("depot", [fichier |-> f, octets |-> disque[f].octets, cle |-> Rien, etape |-> "lu"])
  /\ UNCHANGED <<ligne, objets>>

(* _SQL_DOCUMENT_UPSERT: the same bytes, or a row nobody relies on; a row   *)
(* with an identity of its own and no object is one of these.               *)
DepotPermis(l, octets) ==
  l # Rien => l.hash = octets \/ l.sha = octets \/ (~l.fiche /\ l.cle = Rien)

deposer(f) ==
  /\ Fait("depot", "lu") /\ promotions["depot"].fichier = f /\ Present(f)
  /\ LET l == ligne[f]
         o == promotions["depot"].octets
         neuve == l = Rien IN
     /\ DepotPermis(l, o)
     /\ ligne' = [ligne EXCEPT ![f] =
          [date |-> disque[f].date, texte |-> IF neuve \/ l.texte = Rien THEN o ELSE l.texte,
           sha |-> o, hash |-> o, cle |-> IF neuve THEN Rien ELSE l.cle,
           envoye |-> ~neuve /\ l.envoye, fiche |-> TRUE]]
  /\ Retenir("depot", [promotions["depot"] EXCEPT !.etape = "a_promouvoir"])
  /\ UNCHANGED objets

promouvoir_en_attente(f) ==
  /\ promotions["reprise"] = Rien
  /\ ligne[f] # Rien /\ ~ligne[f].envoye /\ Present(f)
  /\ Retenir("reprise", [fichier |-> f, octets |-> Rien, cle |-> Rien, etape |-> "a_promouvoir"])
  /\ UNCHANGED <<ligne, objets>>

(* The key is looked up, then written with the bytes of that moment: the    *)
(* other promotion may have taken it.                                       *)
choisir_cle(p) ==
  /\ Fait(p, "a_promouvoir")
  /\ LET f == promotions[p].fichier IN
     /\ Present(f) /\ Libres(f, "lots") # {}
     /\ Retenir(p, [promotions[p] EXCEPT !.etape = "cle", !.cle = first_free_key(f, "lots")])
  /\ UNCHANGED <<ligne, objets>>

ecrire_objet(p) ==
  /\ Fait(p, "cle")
  /\ LET f == promotions[p].fichier IN
     /\ Present(f)
     /\ objets' = [objets EXCEPT ![promotions[p].cle] = disque[f].octets]
     /\ Retenir(p, [promotions[p] EXCEPT !.etape = "envoye"])
  /\ UNCHANGED ligne

relire_promotion(p) ==
  /\ Fait(p, "envoye")
  /\ LET o == objets[promotions[p].cle] IN
     Retenir(p, [promotions[p] EXCEPT !.etape = "relu",
       !.cle = IF o # Rien /\ Contient(promotions[p].fichier, o) THEN @ ELSE Rien])
  /\ UNCHANGED <<ligne, objets>>

(* The transport fails, before or after the write. *)
echec_promotion(p) ==
  /\ promotions[p] # Rien /\ promotions[p].etape \in {"a_promouvoir", "cle", "envoye"}
  /\ Retenir(p, [promotions[p] EXCEPT !.etape = "relu", !.cle = Rien])
  /\ UNCHANGED <<ligne, objets>>

(* The row of the path, whatever it has become since. *)
maj_document(p) ==
  /\ Fait(p, "relu")
  /\ LET f == promotions[p].fichier
         k == promotions[p].cle IN
     ligne' = IF ligne[f] = Rien THEN ligne
              ELSE [ligne EXCEPT ![f] = [@ EXCEPT !.cle = k, !.envoye = k # Rien]]
  /\ Retenir(p, Rien)
  /\ UNCHANGED objets

(* A refusal of the upsert, a file that is gone, the end of the process. *)
mort_promotion(p) ==
  /\ promotions[p] # Rien
  /\ Retenir(p, Rien)
  /\ UNCHANGED <<ligne, objets>>

NextPromotion(p) ==
  \/ \E f \in Fichiers :
       \/ p = "depot" /\ (lire_depot(f) \/ deposer(f))
       \/ p = "reprise" /\ promouvoir_en_attente(f)
  \/ choisir_cle(p) \/ ecrire_objet(p) \/ relire_promotion(p)
  \/ echec_promotion(p) \/ maj_document(p) \/ mort_promotion(p)
=============================================================================
