-------------------------- MODULE PromotionObjets --------------------------
(***************************************************************************)
(* Promotion of a session: the worker of its lot copies every file to the  *)
(* object store, reads each copy back, and keeps the keys of the copies in *)
(* a journal, then in the manifest                                         *)
(* (promouvoir_session_televersement_objets).                              *)
(*                                                                         *)
(* The key of a copy is its number: the proposed key depends on the path   *)
(* and the contents only, and a key already taken gives the next free one. *)
(* The files are taken in any order; each is the document of a folder.     *)
(***************************************************************************)
EXTENDS SessionTeleversement

(* The copy of f that the manifest, or else the journal, designates.       *)
AuJournal(f) == {e \in journal : e.nom = f}
CleConnue(p, f) == lu[p].cles[f] # 0 \/ AuJournal(f) # {}
Cle(p, f) == IF lu[p].cles[f] # 0 THEN lu[p].cles[f]
             ELSE (CHOOSE e \in AuJournal(f) : TRUE).cle

(* _reprendre_journal_promotion: an entry has the fingerprint of the       *)
(* manifest, and a file has one key.                                       *)
JournalLisible(m) ==
    \A e \in journal :
      /\ e.nom \in DOMAIN m.recus /\ e.sha = m.recus[e.nom]
      /\ m.cles[e.nom] \in {0, e.cle}
      /\ \A autre \in AuJournal(e.nom) : autre.cle = e.cle

(* The deposit checks that the session belongs to the lot, then promotes.  *)
Promouvoir(p) ==
    LET m == Reconcilie(manifeste) IN
    /\ Entrer(p, "promotion") /\ manifeste.idLot # SansLot
    /\ manifeste.statut = "pret" /\ Reconciliable(manifeste)
    /\ JournalLisible(m)
    /\ manifeste' = m
    /\ lu' = [lu EXCEPT ![p] = m]
    /\ reste' = [reste EXCEPT ![p] = DOMAIN m.recus]
    /\ pc' = [pc EXCEPT ![p] = "copier"]
    /\ promu' = FALSE
    /\ Prendre(p)
    /\ UNCHANGED <<registre, rendus, repertoire, disque, greffe, journal, objets, base,
                   envoi, tampon, nouveau, temoins, pannes, fautes>>

(* The file still has the bytes of the manifest, and its copy n has them.  *)
SourceFidele(p, f) == f \in DOMAIN disque /\ disque[f] = lu[p].recus[f]
(* Slip: the copy is not read back.                                        *)
ProuveeSansRelire(p, f, n) == SourceFidele(p, f)
Prouvee(p, f, n) == SourceFidele(p, f) /\ objets'[f][n] = disque[f]

(* A copy proven: its key is noted; an old key is already in the manifest. *)
Noter(p, f, n) ==
    /\ tampon' = [tampon EXCEPT ![p] =
                    IF lu[p].cles[f] # 0 THEN @ ELSE @ \cup {[nom |-> f, cle |-> n, sha |-> lu[p].recus[f]]}]
    /\ reste' = [reste EXCEPT ![p] = @ \ {f}]
    /\ UNCHANGED pc

(* A copy that is not: the promotion stops.                                *)
Echouer(p) == /\ pc' = [pc EXCEPT ![p] = "clore"]
              /\ UNCHANGED <<tampon, reste>>

(* A copy made earlier is read back, and never made again.                 *)
VerifierCopie(p) ==
    /\ pc[p] = "copier"
    /\ \E f \in reste[p] :
         /\ CleConnue(p, f)
         /\ UNCHANGED objets
         /\ IF Prouvee(p, f, Cle(p, f)) THEN Noter(p, f, Cle(p, f)) ELSE Echouer(p)
    /\ UNCHANGED <<session, journal, promu, base, lu, envoi, nouveau, temoins, intrus, pannes, fautes>>

(* A new copy may arrive damaged, or its answer be lost.                   *)
Copier(p) ==
    /\ pc[p] = "copier"
    /\ \E f \in reste[p], repond \in BOOLEAN :
         LET n == Len(objets[f]) + 1 IN
         /\ ~CleConnue(p, f) /\ SourceFidele(p, f) /\ n <= MaxCopies
         /\ \E c \in {disque[f], Tronque} : objets' = [objets EXCEPT ![f] = Append(@, c)]
         /\ IF repond /\ Prouvee(p, f, n) THEN Noter(p, f, n) ELSE Echouer(p)
    /\ UNCHANGED <<session, journal, promu, base, lu, envoi, nouveau, temoins, intrus, pannes, fautes>>

(* The claim was lost, a file changed, or a copy never left.               *)
Interrompre(p) ==
    /\ pc[p] = "copier" /\ reste[p] # {}
    /\ Echouer(p)
    /\ UNCHANGED <<session, copies, base, lu, envoi, nouveau, temoins, intrus, pannes, fautes>>

(* The lines of the journal reach the disk: every 64 of them, when the     *)
(* buffer is full, and at the end.                                         *)
Vider(p) ==
    /\ pc[p] \in {"copier", "clore"} /\ ~(tampon[p] \subseteq journal)
    /\ journal' = journal \cup tampon[p]
    /\ UNCHANGED <<session, objets, promu, base, locales, temoins, intrus, pannes, fautes>>

Nouvelles(p) == [f \in {e.nom : e \in tampon[p]} |->
                   (CHOOSE e \in tampon[p] : e.nom = f).cle]

(* Then the keys go to the manifest, even after a failure.                 *)
SauverCles(p) ==
    /\ pc[p] = "clore" \/ (pc[p] = "copier" /\ reste[p] = {})
    /\ tampon[p] \subseteq journal
    /\ manifeste' = IF tampon[p] = {} THEN manifeste
                    ELSE [lu[p] EXCEPT !.cles = Avec(Nouvelles(p), @)]
    /\ IF pc[p] = "clore"
       THEN Sortir(p)
       ELSE /\ pc' = [pc EXCEPT ![p] = "effacer"]
            /\ UNCHANGED <<verrou, lu, envoi, reste, tampon, nouveau>>
    /\ UNCHANGED <<registre, rendus, repertoire, disque, greffe, copies, base, temoins,
                   intrus, pannes, fautes>>

(* Every file is proven: the journal goes and the deposit gets the keys.   *)
EffacerJournal(p) ==
    /\ pc[p] = "effacer"
    /\ journal' = {}
    /\ promu' = TRUE
    /\ pc' = [pc EXCEPT ![p] = "deposer"]
    /\ Rendre(p)
    /\ lu' = [lu EXCEPT ![p] = Absent]
    /\ tampon' = [tampon EXCEPT ![p] = {}]
    /\ UNCHANGED <<registre, rendus, repertoire, manifeste, disque, greffe, objets, base,
                   envoi, reste, nouveau, temoins, intrus, pannes, fautes>>

(* The deposit of the folders (module Lots). A folder that already has a   *)
(* record is settled, then its files are removed                           *)
(* (_supprimer_copies_rejeu).                                              *)
Deposer(p) ==
    /\ pc[p] = "deposer"
    /\ \E f \in DOMAIN disque \ deposes :
         /\ deposes' = deposes \cup {f}
         /\ disque' = IF f \in DejaConnus THEN Restrict(disque, DOMAIN disque \ {f}) ELSE disque
    /\ UNCHANGED <<registre, rendus, repertoire, manifeste, verrou, greffe, copies, lots,
                   locales, temoins, intrus, pannes, fautes>>

(* The pass ends, or stops between two folders.                            *)
FinirPasse(p) ==
    /\ pc[p] = "deposer"
    /\ Oublier(p)
    /\ UNCHANGED <<session, copies, base, temoins, intrus, pannes, fautes>>

PasPromotion(p) ==
    \/ Promouvoir(p) \/ VerifierCopie(p) \/ Copier(p) \/ Interrompre(p)
    \/ Vider(p) \/ SauverCles(p) \/ EffacerJournal(p)
    \/ Deposer(p) \/ FinirPasse(p)
=============================================================================
