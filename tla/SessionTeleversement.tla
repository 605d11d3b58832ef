------------------------ MODULE SessionTeleversement ------------------------
(***************************************************************************)
(* The requests on an upload session: creation under a key, reception of   *)
(* files, state, completion, cancellation, creation of the lot.            *)
(* A request refused before it writes leaves no trace and has no action.   *)
(***************************************************************************)
EXTENDS EtatTeleversement

(* Any answer may be lost: the client then knows nothing, and asks again.   *)
(* What the ghosts keep was answered as soon as it is saved, heard or not.  *)
ReponseEventuelle(v, w) == v' \in {v, w}

-----------------------------------------------------------------------------
(* _creer_session_idempotente. First transaction: the token is reserved.   *)
CreerReserver(p) ==
    /\ "creer" \in Operations
    /\ pc[p] = "repos" /\ greffe = Personne
    /\ registre' = IF registre.jeton = 0 THEN [jeton |-> 1, cree |-> FALSE] ELSE registre
    /\ pc' = [pc EXCEPT ![p] = "creer"]
    /\ UNCHANGED <<rendus, repertoire, manifeste, disque, verrou, greffe, copies, base,
                   lu, envoi, reste, tampon, nouveau, temoins, intrus, pannes, fautes>>

(* Second transaction, the manifest exists: it is read under the session   *)
(* lock, while the registry is held.                                       *)
CreerRelire(p) ==
    /\ pc[p] = "creer" /\ greffe = Personne /\ manifeste # Absent /\ Libre
    /\ registre' = [registre EXCEPT !.cree = TRUE]
    /\ ReponseEventuelle(rendus, rendus \cup {registre.jeton})
    /\ verrou' = [present |-> TRUE, tenant |-> Personne]
    /\ Oublier(p)
    /\ UNCHANGED <<repertoire, manifeste, disque, greffe, copies, base, temoins,
                   intrus, pannes, fautes>>

(* No manifest, and none was ever completed: the directory is made.        *)
CreerDossier(p) ==
    /\ pc[p] = "creer" /\ greffe = Personne /\ manifeste = Absent /\ ~registre.cree
    /\ repertoire' = TRUE
    /\ manifeste' = ManifesteVierge
    /\ greffe' = p
    /\ pc' = [pc EXCEPT ![p] = "marquer"]
    /\ UNCHANGED <<registre, rendus, disque, verrou, copies, base, lu, envoi, reste,
                   tampon, nouveau, temoins, intrus, pannes, fautes>>

(* No manifest, but one was completed: the session was removed. Refused.   *)
CreerRefuse(p) ==
    /\ pc[p] = "creer" /\ greffe = Personne /\ manifeste = Absent /\ registre.cree
    /\ Oublier(p)
    /\ UNCHANGED <<session, copies, base, temoins, intrus, pannes, fautes>>

(* Slip: the row does not remember that the session existed.               *)
CreerMarquerSansTrace(p) ==
    /\ pc[p] = "marquer"
    /\ greffe' = Personne
    /\ ReponseEventuelle(rendus, rendus \cup {registre.jeton})
    /\ Oublier(p)
    /\ UNCHANGED <<registre, repertoire, manifeste, disque, verrou, copies, base, temoins,
                   intrus, pannes, fautes>>

(* The first manifest is on disk: the row says so, then the token is known.*)
CreerMarquer(p) ==
    /\ pc[p] = "marquer"
    /\ registre' = [registre EXCEPT !.cree = TRUE]
    /\ greffe' = Personne
    /\ ReponseEventuelle(rendus, rendus \cup {registre.jeton})
    /\ Oublier(p)
    /\ UNCHANGED <<repertoire, manifeste, disque, verrou, copies, base, temoins,
                   intrus, pannes, fautes>>

-----------------------------------------------------------------------------
(* _recevoir_fichiers_televersement_lot_interne.                           *)
Heurte(f, D, paires) == \E g \in D : f # g /\ {f, g} \in paires

(* e may be received: no collision in it, none of case with the manifest   *)
(* nor of folder with the disk; what was already received is the same.     *)
Recevable(e) ==
    LET recus == manifeste.recus IN
    /\ manifeste.statut = "en_cours"
    /\ \A f \in DOMAIN e :
         /\ ~Heurte(f, DOMAIN e, MemeCasse \cup Imbriques)
         /\ ~Heurte(f, DOMAIN recus, MemeCasse)
         /\ ~Heurte(f, DOMAIN disque, Imbriques)
         /\ f \in DOMAIN recus => recus[f] = e[f]
         /\ f \in DOMAIN disque \ DOMAIN recus => disque[f] = e[f]
    /\ DansAnnonce(Avec(recus, e))

(* The contents are written in .tmp; what is neither in the manifest nor   *)
(* on disk is to be promoted.                                              *)
Recevoir(p) ==
    /\ Entrer(p, "recevoir")
    /\ \E e \in Partielles(Contenus) \ {Vide} :
         /\ \A f \in DOMAIN e : e[f] \in Versions[f]
         /\ Recevable(e)
         /\ envoi' = [envoi EXCEPT ![p] = e]
         /\ reste' = [reste EXCEPT ![p] = DOMAIN e \ (DOMAIN manifeste.recus \cup DOMAIN disque)]
    /\ lu' = [lu EXCEPT ![p] = manifeste]
    /\ pc' = [pc EXCEPT ![p] = "promouvoir"]
    /\ Prendre(p)
    /\ UNCHANGED <<registre, rendus, repertoire, manifeste, disque, greffe, copies, base,
                   tampon, nouveau, temoins, pannes, fautes>>

(* os.replace of one file; its temporary file may have been removed.       *)
PromouvoirFichier(p) ==
    /\ pc[p] = "promouvoir"
    /\ \E f \in reste[p] \cap DOMAIN envoi[p] :
         /\ disque' = Avec(Un(f, envoi[p][f]), disque)
         /\ reste' = [reste EXCEPT ![p] = @ \ {f}]
    /\ UNCHANGED <<registre, rendus, repertoire, manifeste, verrou, greffe, copies, base,
                   pc, lu, envoi, tampon, nouveau, temoins, intrus, pannes, fautes>>

PromotionRompue(p) ==
    /\ pc[p] = "promouvoir" /\ reste[p] # {} /\ envoi[p] = Vide
    /\ Sortir(p)
    /\ UNCHANGED <<registre, rendus, repertoire, manifeste, disque, greffe, copies, base,
                   temoins, intrus, pannes, fautes>>

(* The manifest read at the beginning is saved with what was received.     *)
SauverEnvoi(p) ==
    /\ pc[p] = "promouvoir" /\ reste[p] = {}
    /\ manifeste' = [lu[p] EXCEPT !.recus = Avec(@, envoi[p])]
    /\ accuses' = Avec(accuses, envoi[p])
    /\ Sortir(p)
    /\ UNCHANGED <<registre, rendus, repertoire, disque, greffe, copies, base, lotsRendus,
                   annulation, intrus, pannes, fautes>>

-----------------------------------------------------------------------------
(* etat_session_televersement_lot, as the route calls it.                  *)
Etat(p) ==
    /\ Entrer(p, "etat") /\ Reconciliable(manifeste)
    /\ manifeste' = Reconcilie(manifeste)
    /\ EnUnPas(p)
    /\ UNCHANGED <<registre, rendus, repertoire, disque, greffe, copies, base, temoins,
                   pannes, fautes>>

(* Slip: the counts announced are not compared.                            *)
TerminerSansCompte(p) ==
    /\ Entrer(p, "terminer") /\ Reconciliable(manifeste)
    /\ manifeste' = [Reconcilie(manifeste) EXCEPT !.statut = "pret"]
    /\ EnUnPas(p)
    /\ UNCHANGED <<registre, rendus, repertoire, disque, greffe, copies, base, temoins,
                   pannes, fautes>>

(* _terminer_session_televersement_lot_interne: the reconciled manifest is *)
(* saved even when the transfer is not complete.                           *)
Terminer(p) ==
    LET m == Reconcilie(manifeste) IN
    /\ Entrer(p, "terminer") /\ Reconciliable(manifeste)
    /\ manifeste' = [m EXCEPT !.statut = IF Complet(m.recus) THEN "pret" ELSE @]
    /\ EnUnPas(p)
    /\ UNCHANGED <<registre, rendus, repertoire, disque, greffe, copies, base, temoins,
                   pannes, fautes>>

-----------------------------------------------------------------------------
(* _annuler_session_televersement_lot_interne: rmtree lists the directory, *)
(* then removes what it listed, in the order of the file system.           *)
Annuler(p) ==
    /\ Entrer(p, "annuler") /\ manifeste.idLot = SansLot
    /\ annulation' = "entamee"
    /\ reste' = [reste EXCEPT ![p] = Structure \cup DOMAIN disque]
    /\ pc' = [pc EXCEPT ![p] = "supprimer"]
    /\ Prendre(p)
    /\ UNCHANGED <<registre, rendus, repertoire, manifeste, disque, greffe, copies, base,
                   lu, envoi, tampon, nouveau, accuses, lotsRendus, pannes, fautes>>

SupprimerManifeste(p) ==
    /\ pc[p] = "supprimer" /\ "session.json" \in reste[p]
    /\ manifeste' = Absent
    /\ reste' = [reste EXCEPT ![p] = @ \ {"session.json"}]
    /\ UNCHANGED <<registre, rendus, repertoire, disque, verrou, greffe, copies, base,
                   pc, lu, envoi, tampon, nouveau, temoins, intrus, pannes, fautes>>

SupprimerVerrou(p) ==
    /\ pc[p] = "supprimer" /\ "session.lock" \in reste[p]
    /\ verrou' = [present |-> FALSE, tenant |-> Personne]
    /\ reste' = [reste EXCEPT ![p] = @ \ {"session.lock"}]
    /\ UNCHANGED <<registre, rendus, repertoire, manifeste, disque, greffe, copies, base,
                   pc, lu, envoi, tampon, nouveau, temoins, intrus, pannes, fautes>>

(* The temporary files of another request go with .tmp.                    *)
SupprimerTemporaires(p) ==
    /\ pc[p] = "supprimer" /\ ".tmp" \in reste[p]
    /\ envoi' = [q \in Processus |-> IF reste[q] # {} THEN Vide ELSE envoi[q]]
    /\ reste' = [reste EXCEPT ![p] = @ \ {".tmp"}]
    /\ UNCHANGED <<session, copies, base, pc, lu, tampon, nouveau, temoins, intrus, pannes, fautes>>

SupprimerFichier(p) ==
    /\ pc[p] = "supprimer"
    /\ \E f \in Fichiers :
         /\ f \in reste[p]
         /\ disque' = Restrict(disque, DOMAIN disque \ {f})
         /\ reste' = [reste EXCEPT ![p] = @ \ {f}]
    /\ UNCHANGED <<registre, rendus, repertoire, manifeste, verrou, greffe, copies, base,
                   pc, lu, envoi, tampon, nouveau, temoins, intrus, pannes, fautes>>

(* The directory itself goes only if nothing appeared since the listing:   *)
(* the cancellation is answered then, and fails otherwise.                 *)
FinirSuppression(p) ==
    /\ pc[p] = "supprimer" /\ reste[p] = {}
    /\ IF manifeste = Absent /\ ~verrou.present /\ disque = Vide
       THEN /\ repertoire' = FALSE
            /\ ReponseEventuelle(annulation, "accusee")
       ELSE UNCHANGED <<repertoire, annulation>>
    /\ Sortir(p)
    /\ UNCHANGED <<registre, rendus, manifeste, disque, greffe, copies, base, accuses,
                   lotsRendus, intrus, pannes, fautes>>

(* A request that had seen the manifest before it went takes the lock, and *)
(* leaves a lock file behind when it finds no manifest.                    *)
EntrerTropTard(p) ==
    /\ pc[p] = "repos" /\ repertoire /\ manifeste = Absent /\ ~verrou.present
    /\ \E q \in Processus \ {p} : pc[q] = "supprimer"
    /\ EnUnPas(p)
    /\ UNCHANGED <<registre, rendus, repertoire, manifeste, disque, greffe, copies, base,
                   temoins, intrus, pannes, fautes>>

-----------------------------------------------------------------------------
(* _creer_lot_session_televersement_interne: a session marked ready is     *)
(* reconciled first (_racine_session_televersement_lot_interne).           *)
EntrerLot(p) == /\ Entrer(p, "lot")
                /\ manifeste.statut = "pret" /\ Reconciliable(manifeste)
                /\ manifeste' = Reconcilie(manifeste)

(* The session has a lot already: the request answers it.                  *)
RetrouverLot(p) ==
    /\ EntrerLot(p) /\ manifeste.idLot # SansLot
    /\ lotsRendus' = lotsRendus \cup {manifeste.idLot}
    /\ EnUnPas(p)
    /\ UNCHANGED <<registre, rendus, repertoire, disque, greffe, copies, base, accuses,
                   annulation, pannes, fautes>>

OuvrirLot(p) ==
    /\ EntrerLot(p) /\ manifeste.idLot = SansLot /\ lots < MaxLots
    /\ manifeste'.statut = "pret"
    /\ pc' = [pc EXCEPT ![p] = "creerLot"]
    /\ Prendre(p)
    /\ UNCHANGED <<registre, rendus, repertoire, disque, greffe, copies, base,
                   lu, envoi, reste, tampon, nouveau, temoins, pannes, fautes>>

(* Files went missing: the session is open again and makes no lot.         *)
LotRefuse(p) ==
    /\ EntrerLot(p) /\ manifeste.idLot = SansLot
    /\ manifeste'.statut = "en_cours"
    /\ EnUnPas(p)
    /\ UNCHANGED <<registre, rendus, repertoire, disque, greffe, copies, base, temoins,
                   pannes, fautes>>

(* creer_lot commits, or finds no folder to deposit.                       *)
CreerLot(p) ==
    /\ pc[p] = "creerLot"
    /\ lots' = lots + 1 /\ UNCHANGED deposes
    /\ nouveau' = [nouveau EXCEPT ![p] = lots + 1]
    /\ pc' = [pc EXCEPT ![p] = "associer"]
    /\ UNCHANGED <<session, copies, lu, envoi, reste, tampon, temoins, intrus, pannes, fautes>>

LotImpossible(p) ==
    /\ pc[p] = "creerLot"
    /\ Sortir(p)
    /\ UNCHANGED <<registre, rendus, repertoire, manifeste, disque, greffe, copies, base,
                   temoins, intrus, pannes, fautes>>

(* The manifest is read again: it may be gone, or hold another lot.        *)
Associable(n) == /\ manifeste # Absent /\ manifeste.statut = "pret"
                 /\ manifeste.idLot \in {SansLot, n}
(* Slip: the answer precedes the save, which does not come.                *)
AssocierSansSauver(p) ==
    /\ pc[p] = "associer"
    /\ lotsRendus' = lotsRendus \cup {nouveau[p]}
    /\ Sortir(p)
    /\ UNCHANGED <<registre, rendus, repertoire, manifeste, disque, greffe, copies, base,
                   accuses, annulation, intrus, pannes, fautes>>

Associer(p) ==
    /\ pc[p] = "associer"
    /\ IF Associable(nouveau[p])
       THEN /\ manifeste' = [manifeste EXCEPT !.idLot = nouveau[p]]
            /\ lotsRendus' = lotsRendus \cup {nouveau[p]}
       ELSE UNCHANGED <<manifeste, lotsRendus>>
    /\ Sortir(p)
    /\ UNCHANGED <<registre, rendus, repertoire, disque, greffe, copies, base, accuses,
                   annulation, intrus, pannes, fautes>>

-----------------------------------------------------------------------------
PasSession(p) ==
    \/ CreerReserver(p) \/ CreerRelire(p) \/ CreerDossier(p) \/ CreerRefuse(p)
    \/ CreerMarquer(p)
    \/ Recevoir(p) \/ PromouvoirFichier(p) \/ PromotionRompue(p) \/ SauverEnvoi(p)
    \/ Etat(p) \/ Terminer(p)
    \/ Annuler(p) \/ SupprimerManifeste(p) \/ SupprimerVerrou(p) \/ SupprimerTemporaires(p)
    \/ SupprimerFichier(p) \/ FinirSuppression(p) \/ EntrerTropTard(p)
    \/ RetrouverLot(p) \/ OuvrirLot(p) \/ LotRefuse(p) \/ CreerLot(p) \/ LotImpossible(p) \/ Associer(p)
=============================================================================
