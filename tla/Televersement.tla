--------------------------- MODULE Televersement ---------------------------
(***************************************************************************)
(* An upload session with its requests, its promotion and its faults, and  *)
(* the properties of the whole.                                            *)
(***************************************************************************)
EXTENDS PromotionObjets

(* A process is killed, or one of its writes fails: its locks go with it,  *)
(* its unwritten lines too, what reached the disk stays.                   *)
Panne(p) ==
    /\ pannes < MaxPannes /\ pc[p] # "repos"
    /\ pannes' = pannes + 1
    /\ greffe' = IF greffe = p THEN Personne ELSE greffe
    /\ Sortir(p)
    /\ UNCHANGED <<registre, rendus, repertoire, manifeste, disque, copies, base, temoins,
                   intrus, fautes>>

(* A received file is lost or changed on disk.                             *)
Alterer ==
    /\ fautes < MaxFautes
    /\ \E f \in DOMAIN disque :
         \/ disque' = Restrict(disque, DOMAIN disque \ {f})
         \/ disque' = [disque EXCEPT ![f] = Abime]
    /\ fautes' = fautes + 1
    /\ UNCHANGED <<registre, rendus, repertoire, manifeste, verrou, greffe, copies, base,
                   locales, temoins, intrus, pannes>>

(* A copy is damaged in the store while nobody promotes.                   *)
AltererCopie ==
    /\ fautes < MaxFautes
    /\ \A p \in Processus : pc[p] \notin {"copier", "clore", "effacer"}
    /\ \E f \in Fichiers : \E n \in DOMAIN objets[f] :
         /\ objets[f][n] # Tronque
         /\ objets' = [objets EXCEPT ![f][n] = Tronque]
    /\ promu' = FALSE
    /\ fautes' = fautes + 1
    /\ UNCHANGED <<session, journal, base, locales, temoins, intrus, pannes>>

Next == \/ \E p \in Processus : PasSession(p) \/ PasPromotion(p) \/ Panne(p)
        \/ Alterer \/ AltererCopie

Spec == InitTeleversement /\ [][Next]_vars

-----------------------------------------------------------------------------
Pcs == {"repos", "creer", "marquer", "promouvoir", "supprimer", "creerLot", "associer",
        "copier", "clore", "effacer", "deposer"}

TypeSession ==
    /\ registre \in [jeton : {0, 1}, cree : BOOLEAN]
    /\ rendus \subseteq {1} /\ repertoire \in BOOLEAN
    /\ manifeste \in Manifestes \cup {Absent}
    /\ disque \in Recus
    /\ verrou \in [present : BOOLEAN, tenant : Processus \cup {Personne}]
    /\ greffe \in Processus \cup {Personne}
TypeCopies ==
    /\ journal \subseteq Entrees
    /\ objets \in [Fichiers -> Seq(SurDisque \cup {Tronque})]
    /\ promu \in BOOLEAN /\ lots \in Nat /\ deposes \subseteq Fichiers
TypeLocales ==
    /\ pc \in [Processus -> Pcs]
    /\ lu \in [Processus -> Manifestes \cup {Absent}]
    /\ envoi \in [Processus -> Recus]
    /\ reste \in [Processus -> SUBSET (Fichiers \cup Structure)]
    /\ tampon \in [Processus -> SUBSET Entrees]
    /\ nouveau \in [Processus -> Nat]
TypeTemoins ==
    /\ accuses \in Recus /\ lotsRendus \subseteq Nat \ {0}
    /\ annulation \in {"aucune", "entamee", "accusee"}
    /\ intrus \in BOOLEAN /\ pannes \in Nat /\ fautes \in Nat

(* What a process may count on at each place.                              *)
Coherence ==
    /\ verrou.tenant # Personne => verrou.present
    /\ manifeste # Absent /\ manifeste.idLot # SansLot => manifeste.statut = "pret"
    /\ \A p \in Processus :
         /\ pc[p] \in {"creer", "marquer"} => registre.jeton = 1
         /\ pc[p] \in {"promouvoir", "copier", "clore"} =>
              lu[p] # Absent /\ (lu[p].idLot # SansLot => lu[p].statut = "pret")
         /\ pc[p] = "associer" => nouveau[p] # SansLot
         /\ greffe = p <=> pc[p] = "marquer"

(* Types of the state; which locals and locks a request has at each place. *)
TypeTeleversement ==
    TypeSession /\ TypeCopies /\ TypeLocales /\ TypeTemoins /\ Coherence

(* A file whose reception was answered is on disk and in the manifest with *)
(* the bytes received, as long as nobody cancels and the disk keeps what   *)
(* it holds: no other request, no crash takes it away                      *)
(* (_recevoir_fichiers_televersement_lot_interne, _verrou_session). Only   *)
(* the deposit removes one from the disk, when its folder had a record     *)
(* (_supprimer_copies_rejeu).                                              *)
AccuseTenu ==
    (annulation = "aucune" /\ fautes = 0 /\ manifeste # Absent) =>
        \A f \in DOMAIN accuses :
          /\ f \in DOMAIN manifeste.recus /\ manifeste.recus[f] = accuses[f]
          /\ f \notin deposes \cap DejaConnus => f \in DOMAIN disque /\ disque[f] = accuses[f]

(* A session with a lot was complete, and no other file is on its disk; it *)
(* keeps there all the files announced: cancellation, late uploads and     *)
(* crashes leave them alone. Only the deposit removes some, those of       *)
(* folders that already have a record, and a removal that had deleted the  *)
(* lock before the manifest when the session was entered again: it goes on *)
(* under the lot (creer_lot_session_televersement, _supprimer_copies_rejeu,*)
(* _annuler_session_televersement_lot_interne).                            *)
LotComplet ==
    (fautes = 0 /\ manifeste # Absent) =>
        (manifeste.idLot # SansLot =>
            /\ Complet(manifeste.recus)
            /\ DOMAIN disque \subseteq DOMAIN manifeste.recus
            /\ intrus \/ \A f \in DOMAIN manifeste.recus \ (deposes \cap DejaConnus) :
                            f \in DOMAIN disque /\ disque[f] = manifeste.recus[f])

(* A client is never told of two lots for one session, even though a crash *)
(* may leave one behind that nobody hears of.                              *)
UnSeulLotRendu == Cardinality(lotsRendus) <= 1

(* Once its cancellation is answered a session never comes back, neither   *)
(* by its key nor by a late request, and no lot of it was ever answered    *)
(* (_creer_session_idempotente, _annuler_session_televersement_lot).       *)
AnnulationDefinitive ==
    annulation = "accusee" => manifeste = Absent /\ disque = Vide /\ lotsRendus = {}

(* A key kept in the manifest or the journal designates a copy that was    *)
(* proven: it has the bytes of the manifest unless the store lost them     *)
(* (promouvoir_session_televersement_objets).                              *)
CopieFidele(f, n) == n \in DOMAIN objets[f] /\ objets[f][n] = manifeste.recus[f]
ClesProuvees ==
    (fautes = 0 /\ manifeste # Absent) =>
        /\ \A f \in Fichiers : manifeste.cles[f] # 0 => CopieFidele(f, manifeste.cles[f])
        /\ \A e \in journal : CopieFidele(e.nom, e.cle)

(* No crash leaves a journal that every later promotion would refuse       *)
(* (_reprendre_journal_promotion).                                         *)
JournalReprenable == manifeste # Absent => JournalLisible(manifeste)

(* A promotion that succeeds has a faithful copy of every file of the lot, *)
(* even if files or copies were damaged before it.                         *)
PromotionEntiere ==
    (promu /\ manifeste # Absent) =>
             /\ Complet(manifeste.recus)
             /\ \A f \in DOMAIN manifeste.recus : CopieFidele(f, manifeste.cles[f])

(* A promotion keeps its three promises through crashes and replays: what  *)
(* the manifest and the journal name was proven, the journal can be read   *)
(* again, and the answer "promoted" covers every file                      *)
(* (promouvoir_session_televersement_objets).                              *)
PromotionTenue == ClesProuvees /\ JournalReprenable /\ PromotionEntiere

(* The session as its client sees it.                                      *)
Phase == IF manifeste = Absent
         THEN IF annulation = "aucune" THEN "attendu" ELSE "annule"
         ELSE IF manifeste.idLot # SansLot THEN "associe" ELSE manifeste.statut
Annonce == INSTANCE TransfertAnnonce WITH
             Transferts <- Recus, Entier <- Complet,
             Rien <- Vide, phase <- Phase,
             recus <- IF manifeste = Absent THEN Vide ELSE manifeste.recus,
             lot <- IF manifeste = Absent THEN SansLot ELSE manifeste.idLot

(* Every step of the code is a step of the promise, in whatever order a    *)
(* removal takes the entries of the directory, until a request enters a    *)
(* session under a removal that has already deleted its lock.              *)
TientSaPromesse ==
    /\ Annonce!InitTransfert
    /\ [][Annonce!NextTransfert \/ intrus']_(Annonce!varsTransfert)

----------------------------------------------------------------------------
(* Inductive strengthenings: what a request on a session may rely on while *)
(* it works, and what an answer given leaves behind.                       *)

(* Places reached under the session lock, but for a removal.               *)
SousVerrou == {"promouvoir", "creerLot", "associer", "copier", "clore", "effacer"}

(* Whoever works on a session holds its lock; a removal holds it until it  *)
(* deletes the lock itself.                                                *)
Tient(p) == \/ pc[p] \in SousVerrou
            \/ pc[p] = "supprimer" /\ "session.lock" \in reste[p]
InvVerrou == \A p \in Processus : Tient(p) => verrou.tenant = p

(* Nobody knows a session, and so works on it, before its row says that it *)
(* exists.                                                                 *)
InvCree ==
    /\ registre.cree => registre.jeton = 1
    /\ rendus # {} \/ annulation # "aucune" \/ lotsRendus # {} => registre.cree
    /\ \A p \in Processus : pc[p] \in SousVerrou \cup {"supprimer"} => registre.cree

(* Files are received before the lot is made, and promoted after.          *)
InvLu ==
    \A p \in Processus :
      /\ pc[p] = "promouvoir" => lu[p].idLot = SansLot
      /\ pc[p] \in {"copier", "clore"} => lu[p].idLot # SansLot

(* A lot answered is the lot of the manifest, and of the copy of it that   *)
(* will be saved; no removal can be answered any more: a lock file was     *)
(* made that none of them has listed.                                      *)
InvRendu ==
    lotsRendus # {} =>
      /\ verrou.present /\ annulation # "accusee"
      /\ \E n \in lotsRendus :
           /\ lotsRendus = {n}
           /\ manifeste # Absent => manifeste.idLot = n
           /\ \A p \in Processus : pc[p] \in {"copier", "clore"} => lu[p].idLot = n
      /\ \A p \in Processus : /\ pc[p] \notin {"promouvoir", "creerLot", "associer"}
                              /\ pc[p] = "supprimer" => "session.lock" \notin reste[p]

(* A cancellation answered left nothing, and nobody is at work.            *)
InvAccuse ==
    annulation = "accusee" =>
      /\ manifeste = Absent /\ disque = Vide /\ lotsRendus = {}
      /\ ~repertoire /\ ~verrou.present

InvSession == InvVerrou /\ InvCree /\ InvLu /\ InvRendu /\ InvAccuse

(* The manifests that count: the one on disk, and the copy of it that a    *)
(* request saves at its end, even when a removal took the first away. They *)
(* are one, and it changes under the lock only.                            *)
AvecCopie == {"promouvoir", "copier", "clore"}
Documents == ({manifeste} \cup {lu[p] : p \in {q \in Processus : pc[q] \in AvecCopie}}) \ {Absent}
InvDocuments ==
    \A p \in Processus :
      /\ pc[p] \in AvecCopie => manifeste \in {Absent, lu[p]}
      /\ pc[p] = "promouvoir" => lu[p].statut = "en_cours"
      /\ pc[p] = "effacer" => manifeste = Absent \/ manifeste.idLot # SansLot

(* A session marked ready has all that was announced, and no more on disk. *)
InvPret ==
    \A m \in Documents : m.statut = "pret" =>
      Complet(m.recus) /\ DOMAIN disque \subseteq DOMAIN m.recus

(* As long as nobody enters a session under a removal.                     *)
Serein == ~intrus \/ annulation = "aucune"

(* The manifest changes under the lock only: what was read of it is still  *)
(* true, and a session that has a lot stays.                               *)
InvManifeste ==
    Serein => \A p \in Processus :
      /\ pc[p] \in {"promouvoir", "copier", "clore"} => lu[p] = manifeste
      /\ pc[p] = "promouvoir" => manifeste.statut = "en_cours"
      /\ pc[p] = "supprimer" =>
           /\ annulation # "aucune"
           /\ \A q \in Processus \ {p} : pc[q] \in {"repos", "creer", "marquer"}
           /\ manifeste # Absent => manifeste.idLot = SansLot /\ "session.json" \in reste[p]
      /\ pc[p] \in {"creerLot", "associer"} =>
           manifeste # Absent /\ manifeste.statut = "pret" /\ manifeste.idLot = SansLot
      /\ pc[p] \in {"effacer", "deposer"} => manifeste # Absent /\ manifeste.idLot # SansLot

(* r is on disk, but for what the deposit removed.                         *)
SurLeDisque(r) == \A f \in DOMAIN r \ (deposes \cap DejaConnus) :
                    f \in DOMAIN disque /\ disque[f] = r[f]

(* The files of the manifest are on disk: always when nobody cancels, and  *)
(* in any case once a lot is made of them.                                 *)
InvDisque ==
    /\ Serein /\ (manifeste = Absent \/ manifeste.idLot = SansLot) => deposes = {}
    /\ Serein /\ fautes = 0 /\ manifeste # Absent =>
         /\ annulation = "aucune" \/ manifeste.idLot # SansLot => SurLeDisque(manifeste.recus)
         /\ \A p \in Processus : pc[p] \in {"creerLot", "associer"} => SurLeDisque(manifeste.recus)

(* What was answered is in the manifest; what will be is on disk, or on    *)
(* its way there.                                                          *)
InvRecus ==
    annulation = "aucune" /\ fautes = 0 =>
      /\ manifeste = Absent => accuses = Vide
      /\ manifeste # Absent => \A f \in DOMAIN accuses : /\ f \in DOMAIN manifeste.recus
                                                         /\ manifeste.recus[f] = accuses[f]
      /\ \A p \in Processus : pc[p] = "promouvoir" => \A f \in DOMAIN envoi[p] :
           /\ f \in DOMAIN manifeste.recus => manifeste.recus[f] = envoi[p][f]
           /\ \/ f \in reste[p] /\ f \notin DOMAIN manifeste.recus
              \/ f \in DOMAIN disque /\ disque[f] = envoi[p][f]

(* A copy of f that exists, and that has the bytes of the manifest m.      *)
Existe(m, f, n) == f \in DOMAIN m.recus /\ n \in DOMAIN objets[f]
Tenue(m, f, n) == Existe(m, f, n) /\ objets[f][n] = m.recus[f]

(* No key before the lot. A key is that of a copy, which is faithful but   *)
(* for the faults of the store.                                            *)
ClesTenues(m) ==
    /\ m.idLot = SansLot => journal = {} /\ ~promu /\ m.cles = SansCle
    /\ \A f \in Fichiers : m.cles[f] # 0 =>
         Existe(m, f, m.cles[f]) /\ (fautes = 0 => Tenue(m, f, m.cles[f]))
    /\ \A e \in journal : Existe(m, e.nom, e.cle) /\ (fautes = 0 => Tenue(m, e.nom, e.cle))
    /\ JournalLisible(m)
InvCles == /\ ~registre.cree => journal = {} /\ ~promu
           /\ \A m \in Documents : ClesTenues(m)

(* A promotion under way: every file done has a key whose copy was proven, *)
(* one key, the same in the buffer and in the journal.                     *)
InvTampon ==
    \A p \in Processus :
      /\ pc[p] \notin {"copier", "clore", "effacer"} => tampon[p] = {}
      /\ pc[p] \in {"copier", "clore"} =>
           /\ ~promu
           /\ \A e \in tampon[p] :
                /\ Tenue(lu[p], e.nom, e.cle) /\ e.sha = lu[p].recus[e.nom]
                /\ lu[p].cles[e.nom] = 0 /\ e.nom \notin reste[p]
                /\ \A a \in tampon[p] \cup journal : a.nom = e.nom => a.cle = e.cle
      /\ pc[p] = "copier" =>
           /\ reste[p] \subseteq DOMAIN lu[p].recus
           /\ \A f \in DOMAIN lu[p].recus \ reste[p] :
                \/ lu[p].cles[f] # 0 /\ Tenue(lu[p], f, lu[p].cles[f])
                \/ \E e \in tampon[p] : e.nom = f
      /\ pc[p] = "effacer" =>
           /\ ~promu
           /\ manifeste # Absent =>
                \A f \in DOMAIN manifeste.recus : Tenue(manifeste, f, manifeste.cles[f])

(* What a promotion said done is.                                          *)
InvPromu ==
    promu /\ manifeste # Absent =>
      /\ manifeste.idLot # SansLot
      /\ \A f \in DOMAIN manifeste.recus : Tenue(manifeste, f, manifeste.cles[f])

InvPromesse == /\ InvDocuments /\ InvPret /\ InvManifeste /\ InvDisque /\ InvRecus
               /\ InvCles /\ InvTampon /\ InvPromu
=============================================================================
