-------------------------- MODULE EtatTeleversement --------------------------
(***************************************************************************)
(* State of one upload session (fiches/televersement_lot.py): the row that *)
(* reserves its token, its directory on disk (manifest, lock, received     *)
(* files, journal of promotion), the copies in the object store, the lots  *)
(* made from it, and the requests under way.                               *)
(*                                                                         *)
(* The contents of a file stand for its bytes, hence for its fingerprint.  *)
(***************************************************************************)
EXTENDS Integers, Sequences, FiniteSets, FiniteSetsExt, Functions

CONSTANTS Processus,        \* processes and threads that serve requests
          Fichiers,         \* relative paths, as normalised
          Contenus,         \* contents of files
          Versions,         \* those a client may send of each
          Abime,            \* contents of a file damaged on disk
          Tronque,          \* contents of a damaged copy
          Taille,           \* size of the contents of a file
          NombreAttendu, TailleAttendue,  \* what the creation announced
          MemeCasse,        \* pairs of paths equal but for the case
          Imbriques,        \* pairs of paths, one a folder of the other
          Absent, Personne, \* no manifest; nobody
          DejaConnus,       \* files whose folder already has a record
          Operations,       \* requests that clients of the instance send
          MaxPannes, MaxFautes, MaxCopies, MaxLots  \* bounds

(* Paths are finitely many; sizes are natural numbers; the markers are not *)
(* what they mark.                                                         *)
ASSUME HypFichiers == IsFiniteSet(Fichiers) /\ DejaConnus \subseteq Fichiers
ASSUME HypVersions == Versions \in [Fichiers -> SUBSET Contenus]
ASSUME HypContenus == /\ Taille \in [Contenus \cup {Abime} -> Nat]
                      /\ NombreAttendu \in Nat \ {0} /\ TailleAttendue \in Nat
                      /\ Abime \notin Contenus /\ Tronque \notin Contenus \cup {Abime}
                      /\ Personne \notin Processus
ASSUME HypStructure == Fichiers \cap {"session.json", "session.lock", ".tmp"} = {}
ASSUME HypBornesTeleversement == {MaxPannes, MaxFautes, MaxCopies, MaxLots} \subseteq Nat

VARIABLES registre,    \* [jeton, cree]: the row of `creations`; jeton 0: no row
          rendus,      \* tokens answered to the client
          repertoire,  \* the directory of the session exists
          manifeste,   \* session.json
          disque,      \* received files
          verrou,      \* [present, tenant]: the lock files and their holder
          greffe,      \* holder of the lock of the registry
          journal,     \* promotion-objets.jsonl: the keys noted
          objets,      \* copies of each path in the bucket, in order of writing
          lots,        \* lots committed in the database for this session
          deposes,     \* files whose folder the lot has settled
          pc, lu, envoi, reste, tampon, nouveau,  \* locals of each process
          accuses,     \* ghost: files whose reception was answered
          lotsRendus,  \* ghost: lots answered
          annulation,  \* ghost: a cancellation began, was answered
          promu,       \* ghost: the last promotion succeeded
          intrus,      \* ghost: a request entered a session being removed
          pannes, fautes

session == <<registre, rendus, repertoire, manifeste, disque, verrou, greffe>>
copies == <<journal, objets, promu>>
locales == <<pc, lu, envoi, reste, tampon, nouveau>>
temoins == <<accuses, lotsRendus, annulation>>
base == <<lots, deposes>>
vars == <<session, copies, base, locales, temoins, intrus, pannes, fautes>>

-----------------------------------------------------------------------------
Vide == [f \in {} |-> f]
Structure == {"session.json", "session.lock", ".tmp"}
SansLot == 0
SansCle == [f \in Fichiers |-> 0]
Partielles(S) == UNION {[D -> S] : D \in SUBSET Fichiers}
SurDisque == Contenus \cup {Abime}
Recus == Partielles(SurDisque)
Cles == [Fichiers -> Nat]
Entrees == [nom : Fichiers, cle : Nat, sha : SurDisque]
Manifestes == [statut : {"en_cours", "pret"}, recus : Recus, idLot : Nat, cles : Cles]
ASSUME HypAbsent == Absent \notin Manifestes

ManifesteVierge == [statut |-> "en_cours", recus |-> Vide, idLot |-> SansLot, cles |-> SansCle]

Un(f, v) == [x \in {f} |-> v]

(* The function that is g where g is defined, and f elsewhere.             *)
Avec(g, f) == [x \in DOMAIN g \cup DOMAIN f |-> IF x \in DOMAIN g THEN g[x] ELSE f[x]]

Octets(r) == MapThenSumSet(LAMBDA f : Taille[r[f]], DOMAIN r)
Complet(r) == Cardinality(DOMAIN r) = NombreAttendu /\ Octets(r) = TailleAttendue
DansAnnonce(r) == Cardinality(DOMAIN r) <= NombreAttendu /\ Octets(r) <= TailleAttendue

(* What _reconcilier_manifeste makes of m: the files on disk become those  *)
(* of the manifest. It refuses a file whose bytes changed and, once a lot  *)
(* uses the session, a missing one.                                        *)
(* Slip: a missing file is dropped even when a lot uses it.                *)
ReconciliableMalgreLot(m) ==
    \A f \in DOMAIN m.recus \cap DOMAIN disque : disque[f] = m.recus[f]
Reconciliable(m) ==
    /\ \A f \in DOMAIN m.recus \cap DOMAIN disque : disque[f] = m.recus[f]
    /\ m.idLot # SansLot => DOMAIN m.recus \subseteq DOMAIN disque
Reconcilie(m) ==
    [m EXCEPT !.recus = disque,
              !.cles = [f \in Fichiers |-> IF f \in DOMAIN disque THEN @[f] ELSE 0],
              !.statut = IF m.recus # disque /\ m.idLot = SansLot /\ ~Complet(disque)
                         THEN "en_cours" ELSE @]

InitTeleversement ==
    /\ registre = [jeton |-> 0, cree |-> FALSE]
    /\ rendus = {} /\ repertoire = FALSE /\ manifeste = Absent /\ disque = Vide
    /\ verrou = [present |-> FALSE, tenant |-> Personne]
    /\ greffe = Personne
    /\ journal = {} /\ objets = [f \in Fichiers |-> <<>>] /\ promu = FALSE
    /\ lots = 0 /\ deposes = {}
    /\ pc = [p \in Processus |-> "repos"]
    /\ lu = [p \in Processus |-> Absent]
    /\ envoi = [p \in Processus |-> Vide]
    /\ reste = [p \in Processus |-> {}]
    /\ tampon = [p \in Processus |-> {}]
    /\ nouveau = [p \in Processus |-> SansLot]
    /\ accuses = Vide /\ lotsRendus = {} /\ annulation = "aucune"
    /\ intrus = FALSE /\ pannes = 0 /\ fautes = 0

-----------------------------------------------------------------------------
(* Slip: nobody waits for the lock.                                        *)
LibreToujours == TRUE

(* Session lock (_verrou_session). A request that finds the manifest takes *)
(* the lock, creating its files if they are gone; a busy lock makes it     *)
(* wait, then give up, which changes nothing. The lock of SQLite and that  *)
(* of fcntl are both needed to enter: they are one here, gone when the     *)
(* second of them is. A removal deletes the lock file when it comes to it, *)
(* and a request may then enter before the manifest goes: noted.           *)
Libre == verrou.tenant = Personne
Prendre(p) == verrou' = [present |-> TRUE, tenant |-> p]
Entrer(p, op) == /\ op \in Operations
                 /\ pc[p] = "repos" /\ rendus # {} /\ manifeste # Absent /\ Libre
                 /\ intrus' = (intrus \/ \E q \in Processus : pc[q] = "supprimer")

(* The lock is released if p still holds the one in the directory; its     *)
(* locals are dropped.                                                     *)
Rendre(p) ==
    verrou' = [verrou EXCEPT !.tenant = IF @ = p THEN Personne ELSE @]
Oublier(p) ==
    /\ pc' = [pc EXCEPT ![p] = "repos"]
    /\ lu' = [lu EXCEPT ![p] = Absent]
    /\ envoi' = [envoi EXCEPT ![p] = Vide]
    /\ reste' = [reste EXCEPT ![p] = {}]
    /\ tampon' = [tampon EXCEPT ![p] = {}]
    /\ nouveau' = [nouveau EXCEPT ![p] = SansLot]
Sortir(p) == Rendre(p) /\ Oublier(p)

(* One request served without leaving the critical section in between.     *)
EnUnPas(p) == verrou' = [present |-> TRUE, tenant |-> Personne] /\ UNCHANGED locales
=============================================================================
