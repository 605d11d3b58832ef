------------------------------- MODULE Audit -------------------------------
(***************************************************************************)
(* The audit log (audit.py).  Each event goes to the historical table,     *)
(* then in a transaction of its own to the canonical one, whose rows form  *)
(* a chain of fingerprints; both are best effort.  A process that starts   *)
(* migrates the history once; a cleanup prunes the history alone.          *)
(***************************************************************************)
EXTENDS Naturals, Sequences

CONSTANTS
  Evenements,  \* what is recorded, each by a thread of its own
  Migrateurs,  \* processes that start on the new version
  Rien

VARIABLES
  historique,  \* audit_log, in the order of its rows
  chaine,      \* audit_logs: committed rows in the order of id_audit; Rien: no table yet
  verrou,      \* holder of the advisory lock of the chain
  redacteurs,  \* step of each event, the head of the chain it read
  migration    \* of each process: its step, the rows it copies

varsAudit == <<historique, chaine, verrou, redacteurs, migration>>

Ancien == "ancien"

InitAudit ==
  /\ historique = <<Ancien>>
  /\ chaine = Rien
  /\ verrou = Rien
  /\ redacteurs = [e \in Evenements |-> [etape |-> "nouveau", tete |-> 0]]
  /\ migration = [m \in Migrateurs |-> [etape |-> "attend", lignes |-> <<>>]]

(* A row names its predecessor: by its place here, by its fingerprint there. *)
Ligne(e, tete) == [evenement |-> e, precedente |-> tete]

ASSUME HypRien ==
  /\ Rien \notin Evenements
  /\ Rien \notin Seq([evenement : Evenements \cup {Ancien}, precedente : Nat])

----------------------------------------------------------------------------
(* One event.                                                               *)

Noter(e, etape, tete) == redacteurs' = [redacteurs EXCEPT ![e] = [etape |-> etape, tete |-> tete]]

(* The insertion in the history may fail: the event goes on. *)
record_audit_event(e) ==
  /\ redacteurs[e].etape = "nouveau"
  /\ historique' \in {Append(historique, e), historique}
  /\ Noter(e, "canonique", 0)
  /\ UNCHANGED <<chaine, verrou, migration>>

(* The canonical table is looked up. *)
to_regclass(e) ==
  /\ redacteurs[e].etape = "canonique"
  /\ Noter(e, IF chaine = Rien THEN "fini" ELSE "verrou", 0)
  /\ UNCHANGED <<historique, chaine, verrou, migration>>

(* Slip: without the lock two transactions may read the same head.          *)
LireTeteSansVerrou(e) ==
  /\ redacteurs[e].etape = "verrou"
  /\ Noter(e, "insere", Len(chaine))
  /\ UNCHANGED <<historique, chaine, verrou, migration>>

(* The lock is waited for; the head is read by the next statement, that     *)
(* sees all that was committed before.                                      *)
lire_tete(e) ==
  /\ redacteurs[e].etape = "verrou" /\ verrou = Rien
  /\ verrou' = e
  /\ Noter(e, "insere", Len(chaine))
  /\ UNCHANGED <<historique, chaine, migration>>

(* Insertion and commit, or a failure and its rollback: both release the    *)
(* lock.                                                                    *)
inserer_audit_logs(e) ==
  /\ redacteurs[e].etape = "insere"
  /\ chaine' \in {Append(chaine, Ligne(e, redacteurs[e].tete)), chaine}
  /\ verrou' = Rien
  /\ Noter(e, "fini", 0)
  /\ UNCHANGED <<historique, migration>>

----------------------------------------------------------------------------
(* The migration, in the transaction that creates the table: no one else    *)
(* sees it before the commit, and who creates it too waits.                 *)

lire_historique(m) ==
  /\ migration[m].etape = "attend"
  /\ \A n \in Migrateurs : migration[n].etape # "copie"
  /\ migration' = [migration EXCEPT ![m] =
       IF chaine \in {Rien, <<>>} THEN [etape |-> "copie", lignes |-> historique]
       ELSE [etape |-> "faite", lignes |-> <<>>]]
  /\ UNCHANGED <<historique, chaine, verrou, redacteurs>>

(* Each row goes through the insertion of any event: the lock is taken by   *)
(* the first one and held to the commit.                                    *)
migrer_audit_log_postgres(m) ==
  /\ migration[m].etape = "copie" /\ verrou = Rien
  /\ LET debut == IF chaine = Rien THEN <<>> ELSE chaine
         lignes == migration[m].lignes
     IN chaine' = debut \o [i \in DOMAIN lignes |-> Ligne(lignes[i], Len(debut) + i - 1)]
  /\ migration' = [migration EXCEPT ![m] = [etape |-> "faite", lignes |-> <<>>]]
  /\ UNCHANGED <<historique, verrou, redacteurs>>

(* Oldest rows first. *)
prune_audit_logs ==
  /\ historique # <<>>
  /\ historique' = Tail(historique)
  /\ UNCHANGED <<chaine, verrou, redacteurs, migration>>

NextAudit ==
  \/ \E e \in Evenements :
       record_audit_event(e) \/ to_regclass(e) \/ lire_tete(e) \/ inserer_audit_logs(e)
  \/ \E m \in Migrateurs : lire_historique(m) \/ migrer_audit_log_postgres(m)
  \/ prune_audit_logs

----------------------------------------------------------------------------

(* The canonical log is one chain: each row names as its predecessor the    *)
(* row just before it, whatever threads and migrations wrote the two.       *)
ChaineLineaire ==
  chaine # Rien => \A i \in DOMAIN chaine : chaine[i].precedente = i - 1
=============================================================================
