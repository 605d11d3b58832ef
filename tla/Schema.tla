------------------------------- MODULE Schema -------------------------------
(***************************************************************************)
(* The schema of the database (indexer.py): the web process, the worker    *)
(* and the command line all migrate it when they start, with no lock of    *)
(* their own, and a rebuild of the index drops a part of it.  A migration  *)
(* is its effect and its row in the registry.                              *)
(***************************************************************************)
EXTENDS Naturals, FiniteSets, FiniteSetsExt

CONSTANTS
  Processus,
  NbMigrations,
  SurDocuments  \* the migrations whose effect the table documents carries

ASSUME HypMigrations == NbMigrations \in Nat

VARIABLES
  base,      \* the backend, and whether a row is captured or sent
  effets,    \* committed effects
  registre,  \* committed rows of schema_migrations
  demarrage  \* of each process: its step, the rows it read, what it did not commit yet

varsSchema == <<base, effets, registre, demarrage>>

Migrations == 1..NbMigrations
Arrete == [etape |-> "arrete", lues |-> {}, faites |-> {}]

(* A new base, or one of an earlier version. *)
InitSchema ==
  /\ base \in [postgres : BOOLEAN, captures : BOOLEAN]
  /\ \E n \in 0..NbMigrations : effets = 1..n /\ registre = 1..n
  /\ demarrage = [p \in Processus |-> Arrete]

(* Nobody applies the same migration beyond the locks of its statements, and *)
(* SQLite has one writer.                                                    *)
SansConcurrent(p, v) ==
  \A q \in Processus \ {p} : IF base.postgres THEN v \notin demarrage[q].faites ELSE demarrage[q].faites = {}

(* The registry is read once, at the head of the transaction. *)
run_migrations(p) ==
  /\ demarrage[p].etape = "arrete"
  /\ demarrage' = [demarrage EXCEPT ![p] = [etape |-> "migre", lues |-> registre, faites |-> {}]]
  /\ UNCHANGED <<base, effets, registre>>

AFaire(p) == Migrations \ (demarrage[p].lues \cup demarrage[p].faites)

(* The effect, then its row.  The statements of the first one are committed *)
(* at once by SQLite, whose transaction begins with the insertion of a row. *)
appliquer_migration(p) ==
  /\ demarrage[p].etape = "migre" /\ AFaire(p) # {}
  /\ LET v == Min(AFaire(p)) IN
     /\ SansConcurrent(p, v)
     /\ demarrage' = [demarrage EXCEPT ![p].faites = @ \cup {v}]
     /\ effets' = IF ~base.postgres /\ demarrage[p].faites = {} THEN effets \cup {v} ELSE effets
  /\ UNCHANGED <<base, registre>>

(* The end of the transaction controls the last migration, not its row. *)
schema_identite_octets_valide(p) == NbMigrations \in effets \cup demarrage[p].faites

commit_migrations(p) ==
  /\ demarrage[p].etape = "migre" /\ AFaire(p) = {}
  /\ schema_identite_octets_valide(p)
  /\ effets' = effets \cup demarrage[p].faites
  /\ registre' = registre \cup demarrage[p].faites
  /\ demarrage' = [demarrage EXCEPT ![p] = [etape |-> "sert", lues |-> {}, faites |-> {}]]
  /\ UNCHANGED base

(* A refused statement, a lock not obtained in time, the end of the         *)
(* process: rolled back, and the process does not serve.                    *)
echec_migration(p) ==
  /\ demarrage[p].etape = "migre"
  /\ demarrage' = [demarrage EXCEPT ![p] = Arrete]
  /\ UNCHANGED <<base, effets, registre>>

arreter(p) ==
  /\ demarrage[p].etape = "sert"
  /\ demarrage' = [demarrage EXCEPT ![p] = Arrete]
  /\ UNCHANGED <<base, effets, registre>>

(* A document is captured, or sent to the object store. *)
capturer_document ==
  /\ \E p \in Processus : demarrage[p].etape = "sert"
  /\ \A p \in Processus : ~base.postgres => demarrage[p].faites = {}
  /\ ~base.captures
  /\ base' = [base EXCEPT !.captures = TRUE]
  /\ UNCHANGED <<effets, registre, demarrage>>

(* PostgreSQL refers to the documents and SQLite may protect some: the      *)
(* table is then kept.  Otherwise it is dropped with the registry, and the  *)
(* migrations are run again.                                                *)
EnPlace == base.postgres \/ base.captures

(* Slip: the table is dropped and created again, but nothing is migrated.   *)
ReconstruireSansMigrer(p) ==
  /\ demarrage[p].etape = "sert" /\ ~EnPlace
  /\ \A q \in Processus : demarrage[q].faites = {}
  /\ effets' = effets \ SurDocuments
  /\ registre' = {}
  /\ UNCHANGED <<base, demarrage>>

(* One transaction with the scan it is made for. *)
preparer_rebuild(p) ==
  /\ demarrage[p].etape = "sert" /\ ~EnPlace
  /\ \A q \in Processus : demarrage[q].faites = {}
  /\ effets' = (effets \ SurDocuments) \cup Migrations
  /\ registre' = Migrations
  /\ UNCHANGED <<base, demarrage>>

NextSchema ==
  \/ \E p \in Processus :
       \/ run_migrations(p) \/ appliquer_migration(p) \/ commit_migrations(p)
       \/ echec_migration(p) \/ arreter(p) \/ preparer_rebuild(p)
  \/ capturer_document

----------------------------------------------------------------------------

(* A process that serves finds every migration made, effect and row,        *)
(* whatever started, failed or was rebuilt beside it; and a row of the      *)
(* registry is never without its effect.                                    *)
SchemaEntier ==
  /\ registre \subseteq effets
  /\ \A p \in Processus : demarrage[p].etape = "sert" => registre = Migrations
=============================================================================
