------------------------------- MODULE NuitOCR -------------------------------
(***************************************************************************)
(* The night runs of OCR over a folder (ocr/cli.py, ocr/etat.py): a lock   *)
(* file with the process identifier of its owner, the list of the prints   *)
(* already treated, read once and rewritten whole, and the table of pages  *)
(* in PostgreSQL.  A run may be killed at any step; its lock stays.        *)
(***************************************************************************)
EXTENDS Naturals, FiniteSets

CONSTANTS
  Nuits,      \* runs, one process each
  Documents,  \* files of the folder, one print each
  Personne

ASSUME HypPersonne ==
  /\ Personne \notin [pid : Nuits, lisible : BOOLEAN]
  /\ \A S \in SUBSET Documents : S # Personne

VARIABLES
  verrouNuit,   \* the lock file: whose, and whether it can be read
  traites,      \* ocr_etat.json: the prints marked as treated, or unreadable
  pagesEnBase,  \* how many times the pages of each document were inserted
  nuits         \* what each run does and remembers; ghosts of what befell it

Illisible == Personne

varsNuit == <<verrouNuit, traites, pagesEnBase, nuits>>

InitNuit ==
  /\ verrouNuit = Personne
  /\ traites = {}
  /\ pagesEnBase = [d \in Documents |-> 0]
  /\ nuits = [n \in Nuits |->
       [etape |-> "prevue", memoire |-> {}, restants |-> Documents, document |-> Personne,
        pressee |-> FALSE, doublee |-> FALSE, perdus |-> {}]]

En(n, e) == nuits[n].etape = e
pid_vivant(n) == nuits[n].etape \notin {"prevue", "finie", "tuee"}
PrendLeVerrou(n) == nuits[n].etape \in {"regarder", "retirer", "ecrire", "achever"}
AuTravail(n) == nuits[n].etape \in {"travail", "stocker"}
Passer(n, e) == nuits' = [nuits EXCEPT ![n].etape = e]

(* A ghost keeps that another run was taking the lock at that moment.       *)
lancer(n) ==
  /\ En(n, "prevue")
  /\ nuits' = [nuits EXCEPT ![n].etape = "regarder", ![n].pressee = @ \/ \E m \in Nuits : PrendLeVerrou(m)]
  /\ UNCHANGED <<verrouNuit, traites, pagesEnBase>>

----------------------------------------------------------------------------
(* acquire: look, remove what is stale, write.  Nothing ties the three.     *)

(* A file that cannot be read is a lock for ten minutes: its writer has     *)
(* either finished it or died by then.                                      *)
regarder(n) ==
  /\ En(n, "regarder")
  /\ \/ verrouNuit = Personne /\ Passer(n, "ecrire")
     \/ verrouNuit # Personne /\ ~pid_vivant(verrouNuit.pid) /\ Passer(n, "retirer")
     \/ verrouNuit # Personne /\ (pid_vivant(verrouNuit.pid) \/ ~verrouNuit.lisible)
          /\ Passer(n, "finie")
  /\ UNCHANGED <<verrouNuit, traites, pagesEnBase>>

retirer(n) ==
  /\ En(n, "retirer")
  /\ verrouNuit' = Personne
  /\ Passer(n, "ecrire")
  /\ UNCHANGED <<traites, pagesEnBase>>

ouvrir(n) ==
  /\ En(n, "ecrire")
  /\ verrouNuit' = [pid |-> n, lisible |-> FALSE]
  /\ Passer(n, "achever")
  /\ UNCHANGED <<traites, pagesEnBase>>

(* The state is read once, when the lock is held. *)
achever(n) ==
  /\ En(n, "achever")
  /\ verrouNuit' = [pid |-> n, lisible |-> TRUE]
  /\ Passer(n, "charger")
  /\ UNCHANGED <<traites, pagesEnBase>>

(* An unreadable list is renamed away, if it can be, and the run starts     *)
(* from an empty one.  A ghost keeps that another run was at work.          *)
Retrouves == IF traites = Illisible THEN {} ELSE traites

charger(n) ==
  /\ En(n, "charger")
  /\ nuits' = [nuits EXCEPT ![n].etape = "travail", ![n].memoire = Retrouves,
                            ![n].doublee = @ \/ \E m \in Nuits \ {n} : AuTravail(m)]
  /\ traites' \in {traites, Retrouves}
  /\ UNCHANGED <<verrouNuit, pagesEnBase>>

----------------------------------------------------------------------------
(* One document after the other, in the order of the folder.                *)

Examiner(n, d) == En(n, "travail") /\ d \in nuits[n].restants

(* sauvegarder, of the prints that run n knows: written by another file     *)
(* renamed over the list, else over the list itself, which may leave half   *)
(* of it.  No error comes out.  A ghost keeps what was left out.            *)
sauvegarder(S) == traites' \in {S, traites, Illisible}
Perdre(n, S) == nuits[n].perdus \cup IF traites' = Illisible THEN S ELSE S \ traites'

(* Already treated, unreadable, or refused by the OCR with an exception:    *)
(* nothing is marked.                                                       *)
ignorer(n, d) ==
  /\ Examiner(n, d)
  /\ nuits' = [nuits EXCEPT ![n].restants = @ \ {d}]
  /\ UNCHANGED <<verrouNuit, traites, pagesEnBase>>

(* Slip: the state is left to be saved with the account of the run.         *)
MarquerSansSauver(n, d) ==
  /\ Examiner(n, d) /\ d \notin nuits[n].memoire
  /\ nuits' = [nuits EXCEPT ![n].restants = @ \ {d}, ![n].memoire = @ \cup {d},
                            ![n].etape = "stocker", ![n].document = d]
  /\ UNCHANGED <<verrouNuit, traites, pagesEnBase>>

(* marquer_traite saves the whole state as this run knows it, whatever the  *)
(* pages came to; they are stored next, saved or not.                       *)
marquer_traite(n, d) ==
  /\ Examiner(n, d) /\ d \notin nuits[n].memoire
  /\ LET S == nuits[n].memoire \cup {d} IN
     /\ sauvegarder(S)
     /\ nuits' = [nuits EXCEPT ![n].restants = @ \ {d}, ![n].memoire = S,
                               ![n].etape = "stocker", ![n].document = d, ![n].perdus = Perdre(n, S)]
  /\ UNCHANGED <<verrouNuit, pagesEnBase>>

(* The insertion may fail, or be left out: the run goes on. *)
stocker(n, reussi) ==
  /\ En(n, "stocker")
  /\ LET d == nuits[n].document IN
     pagesEnBase' = IF reussi THEN [pagesEnBase EXCEPT ![d] = @ + 1] ELSE pagesEnBase
  /\ nuits' = [nuits EXCEPT ![n].etape = "travail", ![n].document = Personne]
  /\ UNCHANGED <<verrouNuit, traites>>

(* No document left, the budget spent, an interruption: the state is saved  *)
(* with the account of the run.                                             *)
set_derniere_execution(n) ==
  /\ nuits[n].etape \in {"travail", "stocker"}
  /\ sauvegarder(nuits[n].memoire)
  /\ nuits' = [nuits EXCEPT ![n].etape = "rendre", ![n].perdus = Perdre(n, nuits[n].memoire)]
  /\ UNCHANGED <<verrouNuit, pagesEnBase>>

(* The file is removed, whoever wrote it last. *)
release(n) ==
  /\ En(n, "rendre")
  /\ verrouNuit' = Personne
  /\ Passer(n, "finie")
  /\ UNCHANGED <<traites, pagesEnBase>>

tuer(n) ==
  /\ pid_vivant(n)
  /\ Passer(n, "tuee")
  /\ UNCHANGED <<verrouNuit, traites, pagesEnBase>>

NextNuit == \E n \in Nuits :
  \/ lancer(n) \/ regarder(n) \/ retirer(n) \/ ouvrir(n) \/ achever(n) \/ charger(n)
  \/ \E d \in Documents : ignorer(n, d) \/ marquer_traite(n, d)
  \/ \E b \in BOOLEAN : stocker(n, b)
  \/ set_derniere_execution(n) \/ release(n) \/ tuer(n)

----------------------------------------------------------------------------

(* The table has no key that would refuse pages a second time.  Runs that   *)
(* follow one another, meet, or die anywhere and are succeeded insert those *)
(* of a document twice only if a save failed that had to write its print,   *)
(* or if two runs were at work together; and two are only when one was      *)
(* launched while the other was taking the lock.                            *)
PagesUneFois ==
  /\ \A d \in Documents : pagesEnBase[d] > 1 =>
       \E n \in Nuits : d \in nuits[n].perdus \/ nuits[n].doublee
  /\ (\E n \in Nuits : nuits[n].doublee) => \E n \in Nuits : nuits[n].pressee
=============================================================================
