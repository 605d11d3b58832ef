------------------------------- MODULE Fiches -------------------------------
(***************************************************************************)
(* The records of the archive and the writers that meet on one of them:    *)
(* the operators who correct, validate, reject and reopen it from the      *)
(* screen they read (fiches/routes.py), the deposit that extracts its      *)
(* document again (fiches/persistance.py), and the reconciliation that     *)
(* applies the corrections of a record to its canonical data once more     *)
(* (fiches/corrections_canoniques.py).                                     *)
(*                                                                         *)
(* Every writer is one PostgreSQL transaction at READ COMMITTED: what it   *)
(* reads is one step, the statement that locks the row with everything     *)
(* written up to the commit is another, and other transactions commit in   *)
(* between.  A record has one field with a canonical target; a value is a  *)
(* member of a small set.  MaxRevision and MaxSimultanes bound the model   *)
(* only: 2 busy at a time leaves every race of two writers, each of whom   *)
(* may have finished other requests while the second was in progress.      *)
(***************************************************************************)
EXTENDS Naturals, FiniteSets

CONSTANTS
  Fiches,        \* records
  Approbateurs,  \* operators with the role approbateur
  Demandeurs,    \* accounts with the role utilisateur
  Depots,        \* workers that write extracted documents
  Valeurs,       \* values of the field
  Aucun,
  MaxRevision,
  MaxSimultanes  \* operators and workers busy at one time

ASSUME AucunEstApart ==
  Aucun \notin Fiches \cup Approbateurs \cup Demandeurs \cup Depots \cup Valeurs

VARIABLES
  fiche,    \* the row of each record, its trace of extraction, its canonical data
  verrou,   \* the transaction that keeps the row of a record between two steps
  ecran,    \* what each operator has on the screen
  requete   \* the request of each operator between its reads and its commit

varsFiches == <<fiche, verrou, ecran, requete>>

Statuts == {"a_valider", "valide", "rejete", "supprimee"}
Operateurs == Approbateurs \cup Demandeurs
Postes == Operateurs \cup Depots

Occupes == {p \in Postes : requete[p] # Aucun \/ ecran[p] # Aucun}
Place(p) == p \in Occupes \/ Cardinality(Occupes) < MaxSimultanes

(* A correction the canonical data did not follow. *)
Divergente(f) == fiche[f].corrige /\ fiche[f].canonique # fiche[f].trace

(* Besides a record just extracted, the archive holds corrections made     *)
(* before corrections were carried to the canonical data.                  *)
FichesInitiales ==
  [statut : {"a_valider"}, revision : {1}, trace : Valeurs, corrige : BOOLEAN,
   canonique : Valeurs, assume : {FALSE}]

InitFiches ==
  /\ fiche \in [Fiches -> {r \in FichesInitiales : r.corrige \/ r.trace = r.canonique}]
  /\ verrou = [f \in Fiches |-> Aucun]
  /\ ecran = [p \in Postes |-> Aucun]
  /\ requete = [p \in Postes |-> Aucun]

----------------------------------------------------------------------------
(* Reading.  GET /fiches/{code}/etat answers the status, the revision and   *)
(* the fields of one instant.                                               *)

etat_fiche(p, f) ==
  /\ Place(p)
  /\ requete[p] = Aucun
  /\ ecran' = [ecran EXCEPT ![p] =
       [fiche |-> f, revision |-> fiche[f].revision, trace |-> fiche[f].trace]]
  /\ UNCHANGED <<fiche, verrou, requete>>

(* The queue of validation shows the records to validate, with a count of   *)
(* their fields and the revision of each.                                   *)
fichier_validation(p, f) ==
  /\ fiche[f].statut = "a_valider"
  /\ etat_fiche(p, f)

(* A request founded on the screen of p, which then has to be read again;   *)
(* "vu" is the value it showed, kept to state what a decision rests on.     *)
Ouvrir(p, op, valeur, ecart) ==
  /\ requete' = [requete EXCEPT ![p] =
       [op |-> op, fiche |-> ecran[p].fiche, revision |-> ecran[p].revision,
        statut |-> fiche[ecran[p].fiche].statut, valeur |-> valeur,
        ecart |-> ecart, vu |-> ecran[p].trace, demande |-> Aucun]]
  /\ ecran' = [ecran EXCEPT ![p] = Aucun]
  /\ UNCHANGED <<fiche, verrou>>

PretADecider(p) ==
  /\ p \in Approbateurs
  /\ requete[p] = Aucun
  /\ ecran[p] # Aucun

(* The first reads of each route and the refusals founded on them alone.    *)
lire_correction(p, v) ==
  /\ PretADecider(p)
  /\ fiche[ecran[p].fiche].statut \notin {"valide", "supprimee"}
  /\ Ouvrir(p, "corriger", v, FALSE)

lire_validation(p, accepter) ==
  /\ PretADecider(p)
  /\ fiche[ecran[p].fiche].statut = "a_valider"
  /\ Divergente(ecran[p].fiche) => accepter
  /\ Ouvrir(p, "valider", Aucun, Divergente(ecran[p].fiche))

(* A batch passes over a record that is not to be validated or whose        *)
(* corrections diverge, and goes on with the others.                        *)
lire_dans_lot(p, accepter) ==
  /\ PretADecider(p)
  /\ fiche[ecran[p].fiche].statut = "a_valider"
  /\ Divergente(ecran[p].fiche) => accepter
  /\ Ouvrir(p, "lot", Aucun, Divergente(ecran[p].fiche))

lire_rejet(p) ==
  /\ PretADecider(p)
  /\ fiche[ecran[p].fiche].statut = "a_valider"
  /\ Ouvrir(p, "rejeter", Aucun, FALSE)

lire_reouverture(p, effacer) ==
  /\ PretADecider(p)
  /\ fiche[ecran[p].fiche].statut # "a_valider" \/ effacer
  /\ Ouvrir(p, IF effacer THEN "effacer" ELSE "rouvrir", Aucun, FALSE)

(* The reconciliation lists the corrected fields without a lock.            *)
lire_corrections(p, f) ==
  /\ p \in Approbateurs /\ Place(p)
  /\ requete[p] = Aucun
  /\ fiche[f].corrige
  /\ requete' = [requete EXCEPT ![p] =
       [op |-> "reconcilier", fiche |-> f, revision |-> fiche[f].revision,
        statut |-> fiche[f].statut, valeur |-> fiche[f].trace,
        ecart |-> FALSE, vu |-> fiche[f].trace, demande |-> Aucun]]
  /\ UNCHANGED <<fiche, verrou, ecran>>

----------------------------------------------------------------------------
(* Writing.  The UPDATE that arbitrates takes the row: it waits for whoever *)
(* holds it, then sees the last committed revision.                         *)

(* Slip: the row is locked, the revision is not compared.                   *)
RevisionSansComparer(r, p) == verrou[r.fiche] \in {Aucun, p} /\ fiche[r.fiche].revision < MaxRevision

(* The revision a request is founded on, under the lock of the row.         *)
RevisionTenue(r, p) ==
  /\ verrou[r.fiche] \in {Aucun, p}
  /\ fiche[r.fiche].revision = r.revision
  /\ r.revision < MaxRevision

(* _avancer_revision: the revision alone is compared. *)
avancer_revision(p) == RevisionTenue(requete[p], p)

(* _decision_sous_verrou: the revision and the status read. *)
decision_sous_verrou(p) ==
  /\ RevisionTenue(requete[p], p)
  /\ fiche[requete[p].fiche].statut = requete[p].statut

Rendre(p) ==
  /\ requete' = [requete EXCEPT ![p] = Aucun]
  /\ verrou' = [f \in Fiches |-> IF verrou[f] = p THEN Aucun ELSE verrou[f]]

Reviser(r, statut, trace, corrige, canonique, assume) ==
  fiche' = [fiche EXCEPT ![r.fiche] =
    [statut |-> statut, revision |-> @.revision + 1, trace |-> trace,
     corrige |-> corrige, canonique |-> canonique, assume |-> assume]]

(* A correction writes the canonical data and the trace, or nothing. *)
CorrigerLeChamp(r) ==
  LET x == fiche[r.fiche] IN Reviser(r, x.statut, r.valeur, TRUE, r.valeur, x.assume)

corriger_champ(p) ==
  /\ requete[p] # Aucun /\ requete[p].op = "corriger"
  /\ avancer_revision(p)
  /\ CorrigerLeChamp(requete[p])
  /\ Rendre(p)
  /\ UNCHANGED ecran

valider_fiche(p) ==
  /\ requete[p] # Aucun /\ requete[p].op = "valider"
  /\ decision_sous_verrou(p)
  /\ LET r == requete[p]
         x == fiche[r.fiche] IN
     Reviser(r, "valide", x.trace, x.corrige, x.canonique, r.ecart)
  /\ Rendre(p)
  /\ UNCHANGED ecran

(* In a batch the UPDATE takes the row and keeps it while the others are    *)
(* looked at; what it writes is seen at the commit of the whole batch.      *)
valider_dans_lot(p) ==
  /\ requete[p] # Aucun /\ requete[p].op = "lot"
  /\ RevisionTenue(requete[p], p)
  /\ fiche[requete[p].fiche].statut = "a_valider"
  /\ verrou' = [verrou EXCEPT ![requete[p].fiche] = p]
  /\ requete' = [requete EXCEPT ![p].op = "valide_dans_lot"]
  /\ UNCHANGED <<fiche, ecran>>

valider_lot(p) ==
  /\ requete[p] # Aucun /\ requete[p].op = "valide_dans_lot"
  /\ LET r == requete[p]
         x == fiche[r.fiche] IN
     Reviser(r, "valide", x.trace, x.corrige, x.canonique, r.ecart)
  /\ Rendre(p)
  /\ UNCHANGED ecran

rejeter_fiche(p) ==
  /\ requete[p] # Aucun /\ requete[p].op = "rejeter"
  /\ decision_sous_verrou(p)
  /\ LET r == requete[p]
         x == fiche[r.fiche] IN
     Reviser(r, "rejete", x.trace, x.corrige, x.canonique, FALSE)
  /\ Rendre(p)
  /\ UNCHANGED ecran

(* Reopening compares the revision only; erasing the corrections keeps      *)
(* their values and lifts the lock they hold against a new extraction.      *)
rouvrir_fiche(p) ==
  /\ requete[p] # Aucun /\ requete[p].op \in {"rouvrir", "effacer"}
  /\ avancer_revision(p)
  /\ LET r == requete[p]
         x == fiche[r.fiche] IN
     /\ r.statut # "a_valider" \/ x.corrige
     /\ Reviser(r, "a_valider", x.trace, x.corrige /\ r.op = "rouvrir", x.canonique, FALSE)
  /\ Rendre(p)
  /\ UNCHANGED ecran

(* The canonical row is written without a look at the status or at the      *)
(* revision of the record, and neither of them moves.                       *)
reconcilier_fiche(p) ==
  /\ requete[p] # Aucun /\ requete[p].op = "reconcilier"
  /\ fiche' = [fiche EXCEPT ![requete[p].fiche].canonique = requete[p].valeur]
  /\ Rendre(p)
  /\ UNCHANGED ecran

(* Slip: the deposit reads the row without keeping it.                      *)
LireSansGarder(w, f, v) ==
  /\ Place(w)
  /\ requete[w] = Aucun
  /\ requete' = [requete EXCEPT ![w] =
       [op |-> "ecrire", fiche |-> f, revision |-> fiche[f].revision,
        statut |-> fiche[f].statut, valeur |-> v,
        ecart |-> fiche[f].corrige, vu |-> fiche[f].trace, demande |-> Aucun]]
  /\ UNCHANGED <<fiche, verrou, ecran>>

(* A deposit that finds the code of its document reads the row FOR UPDATE   *)
(* and keeps it.                                                            *)
LireExistante(w, f, v) ==
  /\ Place(w)
  /\ requete[w] = Aucun
  /\ verrou[f] = Aucun
  /\ verrou' = [verrou EXCEPT ![f] = w]
  /\ requete' = [requete EXCEPT ![w] =
       [op |-> "ecrire", fiche |-> f, revision |-> fiche[f].revision,
        statut |-> fiche[f].statut, valeur |-> v,
        ecart |-> fiche[f].corrige, vu |-> fiche[f].trace, demande |-> Aucun]]
  /\ UNCHANGED <<fiche, ecran>>

lire_existante(w, f, v) == w \in Depots /\ LireExistante(w, f, v)

(* An operator asks for the record of an analysed import: the folder of its *)
(* technical document is deposited as any folder.                           *)
creer_fiche_depuis_import(p, f, v) == p \in Operateurs /\ LireExistante(p, f, v)

(* A validated record is kept, a corrected one refuses; any other is        *)
(* replaced in place, its revision advances and it is to be validated.      *)
ecrire_fiche(w) ==
  /\ requete[w] # Aucun /\ requete[w].op = "ecrire"
  /\ LET r == requete[w] IN
     IF r.statut = "valide" \/ r.ecart
       THEN UNCHANGED fiche
       ELSE r.revision < MaxRevision /\ Reviser(r, "a_valider", r.valeur, FALSE, r.valeur, FALSE)
  /\ Rendre(w)
  /\ UNCHANGED ecran

(* A conflict, a refused value, a failure of the database or of the         *)
(* process: the transaction is rolled back and keeps no row.                *)
abandonner(p) ==
  /\ requete[p] # Aucun
  /\ Rendre(p)
  /\ UNCHANGED <<fiche, ecran>>

NextFiches ==
  \E p \in Operateurs :
    \/ \E f \in Fiches : etat_fiche(p, f) \/ fichier_validation(p, f)
    \/ \E v \in Valeurs : lire_correction(p, v)
    \/ \E b \in BOOLEAN : lire_validation(p, b) \/ lire_dans_lot(p, b) \/ lire_reouverture(p, b)
    \/ lire_rejet(p)
    \/ corriger_champ(p) \/ valider_fiche(p) \/ rejeter_fiche(p) \/ rouvrir_fiche(p)
    \/ valider_dans_lot(p) \/ valider_lot(p)

(* Those who write without the screen.  abandonner is left to the           *)
(* compositions, which release what they add.                               *)
NextEcritures ==
  \E p \in Postes :
    \/ \E f \in Fiches :
         \/ lire_corrections(p, f)
         \/ \E v \in Valeurs : lire_existante(p, f, v) \/ creer_fiche_depuis_import(p, f, v)
    \/ reconcilier_fiche(p) \/ ecrire_fiche(p)
=============================================================================
