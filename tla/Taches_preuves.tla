---------------------------- MODULE Taches_preuves ----------------------------
(***************************************************************************)
(* Proofs about the tasks beside the archive, for any files, runs,         *)
(* processes, operators and bounds.  Each task has variables of its own:   *)
(* its invariant is inductive for its own steps, and the steps of the      *)
(* others leave it alone.                                                  *)
(***************************************************************************)
EXTENDS Taches, SequenceTheorems, FiniteSetTheorems, WellFoundedInduction, TLAPS

(* A set of naturals has a least element.                                   *)
LEMMA PetitElement ==
  ASSUME NEW T, T \subseteq Nat, T # {}
  PROVE  \E x \in T : \A y \in T : x <= y
<1> DEFINE R == {ss \in Nat \X Nat : ss[1] < ss[2]}
<1>1. IsWellFoundedOn(R, Nat)
  BY NatLessThanWellFounded DEF OpToRel
<1>2. \A x, y \in T : y < x => <<y, x>> \in R
  OBVIOUS
<1> HIDE DEF R
<1>3. PICK x \in T : \A y \in T : ~ (<<y, x>> \in R)
  BY <1>1, WFMin
<1>4. ASSUME NEW y \in T PROVE x <= y
  <2>1. ~(y < x) /\ x \in Nat /\ y \in Nat
    BY <1>2, <1>3
  <2> QED BY <2>1
<1> QED BY <1>4

----------------------------------------------------------------------------
(* The night runs of OCR.                                                   *)

EtapesDeNuit ==
  {"prevue", "regarder", "retirer", "ecrire", "achever", "charger", "travail", "stocker",
   "rendre", "finie", "tuee"}
EnTravail == {"charger", "travail", "stocker", "rendre"}
PastLeRegard == {"retirer", "ecrire", "achever"}

EtatsDeNuit == [etape : EtapesDeNuit, memoire : SUBSET Documents, restants : SUBSET Documents,
                document : Documents \cup {Personne}, pressee : BOOLEAN, doublee : BOOLEAN,
                perdus : SUBSET Documents]

TypeNuit ==
  /\ verrouNuit \in {Personne} \cup [pid : Nuits, lisible : BOOLEAN]
  /\ traites \in (SUBSET Documents) \cup {Illisible}
  /\ pagesEnBase \in [Documents -> Nat]
  /\ nuits \in [Nuits -> EtatsDeNuit]

(* When no run was launched while another took the lock: one at a time     *)
(* takes it; it goes past its look only when nobody works; who works has   *)
(* the lock file, alone.                                                   *)
Paisible == \A n \in Nuits : ~nuits[n].pressee
PrendSeul == \A m, n \in Nuits : PrendLeVerrou(m) /\ PrendLeVerrou(n) => m = n
PersonneNeTravaille == \A n \in Nuits : nuits[n].etape \notin EnTravail
VerrouTenu ==
  /\ \A n \in Nuits : nuits[n].etape \in EnTravail => verrouNuit = [pid |-> n, lisible |-> TRUE]
  /\ \A m \in Nuits : nuits[m].etape \in PastLeRegard => PersonneNeTravaille
Seule == \A n \in Nuits : ~nuits[n].doublee
InvPrise == Paisible => PrendSeul /\ VerrouTenu /\ Seule

(* When no two runs were at work together: who works knows all the list    *)
(* holds; of the prints that no save lost, the list holds those whose pages *)
(* were inserted, and that of the pages to insert, which were not.          *)
Garde(d) == \A n \in Nuits : d \notin nuits[n].perdus
TravailleSeule == \A m, n \in Nuits : AuTravail(m) /\ AuTravail(n) => m = n
ListeConnue == \A n \in Nuits : AuTravail(n) => Retrouves \subseteq nuits[n].memoire
ListeTenue ==
  \A d \in Documents : Garde(d) =>
    /\ pagesEnBase[d] \in {0, 1}
    /\ pagesEnBase[d] = 1 => d \in Retrouves
    /\ \A n \in Nuits : nuits[n].etape = "stocker" /\ nuits[n].document = d =>
         pagesEnBase[d] = 0 /\ d \in Retrouves
StockeUnDocument == \A n \in Nuits : nuits[n].etape = "stocker" => nuits[n].document \in Documents
InvListe == StockeUnDocument /\ (Seule => TravailleSeule /\ ListeConnue /\ ListeTenue)

InvNuit == TypeNuit /\ InvPrise /\ InvListe

LEMMA DebutNuit == InitNuit => InvNuit
<1> SUFFICES ASSUME InitNuit PROVE InvNuit
  OBVIOUS
<1> DEFINE r == [etape |-> "prevue", memoire |-> {}, restants |-> Documents, document |-> Personne,
                 pressee |-> FALSE, doublee |-> FALSE, perdus |-> {}]
<1>1. nuits = [n \in Nuits |-> r] /\ r \in EtatsDeNuit
  BY DEF InitNuit, EtatsDeNuit, EtapesDeNuit
<1>2. \A n \in Nuits : nuits[n].etape = "prevue" /\ ~nuits[n].doublee
  BY <1>1
<1>3. TypeNuit
  BY <1>1 DEF InitNuit, TypeNuit
<1>4. InvPrise
  BY <1>2 DEF InvPrise, PrendSeul, PrendLeVerrou, VerrouTenu, Seule, EnTravail, PastLeRegard
<1>5. InvListe
  BY <1>2 DEF InitNuit, InvListe, StockeUnDocument, TravailleSeule, AuTravail, ListeConnue, ListeTenue
<1> QED BY <1>3, <1>4, <1>5 DEF InvNuit

LEMMA VerrouEcrit == \A n \in Nuits : [pid |-> n, lisible |-> TRUE] # Personne
<1>1. \A n \in Nuits : [pid |-> n, lisible |-> TRUE] \in [pid : Nuits, lisible : BOOLEAN]
  OBVIOUS
<1> QED BY <1>1, HypPersonne

(* A step of run n changes what n does and remembers, and nothing of the   *)
(* others.                                                                 *)
PasDe(n, r) == nuits' = [nuits EXCEPT ![n] = r] /\ r \in EtatsDeNuit

LEMMA PasTypee ==
  ASSUME TypeNuit, NEW n \in Nuits, NEW r, PasDe(n, r)
  PROVE  /\ nuits' \in [Nuits -> EtatsDeNuit]
         /\ nuits'[n] = r
         /\ \A m \in Nuits \ {n} : nuits'[m] = nuits[m]
BY DEF TypeNuit, PasDe

(* The fields of what becomes of a run.                                    *)
Champs(n, e, memoire, document, perdus) ==
  /\ nuits'[n].etape = e /\ nuits'[n].memoire = memoire
  /\ nuits'[n].document = document /\ nuits'[n].perdus = perdus
  /\ nuits[n].pressee => nuits'[n].pressee
  /\ nuits[n].doublee => nuits'[n].doublee
  /\ \A m \in Nuits \ {n} : nuits'[m] = nuits[m]
  /\ nuits' \in [Nuits -> EtatsDeNuit]

LEMMA EtatDeNuit ==
  ASSUME TypeNuit, NEW n \in Nuits
  PROVE  /\ nuits[n] \in EtatsDeNuit
         /\ nuits[n].etape \in EtapesDeNuit /\ nuits[n].memoire \in SUBSET Documents
         /\ nuits[n].document \in Documents \cup {Personne} /\ nuits[n].perdus \in SUBSET Documents
         /\ nuits[n].pressee \in BOOLEAN /\ nuits[n].doublee \in BOOLEAN
         /\ nuits[n].restants \in SUBSET Documents
BY DEF TypeNuit, EtatsDeNuit

Memes(n) == nuits'[n].pressee = nuits[n].pressee /\ nuits'[n].doublee = nuits[n].doublee

(* One field changed, the place.                                           *)
LEMMA PasserType ==
  ASSUME TypeNuit, NEW n \in Nuits, NEW e \in EtapesDeNuit, Passer(n, e)
  PROVE  Champs(n, e, nuits[n].memoire, nuits[n].document, nuits[n].perdus) /\ Memes(n)
<1> DEFINE r == [nuits[n] EXCEPT !.etape = e]
<1>1. r \in EtatsDeNuit
  BY EtatDeNuit DEF EtatsDeNuit
<1>2. nuits' = [nuits EXCEPT ![n] = r]
  BY DEF Passer, TypeNuit
<1>3. /\ r.etape = e /\ r.memoire = nuits[n].memoire /\ r.document = nuits[n].document
      /\ r.perdus = nuits[n].perdus /\ r.pressee = nuits[n].pressee /\ r.doublee = nuits[n].doublee
  BY EtatDeNuit DEF EtatsDeNuit
<1> HIDE DEF r
<1> QED BY <1>1, <1>2, <1>3, PasTypee DEF PasDe, Champs, Memes

LEMMA LancerType ==
  ASSUME TypeNuit, NEW n \in Nuits, lancer(n)
  PROVE  /\ Champs(n, "regarder", nuits[n].memoire, nuits[n].document, nuits[n].perdus)
         /\ nuits'[n].pressee = (nuits[n].pressee \/ \E m \in Nuits : PrendLeVerrou(m))
         /\ nuits'[n].doublee = nuits[n].doublee
<1> DEFINE b == nuits[n].pressee \/ \E m \in Nuits : PrendLeVerrou(m)
           r == [nuits[n] EXCEPT !.etape = "regarder", !.pressee = b]
<1>0. b \in BOOLEAN
  BY EtatDeNuit
<1>1. r \in EtatsDeNuit
  BY <1>0, EtatDeNuit DEF EtatsDeNuit, EtapesDeNuit
<1>2. nuits' = [nuits EXCEPT ![n] = r]
  BY DEF lancer, TypeNuit
<1>3. /\ r.etape = "regarder" /\ r.memoire = nuits[n].memoire /\ r.document = nuits[n].document
      /\ r.perdus = nuits[n].perdus /\ r.pressee = b /\ r.doublee = nuits[n].doublee
  BY EtatDeNuit DEF EtatsDeNuit
<1> HIDE DEF r
<1> QED BY <1>1, <1>2, <1>3, PasTypee DEF PasDe, Champs

LEMMA ChargerType ==
  ASSUME TypeNuit, NEW n \in Nuits, charger(n)
  PROVE  /\ Champs(n, "travail", Retrouves, nuits[n].document, nuits[n].perdus)
         /\ nuits'[n].pressee = nuits[n].pressee
         /\ nuits'[n].doublee = (nuits[n].doublee \/ \E m \in Nuits \ {n} : AuTravail(m))
         /\ traites' \in (SUBSET Documents) \cup {Illisible} /\ Retrouves' = Retrouves
<1> DEFINE b == nuits[n].doublee \/ \E m \in Nuits \ {n} : AuTravail(m)
           r == [nuits[n] EXCEPT !.etape = "travail", !.memoire = Retrouves, !.doublee = b]
<1>0. b \in BOOLEAN /\ Retrouves \in SUBSET Documents
  BY EtatDeNuit DEF TypeNuit, Retrouves
<1>1. r \in EtatsDeNuit
  BY <1>0, EtatDeNuit DEF EtatsDeNuit, EtapesDeNuit
<1>2. nuits' = [nuits EXCEPT ![n] = r]
  BY DEF charger, TypeNuit
<1>3. /\ r.etape = "travail" /\ r.memoire = Retrouves /\ r.document = nuits[n].document
      /\ r.perdus = nuits[n].perdus /\ r.pressee = nuits[n].pressee /\ r.doublee = b
  BY EtatDeNuit DEF EtatsDeNuit
<1>4. traites' \in (SUBSET Documents) \cup {Illisible} /\ Retrouves' = Retrouves
  BY HypPersonne DEF charger, TypeNuit, Retrouves, Illisible
<1> HIDE DEF r
<1> QED BY <1>1, <1>2, <1>3, <1>4, PasTypee DEF PasDe, Champs

LEMMA IgnorerType ==
  ASSUME TypeNuit, NEW n \in Nuits, NEW d \in Documents, ignorer(n, d)
  PROVE  Champs(n, "travail", nuits[n].memoire, nuits[n].document, nuits[n].perdus) /\ Memes(n)
<1> DEFINE r == [nuits[n] EXCEPT !.restants = @ \ {d}]
<1>1. r \in EtatsDeNuit
  BY EtatDeNuit DEF EtatsDeNuit
<1>2. nuits' = [nuits EXCEPT ![n] = r]
  BY DEF ignorer, TypeNuit
<1>3. /\ r.etape = "travail" /\ r.memoire = nuits[n].memoire /\ r.document = nuits[n].document
      /\ r.perdus = nuits[n].perdus /\ r.pressee = nuits[n].pressee /\ r.doublee = nuits[n].doublee
  BY EtatDeNuit DEF EtatsDeNuit, ignorer, Examiner, En
<1> HIDE DEF r
<1> QED BY <1>1, <1>2, <1>3, PasTypee DEF PasDe, Champs, Memes

(* What a save lost is noted.                                               *)
LEMMA SauverType ==
  ASSUME TypeNuit, NEW n \in Nuits, NEW S \in SUBSET Documents, sauvegarder(S)
  PROVE  /\ traites' \in (SUBSET Documents) \cup {Illisible}
         /\ Perdre(n, S) \in SUBSET Documents /\ nuits[n].perdus \subseteq Perdre(n, S)
         /\ S \subseteq Retrouves' \cup Perdre(n, S)
         /\ Retrouves' \subseteq S \cup Retrouves
BY EtatDeNuit, HypPersonne DEF sauvegarder, Perdre, Retrouves, TypeNuit, Illisible

LEMMA MarquerType ==
  ASSUME TypeNuit, NEW n \in Nuits, NEW d \in Documents, marquer_traite(n, d)
  PROVE  LET S == nuits[n].memoire \cup {d} IN
         /\ S \in SUBSET Documents /\ sauvegarder(S)
         /\ Champs(n, "stocker", S, d, Perdre(n, S)) /\ Memes(n)
<1> DEFINE S == nuits[n].memoire \cup {d}
           p == Perdre(n, S)
           r == [nuits[n] EXCEPT !.restants = @ \ {d}, !.memoire = S, !.etape = "stocker",
                                 !.document = d, !.perdus = p]
<1>0. S \in SUBSET Documents /\ sauvegarder(S)
  BY EtatDeNuit DEF marquer_traite
<1>a. p \in SUBSET Documents
  BY <1>0, SauverType
<1>b. nuits' = [nuits EXCEPT ![n].restants = @ \ {d}, ![n].memoire = S,
                             ![n].etape = "stocker", ![n].document = d, ![n].perdus = p]
  BY DEF marquer_traite
<1> HIDE DEF S, p
<1>1. r \in EtatsDeNuit
  BY <1>0, <1>a, EtatDeNuit DEF EtatsDeNuit, EtapesDeNuit
<1>2. nuits' = [nuits EXCEPT ![n] = r]
  BY <1>b DEF TypeNuit
<1>3. /\ r.etape = "stocker" /\ r.memoire = S /\ r.document = d
      /\ r.perdus = p /\ r.pressee = nuits[n].pressee /\ r.doublee = nuits[n].doublee
  BY EtatDeNuit DEF EtatsDeNuit
<1> HIDE DEF r
<1>4. Champs(n, "stocker", S, d, p) /\ Memes(n)
  BY <1>1, <1>2, <1>3, PasTypee DEF PasDe, Champs, Memes
<1> QED BY <1>0, <1>4 DEF S, p

LEMMA StockerType ==
  ASSUME TypeNuit, NEW n \in Nuits, NEW b \in BOOLEAN, stocker(n, b)
  PROVE  Champs(n, "travail", nuits[n].memoire, Personne, nuits[n].perdus) /\ Memes(n)
<1> DEFINE r == [nuits[n] EXCEPT !.etape = "travail", !.document = Personne]
<1>1. r \in EtatsDeNuit
  BY EtatDeNuit DEF EtatsDeNuit, EtapesDeNuit
<1>2. nuits' = [nuits EXCEPT ![n] = r]
  BY DEF stocker, TypeNuit
<1>3. /\ r.etape = "travail" /\ r.memoire = nuits[n].memoire /\ r.document = Personne
      /\ r.perdus = nuits[n].perdus /\ r.pressee = nuits[n].pressee /\ r.doublee = nuits[n].doublee
  BY EtatDeNuit DEF EtatsDeNuit
<1> HIDE DEF r
<1> QED BY <1>1, <1>2, <1>3, PasTypee DEF PasDe, Champs, Memes

LEMMA FinirType ==
  ASSUME TypeNuit, NEW n \in Nuits, set_derniere_execution(n)
  PROVE  /\ nuits[n].memoire \in SUBSET Documents /\ sauvegarder(nuits[n].memoire)
         /\ Champs(n, "rendre", nuits[n].memoire, nuits[n].document, Perdre(n, nuits[n].memoire))
         /\ Memes(n)
<1> DEFINE p == Perdre(n, nuits[n].memoire)
           r == [nuits[n] EXCEPT !.etape = "rendre", !.perdus = p]
<1>0. nuits[n].memoire \in SUBSET Documents /\ sauvegarder(nuits[n].memoire)
  BY EtatDeNuit DEF set_derniere_execution
<1>a. p \in SUBSET Documents
  BY <1>0, SauverType
<1>b. nuits' = [nuits EXCEPT ![n].etape = "rendre", ![n].perdus = p]
  BY DEF set_derniere_execution
<1> HIDE DEF p
<1>1. r \in EtatsDeNuit
  BY <1>a, EtatDeNuit DEF EtatsDeNuit, EtapesDeNuit
<1>2. nuits' = [nuits EXCEPT ![n] = r]
  BY <1>b DEF TypeNuit
<1>3. /\ r.etape = "rendre" /\ r.memoire = nuits[n].memoire /\ r.document = nuits[n].document
      /\ r.perdus = p /\ r.pressee = nuits[n].pressee /\ r.doublee = nuits[n].doublee
  BY EtatDeNuit DEF EtatsDeNuit
<1> HIDE DEF r
<1>4. Champs(n, "rendre", nuits[n].memoire, nuits[n].document, p) /\ Memes(n)
  BY <1>1, <1>2, <1>3, PasTypee DEF PasDe, Champs, Memes
<1> QED BY <1>0, <1>4 DEF p

(* A run that finds the lock stale or absent finds nobody at work.          *)
LEMMA RegardDe ==
  ASSUME TypeNuit, NEW n \in Nuits, regarder(n)
  PROVE  /\ \E e \in {"finie", "ecrire", "retirer"} : Passer(n, e)
         /\ VerrouTenu => Passer(n, "finie") \/ PersonneNeTravaille
<1>1. \E e \in {"finie", "ecrire", "retirer"} : Passer(n, e)
  BY DEF regarder
<1>2. VerrouTenu /\ verrouNuit = Personne => PersonneNeTravaille
  BY VerrouEcrit DEF VerrouTenu, PersonneNeTravaille
<1>3. VerrouTenu /\ verrouNuit # Personne /\ ~pid_vivant(verrouNuit.pid) => PersonneNeTravaille
  BY DEF VerrouTenu, PersonneNeTravaille, EnTravail, pid_vivant
<1> QED BY <1>1, <1>2, <1>3 DEF regarder

(* Each step changes one run, and what is common as its action says.       *)
PasDeNuit(n) ==
  \/ lancer(n) \/ regarder(n) \/ retirer(n) \/ ouvrir(n) \/ achever(n) \/ charger(n)
  \/ \E d \in Documents : ignorer(n, d) \/ marquer_traite(n, d)
  \/ \E b \in BOOLEAN : stocker(n, b)
  \/ set_derniere_execution(n) \/ release(n) \/ tuer(n)

LEMMA ChampsDuPas ==
  ASSUME TypeNuit, NEW n \in Nuits, PasDeNuit(n)
  PROVE  \E e \in EtapesDeNuit, M \in SUBSET Documents, d \in Documents \cup {Personne}, p \in SUBSET Documents :
           Champs(n, e, M, d, p) /\ nuits[n].perdus \subseteq p
<1> USE EtatDeNuit DEF EtapesDeNuit
<1>1. CASE lancer(n)
  BY <1>1, LancerType
<1>2. CASE regarder(n)
  BY <1>2, PasserType, RegardDe
<1>3. CASE retirer(n) \/ ouvrir(n) \/ achever(n) \/ release(n) \/ tuer(n)
  BY <1>3, PasserType DEF retirer, ouvrir, achever, release, tuer
<1>4. CASE charger(n)
  <2>1. Retrouves \in SUBSET Documents
    BY DEF TypeNuit, Retrouves
  <2> QED BY <1>4, <2>1, ChargerType
<1>5. ASSUME NEW d \in Documents, ignorer(n, d)
      PROVE \E e \in EtapesDeNuit, M \in SUBSET Documents, x \in Documents \cup {Personne}, p \in SUBSET Documents :
              Champs(n, e, M, x, p) /\ nuits[n].perdus \subseteq p
  BY <1>5, IgnorerType
<1>6. ASSUME NEW d \in Documents, marquer_traite(n, d)
      PROVE \E e \in EtapesDeNuit, M \in SUBSET Documents, x \in Documents \cup {Personne}, p \in SUBSET Documents :
              Champs(n, e, M, x, p) /\ nuits[n].perdus \subseteq p
  <2>1. /\ Champs(n, "stocker", nuits[n].memoire \cup {d}, d, Perdre(n, nuits[n].memoire \cup {d}))
        /\ nuits[n].perdus \subseteq Perdre(n, nuits[n].memoire \cup {d})
    BY <1>6, MarquerType, SauverType
  <2>2. /\ nuits[n].memoire \cup {d} \in SUBSET Documents
        /\ Perdre(n, nuits[n].memoire \cup {d}) \in SUBSET Documents
    BY <1>6, MarquerType, SauverType
  <2> QED BY <2>1, <2>2
<1>7. ASSUME NEW c \in BOOLEAN, stocker(n, c)
      PROVE \E e \in EtapesDeNuit, M \in SUBSET Documents, x \in Documents \cup {Personne}, p \in SUBSET Documents :
              Champs(n, e, M, x, p) /\ nuits[n].perdus \subseteq p
  BY <1>7, StockerType
<1>8. CASE set_derniere_execution(n)
  BY <1>8, FinirType, SauverType
<1> QED BY <1>1, <1>2, <1>3, <1>4, <1>5, <1>6, <1>7, <1>8 DEF PasDeNuit

LEMMA TypeNuitPas ==
  ASSUME TypeNuit, [NextNuit]_varsNuit
  PROVE  TypeNuit'
<1>1. ASSUME NEW n \in Nuits, PasDeNuit(n) PROVE TypeNuit'
  <2>1. nuits' \in [Nuits -> EtatsDeNuit]
    BY <1>1, ChampsDuPas DEF Champs
  <2>2. verrouNuit' \in {Personne} \cup [pid : Nuits, lisible : BOOLEAN]
    <3>1. CASE ouvrir(n) \/ achever(n)
      <4>1. \A b \in BOOLEAN : [pid |-> n, lisible |-> b] \in [pid : Nuits, lisible : BOOLEAN]
        OBVIOUS
      <4>2. \E b \in BOOLEAN : verrouNuit' = [pid |-> n, lisible |-> b]
        BY <3>1 DEF ouvrir, achever
      <4> QED BY <4>1, <4>2
    <3>2. CASE retirer(n) \/ release(n)
      BY <3>2 DEF retirer, release
    <3>3. CASE UNCHANGED verrouNuit
      BY <3>3 DEF TypeNuit
    <3> QED BY <1>1, <3>1, <3>2, <3>3
            DEF PasDeNuit, lancer, regarder, charger, ignorer, marquer_traite, stocker, set_derniere_execution, tuer
  <2>3. traites' \in (SUBSET Documents) \cup {Illisible}
    <3>1. CASE charger(n)
      BY <3>1, ChargerType
    <3>2. CASE set_derniere_execution(n)
      BY <3>2, FinirType, SauverType
    <3>3. ASSUME NEW d \in Documents, marquer_traite(n, d) PROVE traites' \in (SUBSET Documents) \cup {Illisible}
      BY <3>3, MarquerType, SauverType
    <3> QED BY <1>1, <3>1, <3>2, <3>3
            DEF TypeNuit, PasDeNuit, lancer, regarder, retirer, ouvrir, achever, ignorer, stocker, release, tuer
  <2>4. pagesEnBase' \in [Documents -> Nat]
    <3>1. ASSUME NEW c \in BOOLEAN, stocker(n, c) PROVE pagesEnBase' \in [Documents -> Nat]
      <4>1. pagesEnBase' = pagesEnBase \/ pagesEnBase' = [pagesEnBase EXCEPT ![nuits[n].document] = @ + 1]
        BY <3>1 DEF stocker
      <4> QED BY <4>1 DEF TypeNuit
    <3>2. CASE UNCHANGED pagesEnBase
      BY <3>2 DEF TypeNuit
    <3> QED BY <1>1, <3>1, <3>2
            DEF PasDeNuit, lancer, regarder, retirer, ouvrir, achever, charger, ignorer, marquer_traite,
                set_derniere_execution, release, tuer
  <2> QED BY <2>1, <2>2, <2>3, <2>4 DEF TypeNuit
<1>2. CASE UNCHANGED varsNuit
  BY <1>2 DEF varsNuit, TypeNuit, Illisible
<1> QED BY <1>1, <1>2 DEF NextNuit, PasDeNuit

(* Nothing that befell a run is forgotten.                                  *)
LEMMA RienOublie ==
  ASSUME TypeNuit, NEW n \in Nuits, PasDeNuit(n)
  PROVE  /\ Paisible' => Paisible
         /\ Seule' => Seule
         /\ \A d \in Documents : Garde(d)' => Garde(d)
BY ChampsDuPas DEF Paisible, Seule, Garde, Champs

(* The lock file names one run.                                             *)
LEMMA VerrouSeul ==
  ASSUME VerrouTenu, NEW n \in Nuits, NEW m \in Nuits, nuits[n].etape \in EnTravail, nuits[m].etape \in EnTravail
  PROVE  m = n
<1>1. [pid |-> n, lisible |-> TRUE].pid = [pid |-> m, lisible |-> TRUE].pid
  BY DEF VerrouTenu
<1> QED BY <1>1

(* The lock.                                                                *)
LEMMA PrisePas ==
  ASSUME TypeNuit, InvPrise, NEW n \in Nuits, PasDeNuit(n)
  PROVE  InvPrise'
<1> SUFFICES ASSUME Paisible' PROVE PrendSeul' /\ VerrouTenu' /\ Seule'
  BY DEF InvPrise
<1>0. Paisible /\ PrendSeul /\ VerrouTenu /\ Seule
  BY RienOublie DEF InvPrise
<1> USE DEF EtapesDeNuit, En, PrendLeVerrou, PrendSeul, VerrouTenu, Seule, PersonneNeTravaille, EnTravail,
            PastLeRegard, Champs, Memes
<1>1. CASE lancer(n)
  <2>1. /\ Champs(n, "regarder", nuits[n].memoire, nuits[n].document, nuits[n].perdus)
        /\ nuits'[n].pressee = (nuits[n].pressee \/ \E m \in Nuits : PrendLeVerrou(m))
        /\ nuits'[n].doublee = nuits[n].doublee /\ verrouNuit' = verrouNuit
    BY <1>1, LancerType DEF lancer
  <2>2. \A m \in Nuits : ~PrendLeVerrou(m)
    BY <2>1 DEF Paisible
  <2> QED BY <1>0, <2>1, <2>2
<1>2. CASE regarder(n)
  <2>1. PICK e \in {"finie", "ecrire", "retirer"} :
           /\ Passer(n, e) /\ verrouNuit' = verrouNuit
           /\ e # "finie" => PersonneNeTravaille
    <3>1. Passer(n, "finie") \/ (PersonneNeTravaille /\ \E e \in {"finie", "ecrire", "retirer"} : Passer(n, e))
      BY <1>0, <1>2, RegardDe
    <3> QED BY <1>2, <3>1 DEF regarder
  <2>2. Champs(n, e, nuits[n].memoire, nuits[n].document, nuits[n].perdus) /\ Memes(n)
    BY <2>1, PasserType
  <2> QED BY <1>0, <1>2, <2>1, <2>2 DEF regarder
<1>3. CASE retirer(n)
  <2>1. Champs(n, "ecrire", nuits[n].memoire, nuits[n].document, nuits[n].perdus) /\ Memes(n)
    BY <1>3, PasserType DEF retirer
  <2> QED BY <1>0, <1>3, <2>1 DEF retirer
<1>4. CASE ouvrir(n)
  <2>1. Champs(n, "achever", nuits[n].memoire, nuits[n].document, nuits[n].perdus) /\ Memes(n)
    BY <1>4, PasserType DEF ouvrir
  <2> QED BY <1>0, <1>4, <2>1 DEF ouvrir
<1>5. CASE achever(n)
  <2>1. Champs(n, "charger", nuits[n].memoire, nuits[n].document, nuits[n].perdus) /\ Memes(n)
    BY <1>5, PasserType DEF achever
  <2>2. PersonneNeTravaille /\ \A m \in Nuits \ {n} : nuits[m].etape \notin PastLeRegard
    BY <1>0, <1>5 DEF achever
  <2> QED BY <1>0, <1>5, <2>1, <2>2 DEF achever
<1>6. CASE charger(n)
  <2>1. /\ Champs(n, "travail", Retrouves, nuits[n].document, nuits[n].perdus) /\ verrouNuit' = verrouNuit
        /\ nuits'[n].doublee = (nuits[n].doublee \/ \E m \in Nuits \ {n} : AuTravail(m))
    BY <1>6, ChargerType DEF charger
  <2>2. \A m \in Nuits \ {n} : ~AuTravail(m)
    <3>1. \A m \in Nuits \ {n} : nuits[m].etape \notin EnTravail
      BY <1>0, <1>6, VerrouSeul DEF charger
    <3> QED BY <3>1 DEF AuTravail
  <2>3. PrendSeul' /\ Seule'
    BY <1>0, <2>1, <2>2
  <2>4. VerrouTenu'
    BY <1>0, <1>6, <2>1 DEF charger
  <2> QED BY <2>3, <2>4
<1>7. CASE /\ verrouNuit' = verrouNuit /\ nuits[n].etape \in {"travail", "stocker"}
           /\ \E e \in {"travail", "stocker", "rendre"} : nuits'[n].etape = e
           /\ nuits'[n].doublee = nuits[n].doublee
           /\ \A m \in Nuits \ {n} : nuits'[m] = nuits[m]
  BY <1>0, <1>7
<1>8. CASE release(n)
  <2>1. Champs(n, "finie", nuits[n].memoire, nuits[n].document, nuits[n].perdus) /\ Memes(n)
    BY <1>8, PasserType DEF release
  <2>2. \A m \in Nuits \ {n} : nuits[m].etape \notin EnTravail \cup PastLeRegard
    BY <1>0, <1>8 DEF release
  <2> QED BY <1>0, <1>8, <2>1, <2>2 DEF release
<1>9. CASE tuer(n)
  <2>1. Champs(n, "tuee", nuits[n].memoire, nuits[n].document, nuits[n].perdus) /\ Memes(n)
    BY <1>9, PasserType DEF tuer
  <2> QED BY <1>0, <1>9, <2>1 DEF tuer
<1>10. ASSUME NEW d \in Documents, ignorer(n, d) \/ marquer_traite(n, d)
       PROVE /\ verrouNuit' = verrouNuit /\ nuits[n].etape \in {"travail", "stocker"}
             /\ \E e \in {"travail", "stocker", "rendre"} : nuits'[n].etape = e
             /\ nuits'[n].doublee = nuits[n].doublee
             /\ \A m \in Nuits \ {n} : nuits'[m] = nuits[m]
  BY <1>10, IgnorerType, MarquerType DEF ignorer, marquer_traite, Examiner
<1>11. ASSUME NEW c \in BOOLEAN, stocker(n, c) \/ set_derniere_execution(n)
       PROVE /\ verrouNuit' = verrouNuit /\ nuits[n].etape \in {"travail", "stocker"}
             /\ \E e \in {"travail", "stocker", "rendre"} : nuits'[n].etape = e
             /\ nuits'[n].doublee = nuits[n].doublee
             /\ \A m \in Nuits \ {n} : nuits'[m] = nuits[m]
  BY <1>11, StockerType, FinirType DEF stocker, set_derniere_execution
<1> QED BY <1>1, <1>2, <1>3, <1>4, <1>5, <1>6, <1>7, <1>8, <1>9, <1>10, <1>11 DEF PasDeNuit

(* The list.                                                                *)
LEMMA ListePas ==
  ASSUME TypeNuit, InvListe, NEW n \in Nuits, PasDeNuit(n)
  PROVE  InvListe'
<1> USE DEF En, AuTravail, TravailleSeule, ListeConnue, ListeTenue, StockeUnDocument, Garde, Champs
<1>0. Seule' => Seule /\ TravailleSeule /\ ListeConnue /\ ListeTenue
  BY RienOublie DEF InvListe
<1>a. StockeUnDocument
  BY DEF InvListe
<1>1. CASE lancer(n) \/ regarder(n) \/ retirer(n) \/ ouvrir(n) \/ achever(n) \/ release(n) \/ tuer(n)
  <2>1. /\ \E e \in EtapesDeNuit \ {"travail", "stocker"} :
             Champs(n, e, nuits[n].memoire, nuits[n].document, nuits[n].perdus)
        /\ UNCHANGED <<traites, pagesEnBase>>
    BY <1>1, LancerType, PasserType, RegardDe
       DEF lancer, regarder, retirer, ouvrir, achever, release, tuer, EtapesDeNuit
  <2>2. Retrouves' = Retrouves
    BY <2>1 DEF Retrouves, Illisible
  <2> QED BY <1>0, <1>a, <2>1, <2>2 DEF InvListe
<1>2. CASE charger(n)
  <2>1. /\ Champs(n, "travail", Retrouves, nuits[n].document, nuits[n].perdus)
        /\ nuits'[n].doublee = (nuits[n].doublee \/ \E m \in Nuits \ {n} : AuTravail(m))
        /\ Retrouves' = Retrouves /\ pagesEnBase' = pagesEnBase
    BY <1>2, ChargerType DEF charger
  <2>2. Seule' => \A m \in Nuits \ {n} : ~AuTravail(m)
    BY <2>1 DEF Seule
  <2> QED BY <1>0, <1>a, <2>1, <2>2 DEF InvListe
<1>3. ASSUME NEW d \in Documents, ignorer(n, d) PROVE InvListe'
  <2>1. /\ Champs(n, "travail", nuits[n].memoire, nuits[n].document, nuits[n].perdus)
        /\ UNCHANGED <<traites, pagesEnBase>> /\ nuits[n].etape = "travail"
    BY <1>3, IgnorerType DEF ignorer, Examiner
  <2>2. Retrouves' = Retrouves
    BY <2>1 DEF Retrouves, Illisible
  <2> QED BY <1>0, <1>a, <2>1, <2>2 DEF InvListe
<1>4. ASSUME NEW d \in Documents, marquer_traite(n, d) PROVE InvListe'
  <2> DEFINE S == nuits[n].memoire \cup {d}
             p == Perdre(n, S)
  <2>1. /\ Champs(n, "stocker", S, d, p) /\ S \subseteq Retrouves' \cup p
        /\ nuits[n].perdus \subseteq p /\ Retrouves' \subseteq S \cup Retrouves
    BY <1>4, MarquerType, SauverType
  <2>2. pagesEnBase' = pagesEnBase /\ nuits[n].etape = "travail" /\ d \notin nuits[n].memoire
    BY <1>4 DEF marquer_traite, Examiner
  <2> HIDE DEF p
  <2>3. StockeUnDocument'
    BY <1>a, <2>1
  <2>4. ASSUME Seule' PROVE TravailleSeule' /\ ListeConnue'
    BY <1>0, <2>1, <2>2, <2>4
  <2>5. ASSUME Seule', NEW x \in Documents, Garde(x)'
        PROVE  /\ pagesEnBase'[x] \in {0, 1}
               /\ pagesEnBase'[x] = 1 => x \in Retrouves'
               /\ \A m \in Nuits : nuits'[m].etape = "stocker" /\ nuits'[m].document = x =>
                    pagesEnBase'[x] = 0 /\ x \in Retrouves'
    <3>1. Garde(x) /\ x \notin p
      BY <2>1, <2>5
    <3>2. x \in Retrouves \/ x = d => x \in Retrouves'
      BY <1>0, <2>1, <2>2, <2>5, <3>1
    <3>3. pagesEnBase[x] \in {0, 1} /\ (pagesEnBase[x] = 1 => x \in Retrouves)
      BY <1>0, <2>5, <3>1
    <3>4. d \notin Retrouves
      BY <1>0, <2>2, <2>5
    <3>5. \A m \in Nuits : nuits'[m].etape = "stocker" => m = n
      BY <1>0, <2>1, <2>2, <2>5
    <3> QED BY <2>1, <2>2, <3>2, <3>3, <3>4, <3>5
  <2> QED BY <2>3, <2>4, <2>5 DEF InvListe
<1>5. ASSUME NEW c \in BOOLEAN, stocker(n, c) PROVE InvListe'
  <2> DEFINE d == nuits[n].document
  <2>1. /\ Champs(n, "travail", nuits[n].memoire, Personne, nuits[n].perdus)
        /\ traites' = traites /\ nuits[n].etape = "stocker"
        /\ pagesEnBase' = pagesEnBase \/ pagesEnBase' = [pagesEnBase EXCEPT ![d] = @ + 1]
    BY <1>5, StockerType DEF stocker
  <2>2. Retrouves' = Retrouves
    BY <2>1 DEF Retrouves, Illisible
  <2>3. StockeUnDocument'
    BY <1>a, <2>1
  <2>4. ASSUME Seule' PROVE TravailleSeule' /\ ListeConnue'
    BY <1>0, <2>1, <2>2, <2>4
  <2>5. ASSUME Seule', NEW x \in Documents, Garde(x)'
        PROVE  /\ pagesEnBase'[x] \in {0, 1}
               /\ pagesEnBase'[x] = 1 => x \in Retrouves'
               /\ \A m \in Nuits : nuits'[m].etape = "stocker" /\ nuits'[m].document = x =>
                    pagesEnBase'[x] = 0 /\ x \in Retrouves'
    <3>1. Garde(x)
      BY <2>1, <2>5
    <3>2. pagesEnBase[x] \in {0, 1} /\ (pagesEnBase[x] = 1 => x \in Retrouves)
      BY <1>0, <2>5, <3>1
    <3>3. x = d => pagesEnBase[x] = 0 /\ x \in Retrouves
      BY <1>0, <2>1, <2>5, <3>1
    <3>4. pagesEnBase'[x] = pagesEnBase[x] \/ (x = d /\ pagesEnBase'[x] = 1)
      BY <1>a, <2>1, <3>3 DEF TypeNuit
    <3>5. \A m \in Nuits : nuits'[m].etape # "stocker"
      BY <1>0, <2>1, <2>5
    <3> QED BY <2>2, <3>2, <3>3, <3>4, <3>5
  <2> QED BY <2>3, <2>4, <2>5 DEF InvListe
<1>6. CASE set_derniere_execution(n)
  <2> DEFINE S == nuits[n].memoire
             p == Perdre(n, S)
  <2>1. /\ Champs(n, "rendre", S, nuits[n].document, p) /\ S \subseteq Retrouves' \cup p
        /\ nuits[n].perdus \subseteq p
    BY <1>6, FinirType, SauverType
  <2>2. pagesEnBase' = pagesEnBase /\ nuits[n].etape \in {"travail", "stocker"}
    BY <1>6 DEF set_derniere_execution
  <2> HIDE DEF p
  <2>3. StockeUnDocument'
    BY <1>a, <2>1
  <2>4. ASSUME Seule' PROVE \A m \in Nuits : ~AuTravail(m)'
    BY <1>0, <2>1, <2>2, <2>4
  <2>5. ASSUME Seule', NEW x \in Documents, Garde(x)'
        PROVE  pagesEnBase'[x] \in {0, 1} /\ (pagesEnBase'[x] = 1 => x \in Retrouves')
    <3>1. Garde(x) /\ x \notin p
      BY <2>1, <2>5
    <3>2. x \in Retrouves => x \in Retrouves'
      BY <1>0, <2>1, <2>2, <2>5, <3>1
    <3> QED BY <1>0, <2>2, <2>5, <3>1, <3>2
  <2> QED BY <2>3, <2>4, <2>5 DEF InvListe
<1> QED BY <1>1, <1>2, <1>3, <1>4, <1>5, <1>6 DEF PasDeNuit

LEMMA UnPasDeNuit ==
  ASSUME InvNuit, [NextNuit]_varsNuit
  PROVE  InvNuit'
<1>1. ASSUME NEW n \in Nuits, PasDeNuit(n) PROVE InvNuit'
  <2>1. [NextNuit]_varsNuit
    OBVIOUS
  <2> QED BY <1>1, <2>1, TypeNuitPas, PrisePas, ListePas DEF InvNuit
<1>2. CASE UNCHANGED varsNuit
  <2>1. InvPrise'
    BY <1>2 DEF InvNuit, varsNuit, InvPrise, Paisible, PrendSeul, PrendLeVerrou, VerrouTenu, PersonneNeTravaille, Seule
  <2>2. InvListe'
    BY <1>2 DEF InvNuit, varsNuit, InvListe, StockeUnDocument, Seule, TravailleSeule, AuTravail, ListeConnue,
                ListeTenue, Garde, Retrouves, Illisible
  <2> QED BY <1>2, <2>1, <2>2, TypeNuitPas DEF InvNuit
<1> QED BY <1>1, <1>2 DEF NextNuit, PasDeNuit

(* The pages of a document are inserted once, for any runs and documents,   *)
(* unless a save lost its print or two runs worked together; and two only   *)
(* do when one was launched while the other took the lock (ocr/cli.py,      *)
(* ocr/etat.py).                                                            *)
THEOREM PagesUneFoisProuve == Spec => []PagesUneFois
<1>1. Init => InvNuit
  BY DebutNuit DEF Init
<1>2. InvNuit /\ [Next]_varsTaches => InvNuit'
  <2>1. [Next]_varsTaches => [NextNuit]_varsNuit
    BY DEF Next, varsTaches
  <2> QED BY <2>1, UnPasDeNuit
<1>3. InvNuit => PagesUneFois
  BY DEF InvNuit, InvPrise, InvListe, Paisible, Seule, ListeTenue, Garde, PagesUneFois
<1> QED BY <1>1, <1>2, <1>3, PTL DEF Spec

----------------------------------------------------------------------------
(* The audit log.                                                           *)

Connus == Evenements \cup {Ancien}
LignesAudit == [evenement : Connus, precedente : Nat]

TypeAudit ==
  /\ historique \in Seq(Connus)
  /\ chaine # Rien => chaine \in Seq(LignesAudit)
  /\ verrou \in Evenements \cup {Rien}
  /\ redacteurs \in [Evenements ->
       [etape : {"nouveau", "canonique", "verrou", "insere", "fini"}, tete : Nat]]
  /\ migration \in [Migrateurs -> [etape : {"attend", "copie", "faite"}, lignes : Seq(Connus)]]

(* Who has read the head holds the lock, and the head is still the one it   *)
(* read; the table an event waits for is there.                             *)
TeteLue ==
  \A e \in Evenements :
    /\ redacteurs[e].etape = "insere" =>
         verrou = e /\ chaine # Rien /\ redacteurs[e].tete = Len(chaine)
    /\ redacteurs[e].etape = "verrou" => chaine # Rien

InvAudit == TypeAudit /\ TeteLue /\ ChaineLineaire

LEMMA DebutAudit == InitAudit => InvAudit
<1> SUFFICES ASSUME InitAudit PROVE InvAudit
  OBVIOUS
<1>1. <<Ancien>> \in Seq(Connus) /\ <<>> \in Seq(Connus)
  BY DEF Connus
<1> QED BY <1>1 DEF InitAudit, InvAudit, TypeAudit, TeteLue, ChaineLineaire

Lineaire(c) == c \in Seq(LignesAudit) /\ \A i \in DOMAIN c : c[i].precedente = i - 1

(* A row is added at the end, with the place of the last one.               *)
LEMMA AjouterUneLigne ==
  ASSUME NEW c, Lineaire(c), NEW e \in Connus
  PROVE  Lineaire(Append(c, Ligne(e, Len(c))))
<1>1. Ligne(e, Len(c)) \in LignesAudit
  BY DEF Ligne, LignesAudit, Lineaire
<1> QED BY <1>1 DEF Ligne, Lineaire

(* The rows of the history follow those that are there.                     *)
LEMMA CopierLHistorique ==
  ASSUME NEW c, Lineaire(c), NEW h \in Seq(Connus),
         NEW d, d = [i \in DOMAIN h |-> Ligne(h[i], Len(c) + i - 1)]
  PROVE  Lineaire(c \o d)
<1>0. c \in Seq(LignesAudit) /\ \A i \in DOMAIN c : c[i].precedente = i - 1
  BY DEF Lineaire
<1>1. \A i \in 1..Len(h) : Ligne(h[i], Len(c) + i - 1) \in LignesAudit
  BY <1>0 DEF Ligne, LignesAudit
<1>2. d \in Seq(LignesAudit) /\ Len(d) = Len(h)
  <2>1. d \in [1..Len(h) -> LignesAudit] /\ Len(h) \in Nat
    BY <1>1
  <2> QED BY <2>1, SeqDef
<1>3. c \o d \in Seq(LignesAudit) /\ Len(c \o d) = Len(c) + Len(d)
  BY <1>0, <1>2
<1>4. ASSUME NEW i \in 1..(Len(c) + Len(d)) PROVE (c \o d)[i].precedente = i - 1
  <2>1. CASE i <= Len(c)
    BY <1>0, <1>2, <2>1
  <2>2. CASE i > Len(c)
    <3>1. (c \o d)[i] = d[i - Len(c)] /\ i - Len(c) \in 1..Len(h)
      BY <1>0, <1>2, <2>2
    <3>2. d[i - Len(c)] = Ligne(h[i - Len(c)], Len(c) + (i - Len(c)) - 1)
      BY <1>0, <3>1
    <3> QED BY <1>0, <3>1, <3>2 DEF Ligne
  <2> QED BY <1>0, <2>1, <2>2
<1>5. DOMAIN (c \o d) = 1..(Len(c) + Len(d))
  BY <1>0, <1>2
<1> QED BY <1>3, <1>4, <1>5 DEF Lineaire

LEMMA UnPasDAudit == ASSUME InvAudit, [NextAudit]_varsAudit PROVE InvAudit'
<1> USE DEF InvAudit, TypeAudit, TeteLue, ChaineLineaire
<1>1. ASSUME NEW e \in Evenements, record_audit_event(e) PROVE InvAudit'
  <2>1. historique' \in Seq(Connus)
    <3>1. e \in Connus
      BY DEF Connus
    <3>2. Append(historique, e) \in Seq(Connus)
      BY <3>1
    <3> QED BY <1>1, <3>2 DEF record_audit_event
  <2> QED BY <1>1, <2>1 DEF record_audit_event, Noter
<1>2. ASSUME NEW e \in Evenements, to_regclass(e) PROVE InvAudit'
  BY <1>2 DEF to_regclass, Noter
<1>3. ASSUME NEW e \in Evenements, lire_tete(e) PROVE InvAudit'
  BY <1>3, HypRien DEF lire_tete, Noter
<1>4. ASSUME NEW e \in Evenements, inserer_audit_logs(e) PROVE InvAudit'
  <2>1. e \in Connus /\ chaine \in Seq(LignesAudit) /\ redacteurs[e].tete = Len(chaine) /\ verrou = e
    BY <1>4 DEF inserer_audit_logs, Connus
  <2>2. Lineaire(chaine')
    <3>1. Lineaire(chaine) /\ chaine' \in {Append(chaine, Ligne(e, Len(chaine))), chaine}
      BY <1>4, <2>1 DEF inserer_audit_logs, Lineaire
    <3>2. Lineaire(Append(chaine, Ligne(e, Len(chaine))))
      BY <2>1, <3>1, AjouterUneLigne
    <3> QED BY <3>1, <3>2
  <2>3. chaine' # Rien
    BY <2>2, HypRien DEF LignesAudit, Connus, Lineaire
  <2>4. \A x \in Evenements \ {e} : redacteurs'[x] = redacteurs[x] /\ redacteurs[x].etape # "insere"
    BY <1>4, <2>1 DEF inserer_audit_logs, Noter
  <2>5. redacteurs'[e] = [etape |-> "fini", tete |-> 0]
    BY <1>4 DEF inserer_audit_logs, Noter
  <2>6. TeteLue'
    BY <2>3, <2>4, <2>5
  <2>7. TypeAudit'
    BY <1>4, <2>2 DEF inserer_audit_logs, Noter, Lineaire
  <2> QED BY <2>2, <2>6, <2>7 DEF Lineaire
<1>5. ASSUME NEW m \in Migrateurs, lire_historique(m) PROVE InvAudit'
  <2>1. migration' \in [Migrateurs -> [etape : {"attend", "copie", "faite"}, lignes : Seq(Connus)]]
    BY <1>5 DEF lire_historique
  <2> QED BY <1>5, <2>1 DEF lire_historique
<1>6. ASSUME NEW m \in Migrateurs, migrer_audit_log_postgres(m) PROVE InvAudit'
  <2> DEFINE c == IF chaine = Rien THEN <<>> ELSE chaine
             h == migration[m].lignes
             d == [i \in DOMAIN h |-> Ligne(h[i], Len(c) + i - 1)]
  <2>1. Lineaire(c) /\ h \in Seq(Connus)
    BY DEF Lineaire
  <2>2. chaine' = c \o d
    BY <1>6 DEF migrer_audit_log_postgres
  <2> HIDE DEF c, h
  <2>3. Lineaire(chaine')
    BY <2>1, <2>2, CopierLHistorique
  <2>4. chaine' # Rien
    BY <2>3, HypRien DEF LignesAudit, Connus, Lineaire
  <2>5. \A e \in Evenements : redacteurs'[e].etape # "insere"
    BY <1>6, HypRien DEF migrer_audit_log_postgres
  <2>6. migration' \in [Migrateurs -> [etape : {"attend", "copie", "faite"}, lignes : Seq(Connus)]]
    BY <1>6 DEF migrer_audit_log_postgres
  <2> QED BY <1>6, <2>3, <2>4, <2>5, <2>6 DEF migrer_audit_log_postgres, Lineaire
<1>7. CASE prune_audit_logs
  <2>1. historique' \in Seq(Connus)
    BY <1>7 DEF prune_audit_logs
  <2> QED BY <1>7, <2>1 DEF prune_audit_logs
<1>8. CASE UNCHANGED varsAudit
  BY <1>8 DEF varsAudit
<1> QED BY <1>1, <1>2, <1>3, <1>4, <1>5, <1>6, <1>7, <1>8 DEF NextAudit

(* The canonical log is one chain, whatever threads, migrations, failures   *)
(* and cleanups met: who reads the head keeps the lock until its insertion. *)
THEOREM ChaineLineaireProuve == Spec => []ChaineLineaire
<1>1. Init => InvAudit
  BY DebutAudit DEF Init
<1>2. InvAudit /\ [Next]_varsTaches => InvAudit'
  <2>1. [Next]_varsTaches => [NextAudit]_varsAudit
    BY DEF Next, varsTaches
  <2> QED BY <2>1, UnPasDAudit
<1>3. InvAudit => ChaineLineaire
  BY DEF InvAudit
<1> QED BY <1>1, <1>2, <1>3, PTL DEF Spec

----------------------------------------------------------------------------
(* The schema and the secured migration.                                    *)

(* The least element of a set of numbers, which the choice Min makes.       *)
LEMMA PlusPetit ==
  ASSUME NEW T, T \subseteq Nat, T # {}
  PROVE  Min(T) \in T
BY PetitElement DEF Min

TypeSchema ==
  /\ registre \in SUBSET Migrations
  /\ demarrage \in [Processus -> [etape : {"arrete", "migre", "sert"}, lues : SUBSET Migrations,
                                  faites : SUBSET Migrations]]

(* Rows are never removed from the registry: what a process read is there.  *)
InvSchema ==
  /\ TypeSchema
  /\ \A p \in Processus : demarrage[p].etape = "migre" => demarrage[p].lues \subseteq registre
  /\ SchemaEntier

LEMMA DebutSchema == InitSchema \/ BaseVide => InvSchema
BY HypMigrations DEF InitSchema, BaseVide, InvSchema, TypeSchema, SchemaEntier, Arrete, Migrations

LEMMA UnPasDeSchema == ASSUME InvSchema, [NextSchema]_varsSchema PROVE InvSchema'
<1> USE DEF InvSchema, TypeSchema, SchemaEntier
<1>1. ASSUME NEW p \in Processus, run_migrations(p) PROVE InvSchema'
  BY <1>1 DEF run_migrations
<1>2. ASSUME NEW p \in Processus, appliquer_migration(p) PROVE InvSchema'
  <2>1. AFaire(p) \subseteq Migrations /\ AFaire(p) # {} /\ Migrations \subseteq Nat
    BY <1>2, HypMigrations DEF appliquer_migration, AFaire, Migrations
  <2>2. Min(AFaire(p)) \in Migrations
    BY <2>1, PlusPetit
  <2> QED BY <1>2, <2>2 DEF appliquer_migration
<1>3. ASSUME NEW p \in Processus, commit_migrations(p) PROVE InvSchema'
  <2>1. registre' = Migrations /\ registre' \subseteq effets'
    BY <1>3 DEF commit_migrations, AFaire
  <2> QED BY <1>3, <2>1 DEF commit_migrations
<1>4. ASSUME NEW p \in Processus, echec_migration(p) PROVE InvSchema'
  BY <1>4 DEF echec_migration, Arrete
<1>5. ASSUME NEW p \in Processus, arreter(p) PROVE InvSchema'
  BY <1>5 DEF arreter, Arrete
<1>6. ASSUME NEW p \in Processus, preparer_rebuild(p) PROVE InvSchema'
  BY <1>6 DEF preparer_rebuild
<1>7. CASE capturer_document
  BY <1>7 DEF capturer_document
<1>8. CASE UNCHANGED varsSchema
  BY <1>8 DEF varsSchema
<1> QED BY <1>1, <1>2, <1>3, <1>4, <1>5, <1>6, <1>7, <1>8 DEF NextSchema

(* A photograph that was not finished saw the first version only; a         *)
(* finished one says what it read, and nothing changes it.                  *)
PhotoFidele ==
  /\ photo = [etape |-> photo.etape, dump |-> photo.dump, version |-> photo.version,
              lignes |-> photo.lignes, empreinte |-> photo.empreinte, base |-> photo.base]
  /\ photo.etape # "lue" => production.version = 0
  /\ photo.etape \in {"comptes", "empreintes", "lue"} => photo.version = 0
  /\ photo.etape = "lue" =>
       photo.base.version = 0 /\ photo.empreinte = EmpreinteLogique(photo.base)

InvMigration ==
  /\ PhotoFidele
  /\ retour = [etape |-> retour.etape, base |-> retour.base, lignes |-> retour.lignes, ok |-> retour.ok]
  /\ retour.etape # "aucun" => photo.etape = "lue"
  /\ retour.ok => retour.etape = "verifie"
  /\ retour.ok \in BOOLEAN
  /\ RetourProuve

LEMMA DebutMigration == InitMigration \/ ProductionVide => InvMigration
<1> SUFFICES ASSUME InitMigration \/ ProductionVide PROVE InvMigration
  OBVIOUS
<1>1. production.version = 0 /\ photo = PasDePhoto /\ retour = PasDeRetour
  BY DEF InitMigration, ProductionVide
<1>2. PhotoFidele
  BY <1>1 DEF PhotoFidele, PasDePhoto
<1>3. retour.etape = "aucun" /\ retour.ok = FALSE
  BY <1>1 DEF PasDeRetour
<1>4. retour = [etape |-> retour.etape, base |-> retour.base, lignes |-> retour.lignes, ok |-> retour.ok]
  BY <1>1 DEF PasDeRetour
<1> QED BY <1>2, <1>3, <1>4 DEF InvMigration, RetourProuve

LEMMA PhotoPrise ==
  ASSUME InvMigration, photo.etape # "lue", NEW valeurs, Prendre(valeurs), PhotoFidele'
  PROVE  InvMigration'
BY DEF InvMigration, Prendre, RetourProuve

LEMMA UnPasDeMigration == ASSUME InvMigration, [NextMigration]_varsMigration PROVE InvMigration'
<1> USE DEF InvMigration
<1>1. CASE ecrire_metier
  BY <1>1 DEF ecrire_metier, PhotoFidele, RetourProuve
<1>2. CASE installer_version
  BY <1>2 DEF installer_version, PhotoFidele, RetourProuve
<1>3. CASE dump_de_securite
  BY <1>3, PhotoPrise DEF dump_de_securite, Prendre, PhotoFidele
<1>4. CASE lire_versions
  BY <1>4, PhotoPrise DEF lire_versions, Prendre, PhotoFidele
<1>5. CASE lire_comptes
  BY <1>5, PhotoPrise DEF lire_comptes, Prendre, PhotoFidele
<1>6. CASE lire_empreintes
  BY <1>6, PhotoPrise DEF lire_empreintes, Prendre, PhotoFidele, EmpreinteLogique
<1>7. CASE avant_impossible
  BY <1>7, PhotoPrise DEF avant_impossible, Prendre, PhotoFidele, PasDePhoto
<1>8. CASE apres_versions \/ apres_comptes \/ apres_migration
  BY <1>8 DEF apres_versions, apres_comptes, apres_migration, Comparer, PhotoFidele, RetourProuve
<1>9. CASE restaurer_dump
  BY <1>9 DEF restaurer_dump, Revenir, PhotoFidele, RetourProuve
<1>10. CASE rollback
  <2>1. /\ photo.etape = "lue" /\ UNCHANGED <<production, photo>>
        /\ retour' = [retour EXCEPT !.etape = "verifie", !.ok = VerifierRetour(retour.base)]
    BY <1>10 DEF rollback, Revenir
  <2>2. VerifierRetour(retour.base) \in BOOLEAN
    BY DEF VerifierRetour
  <2>3. VerifierRetour(retour.base) => RetourProuve'
    BY <2>1 DEF VerifierRetour, PhotoFidele, RetourProuve, EmpreinteLogique
  <2> QED BY <2>1, <2>2, <2>3 DEF PhotoFidele, RetourProuve
<1>11. CASE UNCHANGED varsMigration
  BY <1>11 DEF varsMigration, PhotoFidele, RetourProuve
<1> QED BY <1>1, <1>2, <1>3, <1>4, <1>5, <1>6, <1>7, <1>8, <1>9, <1>10, <1>11 DEF NextMigration

(* A process that serves has every migration, whoever started, failed or    *)
(* rebuilt beside it; and a way back declared right gives the rows of the   *)
(* photograph, whatever the services wrote while it was taken.              *)
THEOREM MigrationsSuresProuve == Spec => []MigrationsSures
<1>1. Init => InvSchema /\ InvMigration
  BY DebutSchema, DebutMigration DEF Init
<1>2. InvSchema /\ InvMigration /\ [Next]_varsTaches => InvSchema' /\ InvMigration'
  <2>1. [Next]_varsTaches => [NextSchema]_varsSchema /\ [NextMigration]_varsMigration
    BY DEF Next, varsTaches
  <2> QED BY <2>1, UnPasDeSchema, UnPasDeMigration
<1>3. InvSchema /\ InvMigration => MigrationsSures
  BY DEF InvSchema, InvMigration, MigrationsSures
<1> QED BY <1>1, <1>2, <1>3, PTL DEF Spec

----------------------------------------------------------------------------
(* Accounts and sessions.                                                   *)

EtapesDeRequete == {"lire", "registre", "toucher", "compte", "acceptee", "capacite"}
EtapesDeClient == EtapesDeRequete \cup {"verifier", "inserer", "publier", "service"}
LignesSession == [revoquee : BOOLEAN, role : Roles \cup {Neant}]
EtatsClient ==
  [etape : EtapesDeClient, juste : BOOLEAN, role : Roles \cup {Neant}, session : Sessions \cup {Neant},
   dejaRevoquee : BOOLEAN, tenus : SUBSET Roles]

TypeComptes ==
  /\ compte \in [actif : BOOLEAN, role : Roles]
  /\ session_ui \in [Sessions -> {Neant} \cup LignesSession]
  /\ clients \in [Clients -> {Neant} \cup EtatsClient]
  /\ rendues \subseteq {s \in Sessions : session_ui[s] # Neant}

(* A request that arrived on a revoked session has not gone past its row;   *)
(* the roles held since it arrived include the one of the account.          *)
Suivie(c) ==
  /\ clients[c].etape \in EtapesDeRequete \cup {"publier"} =>
       clients[c].session \in Sessions /\ session_ui[clients[c].session] # Neant
  /\ clients[c].etape \in EtapesDeRequete =>
       /\ clients[c].dejaRevoquee => clients[c].etape = "lire" /\ session_ui[clients[c].session].revoquee
       /\ compte.role \in clients[c].tenus
  /\ clients[c].etape \in {"acceptee", "capacite"} => clients[c].role \in clients[c].tenus

InvComptes == TypeComptes /\ \A c \in Clients : clients[c] # Neant => Suivie(c)

LEMMA DebutComptes == InitComptes => InvComptes
BY DEF InitComptes, InvComptes, TypeComptes, Roles

(* Rows of sessions are not removed, and stay revoked.                      *)
RevocationsGardees ==
  \A s \in Sessions : session_ui[s] # Neant =>
    session_ui'[s] # Neant /\ (session_ui[s].revoquee => session_ui'[s].revoquee)

(* What a step of the client c owes: the others keep their state.           *)
LEMMA PasDUnClient ==
  ASSUME InvComptes, TypeComptes', NEW c \in Clients, RevocationsGardees, UNCHANGED compte,
         \A x \in Clients \ {c} : clients'[x] = clients[x],
         clients'[c] # Neant => Suivie(c)'
  PROVE  InvComptes'
<1>1. ASSUME NEW x \in Clients \ {c}, clients'[x] # Neant PROVE Suivie(x)'
  <2>1. clients'[x] = clients[x] /\ Suivie(x)
    BY <1>1 DEF InvComptes
  <2> QED BY <2>1 DEF Suivie, RevocationsGardees, EtapesDeRequete
<1> QED BY <1>1 DEF InvComptes

(* A step that moves one client only, from a stage to another or out.       *)
LEMMA PasDeClientSeul ==
  ASSUME InvComptes, NEW c \in Clients, UNCHANGED <<compte, session_ui, rendues>>,
         NEW r \in {Neant} \cup EtatsClient, clients' = [clients EXCEPT ![c] = r],
         clients'[c] # Neant => Suivie(c)'
  PROVE  InvComptes'
<1>1. TypeComptes'
  BY DEF InvComptes, TypeComptes
<1>2. RevocationsGardees
  BY DEF RevocationsGardees
<1>3. \A x \in Clients \ {c} : clients'[x] = clients[x]
  BY DEF InvComptes, TypeComptes
<1> QED BY <1>1, <1>2, <1>3, PasDUnClient

LEMMA Sortie ==
  ASSUME InvComptes, NEW c \in Clients, UNCHANGED <<compte, session_ui, rendues>>, Quitter(c)
  PROVE  InvComptes'
<1>1. clients' = [clients EXCEPT ![c] = Neant] /\ clients'[c] = Neant
  BY DEF Quitter, InvComptes, TypeComptes
<1> QED BY <1>1, PasDeClientSeul

LEMMA Poursuite ==
  ASSUME InvComptes, NEW c \in Clients, UNCHANGED <<compte, session_ui, rendues>>,
         clients[c] # Neant, clients[c].etape \in EtapesDeRequete,
         ~clients[c].dejaRevoquee, NEW e \in EtapesDeRequete, Poursuivre(c, e),
         e \in {"acceptee", "capacite"} => clients[c].role \in clients[c].tenus
  PROVE  InvComptes'
<1> DEFINE r == [clients[c] EXCEPT !.etape = e]
<1>1. clients[c] \in EtatsClient /\ Suivie(c)
  BY DEF InvComptes, TypeComptes
<1>2. r \in EtatsClient
  BY <1>1 DEF EtatsClient, EtapesDeClient
<1>3. clients' = [clients EXCEPT ![c] = r] /\ clients'[c] = r
  BY DEF Poursuivre, InvComptes, TypeComptes
<1>4. Suivie(c)'
  BY <1>1, <1>3 DEF Suivie, EtapesDeRequete, EtatsClient
<1> QED BY <1>2, <1>3, <1>4, PasDeClientSeul

(* A request past its row was not revoked when it arrived.                  *)
LEMMA PasseLaLigne ==
  ASSUME InvComptes, NEW c \in Clients, clients[c] # Neant
  PROVE  /\ clients[c].etape \in EtapesDeRequete \ {"lire"} => ~clients[c].dejaRevoquee
         /\ clients[c].etape = "lire" /\ Ouverte(clients[c].session) => ~clients[c].dejaRevoquee
BY DEF InvComptes, Suivie, Ouverte, EtapesDeRequete

(* Rows are revoked, and nothing else moves but the client c, which ends.   *)
LEMMA LignesRevoquees ==
  ASSUME InvComptes, NEW vises, RevoquerEnBase(vises)
  PROVE  /\ session_ui' \in [Sessions -> {Neant} \cup LignesSession]
         /\ RevocationsGardees
<1>1. ASSUME NEW s \in Sessions, session_ui[s] # Neant
      PROVE  /\ [session_ui[s] EXCEPT !.revoquee = TRUE] \in LignesSession
             /\ [session_ui[s] EXCEPT !.revoquee = TRUE].revoquee
  BY <1>1 DEF InvComptes, TypeComptes, LignesSession
<1>2. ASSUME NEW s \in Sessions
      PROVE  \/ session_ui'[s] = session_ui[s]
             \/ session_ui[s] # Neant /\ session_ui'[s] = [session_ui[s] EXCEPT !.revoquee = TRUE]
  <2>1. CASE s \in vises /\ Ouverte(s)
    BY <2>1 DEF RevoquerEnBase, Ouverte
  <2>2. CASE ~(s \in vises /\ Ouverte(s))
    BY <2>2 DEF RevoquerEnBase
  <2> QED BY <2>1, <2>2
<1>3. session_ui' \in [Sessions -> {Neant} \cup LignesSession]
  BY <1>1 DEF RevoquerEnBase, Ouverte, InvComptes, TypeComptes
<1>4. RevocationsGardees
  BY <1>1, <1>2, HypNeant DEF RevocationsGardees, LignesSession
<1> QED BY <1>3, <1>4

LEMMA RevocationDUneLigne ==
  ASSUME InvComptes, NEW s \in Sessions, session_ui[s] # Neant,
         session_ui' = [session_ui EXCEPT ![s].revoquee = TRUE]
  PROVE  /\ session_ui' \in [Sessions -> {Neant} \cup LignesSession]
         /\ RevocationsGardees
<1>1. /\ [session_ui[s] EXCEPT !.revoquee = TRUE] \in LignesSession
      /\ [session_ui[s] EXCEPT !.revoquee = TRUE].revoquee
  BY DEF InvComptes, TypeComptes, LignesSession
<1>2. session_ui' = [session_ui EXCEPT ![s] = [session_ui[s] EXCEPT !.revoquee = TRUE]]
  BY DEF InvComptes, TypeComptes
<1>3. session_ui' \in [Sessions -> {Neant} \cup LignesSession]
  BY <1>1, <1>2 DEF InvComptes, TypeComptes
<1>4. RevocationsGardees
  BY <1>1, <1>2, HypNeant DEF RevocationsGardees, LignesSession, InvComptes, TypeComptes
<1> QED BY <1>3, <1>4

LEMMA SortieAvecLigne ==
  ASSUME InvComptes, NEW c \in Clients, UNCHANGED compte, Quitter(c),
         rendues' \subseteq rendues \cup {s \in Sessions : session_ui[s] # Neant},
         session_ui' \in [Sessions -> {Neant} \cup LignesSession], RevocationsGardees
  PROVE  InvComptes'
<1>1. clients'[c] = Neant /\ \A x \in Clients \ {c} : clients'[x] = clients[x]
  BY DEF Quitter, InvComptes, TypeComptes
<1>2. TypeComptes'
  BY DEF Quitter, InvComptes, TypeComptes, RevocationsGardees
<1> QED BY <1>1, <1>2, PasDUnClient

EtatNeuf(e, j, a, s, d, t) ==
  [etape |-> e, juste |-> j, role |-> a, session |-> s, dejaRevoquee |-> d, tenus |-> t]

LEMMA OuvrirOuPresenter ==
  ASSUME InvComptes, NEW c \in Clients,
         \/ \E b \in BOOLEAN : verrou_actif(c, b) \/ verifier_identifiants(c, b)
         \/ \E s \in Sessions : ouvrir_session(c, s) \/ presenter_jeton(c, s)
         \/ sans_session(c) \/ enregistrer(c)
  PROVE  InvComptes'
<1>1. ASSUME NEW b \in BOOLEAN, verrou_actif(c, b) PROVE InvComptes'
  <2> DEFINE r == EtatNeuf("verifier", b, Neant, Neant, FALSE, {})
  <2>1. r \in EtatsClient
    BY DEF EtatsClient, EtapesDeClient, EtatNeuf
  <2>2. clients' = [clients EXCEPT ![c] = r] /\ clients'[c] = r
    BY <1>1 DEF verrou_actif, EtatNeuf, InvComptes, TypeComptes
  <2>3. Suivie(c)'
    BY <2>2 DEF Suivie, EtapesDeRequete, EtatNeuf
  <2> QED BY <1>1, <2>1, <2>2, <2>3, PasDeClientSeul DEF verrou_actif
<1>2. ASSUME NEW b \in BOOLEAN, verifier_identifiants(c, b) PROVE InvComptes'
  <2>1. CASE Juste(c)
    <3> DEFINE r == [clients[c] EXCEPT !.etape = "inserer", !.role = compte.role, !.juste = FALSE]
    <3>1. clients[c] \in EtatsClient /\ Suivie(c) /\ clients[c].etape = "verifier"
      BY <1>2 DEF InvComptes, TypeComptes, verifier_identifiants, EnEtape
    <3>2. compte.role \in Roles \cup {Neant}
      BY DEF InvComptes, TypeComptes
    <3>3. r \in EtatsClient
      BY <3>1, <3>2, Zenon DEF EtatsClient, EtapesDeClient
    <3>4. clients' = [clients EXCEPT ![c] = r] /\ clients'[c] = r
      BY <1>2, <2>1 DEF verifier_identifiants, InvComptes, TypeComptes
    <3>5. r.etape = "inserer"
      BY <3>1 DEF EtatsClient
    <3>6. Suivie(c)'
      BY <3>4, <3>5 DEF Suivie, EtapesDeRequete
    <3> QED BY <1>2, <3>3, <3>4, <3>6, PasDeClientSeul DEF verifier_identifiants
  <2>2. CASE ~Juste(c)
    BY <1>2, <2>2, Sortie DEF verifier_identifiants
  <2> QED BY <2>1, <2>2
<1>3. ASSUME NEW s \in Sessions, ouvrir_session(c, s) PROVE InvComptes'
  <2> DEFINE r == [clients[c] EXCEPT !.etape = "publier", !.session = s]
             l == [revoquee |-> FALSE, role |-> clients[c].role]
  <2>1. clients[c] \in EtatsClient /\ clients[c].role \in Roles \cup {Neant}
    BY <1>3 DEF InvComptes, TypeComptes, ouvrir_session, EnEtape, EtatsClient
  <2>2. r \in EtatsClient /\ r.etape = "publier" /\ r.session = s
    BY <2>1 DEF EtatsClient, EtapesDeClient
  <2>3. l \in LignesSession
    BY <2>1 DEF LignesSession
  <2>4. clients' = [clients EXCEPT ![c] = r] /\ session_ui' = [session_ui EXCEPT ![s] = l]
    BY <1>3 DEF ouvrir_session, InvComptes, TypeComptes
  <2> HIDE DEF r, l
  <2>5. clients'[c] = r /\ \A x \in Clients \ {c} : clients'[x] = clients[x]
    BY <2>4 DEF InvComptes, TypeComptes
  <2>6. session_ui[s] = Neant /\ UNCHANGED <<compte, rendues>>
    BY <1>3 DEF ouvrir_session
  <2>7. RevocationsGardees
    BY <2>4, <2>6 DEF RevocationsGardees, InvComptes, TypeComptes
  <2>8. TypeComptes'
    BY <2>2, <2>3, <2>4, <2>6, <2>7 DEF InvComptes, TypeComptes, RevocationsGardees
  <2>9. Suivie(c)'
    BY <2>2, <2>3, <2>4, <2>5, HypNeant DEF Suivie, EtapesDeRequete, LignesSession, InvComptes, TypeComptes
  <2> QED BY <2>5, <2>6, <2>7, <2>8, <2>9, PasDUnClient
<1>4. ASSUME NEW s \in Sessions, presenter_jeton(c, s) PROVE InvComptes'
  <2> DEFINE r == EtatNeuf("lire", FALSE, session_ui[s].role, s, ~Ouverte(s), {compte.role})
  <2>1. session_ui[s] # Neant /\ session_ui[s] \in LignesSession /\ compte.role \in Roles
    BY <1>4 DEF presenter_jeton, InvComptes, TypeComptes
  <2>2. session_ui[s].role \in Roles \cup {Neant} /\ (~Ouverte(s)) \in BOOLEAN
    BY <2>1 DEF LignesSession
  <2>3. r \in EtatsClient
    BY <2>1, <2>2 DEF EtatsClient, EtapesDeClient, EtapesDeRequete, EtatNeuf
  <2>4. clients' = [clients EXCEPT ![c] = r] /\ clients'[c] = r
    BY <1>4 DEF presenter_jeton, EtatNeuf, InvComptes, TypeComptes
  <2>5. Suivie(c)'
    <3>1. UNCHANGED <<compte, session_ui>>
      BY <1>4 DEF presenter_jeton
    <3>2. /\ r.etape = "lire" /\ r.session = s /\ r.tenus = {compte.role}
          /\ r.dejaRevoquee <=> ~Ouverte(s)
      BY DEF EtatNeuf
    <3>3. r.dejaRevoquee => session_ui[s].revoquee
      BY <2>1, <3>2 DEF Ouverte
    <3> HIDE DEF r
    <3> QED BY <2>1, <2>4, <3>1, <3>2, <3>3 DEF Suivie, EtapesDeRequete
  <2> QED BY <1>4, <2>3, <2>4, <2>5, PasDeClientSeul DEF presenter_jeton
<1>5. CASE sans_session(c)
  <2> DEFINE r == EtatNeuf("service", FALSE, Neant, Neant, FALSE, {})
  <2>1. r \in EtatsClient
    BY DEF EtatsClient, EtapesDeClient, EtatNeuf
  <2>2. clients' = [clients EXCEPT ![c] = r] /\ clients'[c] = r
    BY <1>5 DEF sans_session, EtatNeuf, InvComptes, TypeComptes
  <2>3. Suivie(c)'
    BY <2>2 DEF Suivie, EtapesDeRequete, EtatNeuf
  <2> QED BY <1>5, <2>1, <2>2, <2>3, PasDeClientSeul DEF sans_session
<1>6. CASE enregistrer(c)
  <2> DEFINE s == clients[c].session
  <2>1. s \in Sessions /\ session_ui[s] # Neant
    BY <1>6 DEF enregistrer, EnEtape, InvComptes, Suivie
  <2>2. CASE redisJoint
    <3>1. UNCHANGED <<compte, session_ui>> /\ rendues' = rendues \cup {s} /\ Quitter(c)
      BY <1>6, <2>2 DEF enregistrer
    <3>2. session_ui' \in [Sessions -> {Neant} \cup LignesSession] /\ RevocationsGardees
      BY <3>1 DEF RevocationsGardees, InvComptes, TypeComptes
    <3> QED BY <2>1, <3>1, <3>2, SortieAvecLigne
  <2>3. CASE ~redisJoint
    <3>1. /\ UNCHANGED <<compte, rendues>> /\ Quitter(c)
          /\ session_ui' = [session_ui EXCEPT ![s].revoquee = TRUE]
      BY <1>6, <2>3 DEF enregistrer
    <3> HIDE DEF s
    <3>2. session_ui' \in [Sessions -> {Neant} \cup LignesSession] /\ RevocationsGardees
      BY <2>1, <3>1, RevocationDUneLigne
    <3> QED BY <2>1, <3>1, <3>2, SortieAvecLigne
  <2> QED BY <2>2, <2>3
<1> QED BY <1>1, <1>2, <1>3, <1>4, <1>5, <1>6

LEMMA Servir ==
  ASSUME InvComptes, NEW c \in Clients,
         \/ \E b \in BOOLEAN : session_valide(c, b) \/ etat_redis(c, b)
         \/ toucher(c) \/ resoudre_acteur_requete(c) \/ exiger_roles_requete(c)
         \/ terminer_requete(c) \/ mort_client(c)
  PROVE  InvComptes'
<1> USE DEF EnEtape, EtapesDeRequete
<1>1. ASSUME NEW s \in Sessions, session_ui[s] # Neant, Quitter(c), RevoquerInactive(s),
             UNCHANGED <<compte, rendues>>
      PROVE  InvComptes'
  <2>1. session_ui' \in [Sessions -> {Neant} \cup LignesSession] /\ RevocationsGardees
    BY <1>1, RevocationDUneLigne DEF RevoquerInactive
  <2> QED BY <1>1, <2>1, SortieAvecLigne
<1>2. ASSUME NEW b \in BOOLEAN, session_valide(c, b) PROVE InvComptes'
  <2> DEFINE s == clients[c].session
  <2>1. /\ clients[c] # Neant /\ clients[c].etape = "lire" /\ UNCHANGED <<compte, rendues>>
        /\ s \in Sessions /\ session_ui[s] # Neant
    BY <1>2 DEF session_valide, InvComptes, Suivie
  <2>2. \/ Quitter(c) /\ UNCHANGED session_ui
        \/ Quitter(c) /\ RevoquerInactive(s)
        \/ Ouverte(s) /\ Poursuivre(c, "registre") /\ UNCHANGED session_ui
    BY <1>2 DEF session_valide
  <2>3. CASE Quitter(c) /\ UNCHANGED session_ui
    BY <2>1, <2>3, Sortie
  <2>4. CASE Quitter(c) /\ RevoquerInactive(s)
    BY <1>1, <2>1, <2>4
  <2>5. CASE Ouverte(s) /\ Poursuivre(c, "registre") /\ UNCHANGED session_ui
    BY <2>1, <2>5, Poursuite, PasseLaLigne
  <2> QED BY <2>2, <2>3, <2>4, <2>5
<1>3. ASSUME NEW b \in BOOLEAN, etat_redis(c, b) PROVE InvComptes'
  <2> DEFINE s == clients[c].session
  <2>1. /\ clients[c] # Neant /\ clients[c].etape = "registre" /\ UNCHANGED <<compte, rendues>>
        /\ s \in Sessions /\ session_ui[s] # Neant
    BY <1>3 DEF etat_redis, InvComptes, Suivie
  <2>2. \/ Quitter(c) /\ UNCHANGED session_ui
        \/ Quitter(c) /\ RevoquerInactive(s)
        \/ Poursuivre(c, "toucher") /\ UNCHANGED session_ui
    BY <1>3 DEF etat_redis
  <2>3. CASE Quitter(c) /\ UNCHANGED session_ui
    BY <2>1, <2>3, Sortie
  <2>4. CASE Quitter(c) /\ RevoquerInactive(s)
    BY <1>1, <2>1, <2>4
  <2>5. CASE Poursuivre(c, "toucher") /\ UNCHANGED session_ui
    BY <2>1, <2>5, Poursuite, PasseLaLigne
  <2> QED BY <2>2, <2>3, <2>4, <2>5
<1>4. CASE toucher(c)
  <2>1. clients[c] # Neant /\ clients[c].etape = "toucher" /\ UNCHANGED <<compte, session_ui, rendues>>
    BY <1>4 DEF toucher
  <2>2. Quitter(c) \/ Poursuivre(c, "compte")
    BY <1>4 DEF toucher
  <2> QED BY <2>1, <2>2, Sortie, Poursuite, PasseLaLigne
<1>5. CASE resoudre_acteur_requete(c)
  <2>1. clients[c] # Neant /\ clients[c].etape = "compte" /\ UNCHANGED <<compte, session_ui, rendues>>
    BY <1>5 DEF resoudre_acteur_requete
  <2>2. Quitter(c) \/ (clients[c].role = compte.role /\ Poursuivre(c, "acceptee"))
    <3>1. CASE compte.actif /\ clients[c].role = compte.role
      BY <1>5, <3>1 DEF resoudre_acteur_requete, Acteur
    <3>2. CASE ~(compte.actif /\ clients[c].role = compte.role)
      BY <1>5, <3>2 DEF resoudre_acteur_requete, Acteur
    <3> QED BY <3>1, <3>2
  <2>3. compte.role \in clients[c].tenus
    BY <2>1 DEF InvComptes, Suivie
  <2> QED BY <2>1, <2>2, <2>3, Sortie, Poursuite, PasseLaLigne
<1>6. CASE exiger_roles_requete(c)
  <2>1. clients[c] # Neant /\ UNCHANGED <<compte, session_ui, rendues>>
    BY <1>6 DEF exiger_roles_requete
  <2>2. Quitter(c) \/ (clients[c].etape = "acceptee" /\ Poursuivre(c, "capacite"))
    <3> DEFINE approuve == clients[c].etape = "acceptee" /\ clients[c].role = "approbateur"
    <3>1. CASE approuve
      BY <1>6, <3>1 DEF exiger_roles_requete
    <3>2. CASE ~approuve
      BY <1>6, <3>2 DEF exiger_roles_requete
    <3> QED BY <3>1, <3>2
  <2>3. clients[c].etape = "acceptee" => clients[c].role \in clients[c].tenus
    BY <2>1 DEF InvComptes, Suivie
  <2> QED BY <2>1, <2>2, <2>3, Sortie, Poursuite, PasseLaLigne
<1>7. CASE terminer_requete(c)
  BY <1>7, Sortie DEF terminer_requete
<1>8. CASE mort_client(c)
  BY <1>8, Sortie DEF mort_client
<1> QED BY <1>2, <1>3, <1>4, <1>5, <1>6, <1>7, <1>8

(* The account and its sessions change; each client ends, or keeps its      *)
(* state but a password and one more role that it knows of.                 *)
LEMMA ToutRevoquer ==
  ASSUME InvComptes, NEW suite \in [actif : BOOLEAN, role : Roles], NEW noms,
         RevoquerToutes(suite, noms),
         clients' \in [Clients -> {Neant} \cup EtatsClient],
         \A x \in Clients : clients'[x] # Neant =>
           /\ clients[x] # Neant
           /\ \A a \in {"etape", "role", "session", "dejaRevoquee"} : clients'[x][a] = clients[x][a]
           /\ clients[x].tenus \subseteq clients'[x].tenus
           /\ clients[x].etape \in EtapesDeRequete => suite.role \in clients'[x].tenus
  PROVE  InvComptes'
<1>1. session_ui' \in [Sessions -> {Neant} \cup LignesSession] /\ RevocationsGardees
  BY LignesRevoquees DEF RevoquerToutes
<1>2. TypeComptes'
  BY <1>1 DEF RevoquerToutes, InvComptes, TypeComptes, RevocationsGardees
<1>3. ASSUME NEW x \in Clients, clients'[x] # Neant PROVE Suivie(x)'
  <2>1. /\ Suivie(x) /\ compte'.role = suite.role
        /\ clients'[x].etape = clients[x].etape /\ clients'[x].role = clients[x].role
        /\ clients'[x].session = clients[x].session /\ clients'[x].dejaRevoquee = clients[x].dejaRevoquee
    BY <1>3 DEF InvComptes, RevoquerToutes
  <2> QED BY <1>1, <1>3, <2>1 DEF Suivie, RevocationsGardees, EtapesDeRequete
<1> QED BY <1>2, <1>3 DEF InvComptes

LEMMA Revoquer ==
  ASSUME InvComptes,
         \/ \E s \in Sessions, noms \in BOOLEAN : revoquer_session(s, noms)
         \/ \E noms \in BOOLEAN : Administrer(noms)
         \/ \E c \in Clients : revoquer_sessions_utilisateur(c) \/ changer_mot_de_passe(c)
  PROVE  InvComptes'
<1>0. /\ compte \in [actif : BOOLEAN, role : Roles] /\ clients \in [Clients -> {Neant} \cup EtatsClient]
      /\ \A x \in Clients : clients[x] # Neant => clients[x] \in EtatsClient
      /\ \A x \in Clients : clients[x] # Neant /\ clients[x].etape \in EtapesDeRequete =>
           compte.role \in clients[x].tenus
  BY DEF InvComptes, TypeComptes, Suivie
<1>1. ASSUME NEW s \in Sessions, NEW noms \in BOOLEAN, revoquer_session(s, noms) PROVE InvComptes'
  <2>1. /\ UNCHANGED <<compte, rendues, clients>>
        /\ session_ui' \in [Sessions -> {Neant} \cup LignesSession] /\ RevocationsGardees
    BY <1>1, LignesRevoquees DEF revoquer_session
  <2>2. TypeComptes'
    BY <2>1 DEF InvComptes, TypeComptes, RevocationsGardees
  <2>3. ASSUME NEW x \in Clients, clients'[x] # Neant PROVE Suivie(x)'
    BY <2>1, <2>3 DEF InvComptes, Suivie, RevocationsGardees, EtapesDeRequete
  <2> QED BY <2>2, <2>3 DEF InvComptes
<1>2. ASSUME NEW c \in Clients, revoquer_sessions_utilisateur(c) PROVE InvComptes'
  <2>1. RevoquerToutes(compte, TRUE) /\ clients' = [clients EXCEPT ![c] = Neant]
    BY <1>2 DEF revoquer_sessions_utilisateur, Quitter
  <2>2. \A x \in Clients : clients'[x] # Neant => clients'[x] = clients[x]
    BY <1>0, <2>1
  <2> QED BY <1>0, <2>1, <2>2, ToutRevoquer
(* A password typed before it changed is not right any more.                *)
<1>3. /\ PerimerMotsDePasse \in [Clients -> {Neant} \cup EtatsClient]
      /\ \A x \in Clients : PerimerMotsDePasse[x] # Neant =>
           /\ clients[x] # Neant
           /\ \A a \in {"etape", "role", "session", "dejaRevoquee", "tenus"} :
                PerimerMotsDePasse[x][a] = clients[x][a]
  <2>1. ASSUME NEW x \in Clients, clients[x] # Neant
        PROVE  /\ [clients[x] EXCEPT !.juste = FALSE] \in EtatsClient
               /\ \A a \in {"etape", "role", "session", "dejaRevoquee", "tenus"} :
                    [clients[x] EXCEPT !.juste = FALSE][a] = clients[x][a]
    BY <1>0, <2>1 DEF EtatsClient
  <2> QED BY <2>1 DEF PerimerMotsDePasse
<1>4. ASSUME NEW c \in Clients, changer_mot_de_passe(c) PROVE InvComptes'
  <2>1. RevoquerToutes(compte, TRUE) /\ clients' = [PerimerMotsDePasse EXCEPT ![c] = Neant]
    BY <1>4 DEF changer_mot_de_passe
  <2>2. clients' \in [Clients -> {Neant} \cup EtatsClient]
    BY <1>3, <2>1
  <2>3. \A x \in Clients : clients'[x] # Neant =>
          clients'[x] = PerimerMotsDePasse[x] /\ PerimerMotsDePasse[x] # Neant
    BY <1>3, <2>1
  <2>4. ASSUME NEW x \in Clients, clients'[x] # Neant
        PROVE  /\ clients[x] # Neant
               /\ \A a \in {"etape", "role", "session", "dejaRevoquee"} : clients'[x][a] = clients[x][a]
               /\ clients[x].tenus \subseteq clients'[x].tenus
               /\ clients[x].etape \in EtapesDeRequete => compte.role \in clients'[x].tenus
    BY <1>0, <1>3, <2>3, <2>4
  <2> QED BY <1>0, <2>1, <2>2, <2>4, ToutRevoquer
<1>5. ASSUME NEW noms, reinitialiser_mot_de_passe(noms) PROVE InvComptes'
  <2>1. RevoquerToutes(compte, noms) /\ clients' = PerimerMotsDePasse
    BY <1>5 DEF reinitialiser_mot_de_passe
  <2> QED BY <1>0, <1>3, <2>1, ToutRevoquer
<1>6. ASSUME NEW noms, desactiver_utilisateur(noms) PROVE InvComptes'
  <2>1. RevoquerToutes([compte EXCEPT !.actif = FALSE], noms) /\ clients' = clients
    BY <1>6 DEF desactiver_utilisateur
  <2>2. [compte EXCEPT !.actif = FALSE] \in [actif : BOOLEAN, role : Roles]
        /\ [compte EXCEPT !.actif = FALSE].role = compte.role
    BY <1>0
  <2> QED BY <1>0, <2>1, <2>2, ToutRevoquer
<1>7. ASSUME NEW noms, NEW role \in Roles, changer_role_utilisateur(role, noms) PROVE InvComptes'
  <2> DEFINE k == [compte EXCEPT !.role = role]
  <2>1. k \in [actif : BOOLEAN, role : Roles] /\ k.role = role
    BY <1>0
  <2>2. /\ RevoquerToutes(k, noms)
        /\ clients' = [c \in Clients |->
             IF clients[c] = Neant \/ clients[c].tenus = {} THEN clients[c]
             ELSE [clients[c] EXCEPT !.tenus = @ \cup {role}]]
    BY <1>7 DEF changer_role_utilisateur
  <2>3. ASSUME NEW x \in Clients, clients[x] # Neant
        PROVE  /\ [clients[x] EXCEPT !.tenus = @ \cup {role}] \in EtatsClient
               /\ \A a \in {"etape", "role", "session", "dejaRevoquee"} :
                    [clients[x] EXCEPT !.tenus = @ \cup {role}][a] = clients[x][a]
               /\ [clients[x] EXCEPT !.tenus = @ \cup {role}].tenus = clients[x].tenus \cup {role}
    BY <1>0, <2>3 DEF EtatsClient
  <2>4. clients' \in [Clients -> {Neant} \cup EtatsClient]
    BY <1>0, <2>2, <2>3
  <2>5. ASSUME NEW x \in Clients, clients'[x] # Neant
        PROVE  /\ clients[x] # Neant
               /\ clients'[x] = IF clients[x].tenus = {} THEN clients[x]
                                ELSE [clients[x] EXCEPT !.tenus = @ \cup {role}]
    BY <2>2, <2>5
  <2>6. ASSUME NEW x \in Clients, clients'[x] # Neant
        PROVE  /\ \A a \in {"etape", "role", "session", "dejaRevoquee"} : clients'[x][a] = clients[x][a]
               /\ clients[x].tenus \subseteq clients'[x].tenus
               /\ clients[x].etape \in EtapesDeRequete => role \in clients'[x].tenus
    <3>1. CASE clients[x].tenus = {}
      BY <1>0, <2>5, <2>6, <3>1
    <3>2. CASE clients[x].tenus # {}
      BY <2>3, <2>5, <2>6, <3>2
    <3> QED BY <3>1, <3>2
  <2> HIDE DEF k
  <2> QED BY <2>1, <2>2, <2>4, <2>5, <2>6, ToutRevoquer
<1> QED BY <1>1, <1>2, <1>4, <1>5, <1>6, <1>7 DEF Administrer

LEMMA UnPasDeComptes == ASSUME InvComptes, [NextComptes]_varsComptes PROVE InvComptes'
<1>1. ASSUME UNCHANGED <<compte, session_ui, rendues, clients>> PROVE InvComptes'
  BY <1>1 DEF InvComptes, TypeComptes, Suivie
<1>2. CASE executer
  BY <1>2, Revoquer DEF executer
<1>3. CASE lister_membres \/ supprimer_cles \/ abandonner_revocation
           \/ passer_la_fenetre \/ basculer_redis \/ vider_redis
  BY <1>1, <1>3 DEF lister_membres, supprimer_cles, abandonner_revocation, passer_la_fenetre,
                    basculer_redis, vider_redis
<1>4. CASE UNCHANGED varsComptes
  BY <1>1, <1>4 DEF varsComptes
<1> QED BY <1>2, <1>3, <1>4, OuvrirOuPresenter, Servir, Revoquer DEF NextComptes

(* No request is accepted that arrived after its session was revoked, nor   *)
(* with a role its account had lost, for any clients and sessions, with     *)
(* Redis lost or emptied at any time: the rows alone are enough.            *)
THEOREM RevocationEffectiveProuve == Spec => []RevocationEffective
<1>1. Init => InvComptes
  BY DebutComptes DEF Init
<1>2. InvComptes /\ [Next]_varsTaches => InvComptes'
  <2>1. [Next]_varsTaches => [NextComptes]_varsComptes
    BY DEF Next, varsTaches
  <2> QED BY <2>1, UnPasDeComptes
<1>3. InvComptes => RevocationEffective
  BY PasseLaLigne DEF InvComptes, RevocationEffective, Suivie, EtapesDeRequete
<1> QED BY <1>1, <1>2, <1>3, PTL DEF Spec

----------------------------------------------------------------------------
(* Reading a folder.                                                        *)

Rangs == Nat \cup {Blanc}
FichesLues ==
  [titre : Rangs, code : Rangs, type : Rangs, identite : BOOLEAN, cotes : BOOLEAN,
   galons : BOOLEAN, libres : BOOLEAN, champs : SUBSET (Tetes \X Rangs)]

(* A record whose head says nothing without a trace of it.                  *)
FichesTracees ==
  {f \in FichesLues : \A a \in Tetes : f[a] # Blanc => <<a, f[a]>> \in f.champs}

LEMMA TracerUn ==
  ASSUME NEW f \in FichesLues, NEW a \in Tetes, NEW v \in Rangs
  PROVE  /\ Tracer(f, a, v) \in FichesLues
         /\ Tracer(f, a, v).champs = f.champs \cup {<<a, v>>}
         /\ \A b \in Tetes : Tracer(f, a, v)[b] = f[b]
<1>1. f.champs \cup {<<a, v>>} \in SUBSET (Tetes \X Rangs)
  BY DEF FichesLues
<1> QED BY <1>1 DEF Tracer, FichesLues, Tetes

LEMMA EcrireTete ==
  ASSUME NEW f \in FichesLues, NEW a \in Tetes, NEW v \in Rangs
  PROVE  /\ [f EXCEPT ![a] = v] \in FichesLues
         /\ [f EXCEPT ![a] = v].champs = f.champs
         /\ [f EXCEPT ![a] = v][a] = v
         /\ \A b \in Tetes \ {a} : [f EXCEPT ![a] = v][b] = f[b]
<1>1. CASE a = "titre"
  BY <1>1 DEF FichesLues, Tetes
<1>2. CASE a = "code"
  BY <1>2 DEF FichesLues, Tetes
<1>3. CASE a = "type"
  BY <1>3 DEF FichesLues, Tetes
<1> QED BY <1>1, <1>2, <1>3 DEF Tetes

LEMMA PremierDes ==
  ASSUME NEW f \in FichesLues, NEW a \in Tetes, NEW i \in Nat
  PROVE  /\ Premier(f, a, i) \in FichesLues
         /\ Premier(f, a, i).champs = f.champs
         /\ Premier(f, a, i)[a] = IF f[a] = Blanc THEN i ELSE f[a]
         /\ \A b \in Tetes \ {a} : Premier(f, a, i)[b] = f[b]
BY EcrireTete DEF Premier, Rangs

(* What a rule wrote and did not trace, it traces again before it leaves.   *)
LEMMA Retracer ==
  ASSUME NEW f \in FichesTracees, NEW g \in FichesLues, NEW S \in SUBSET Tetes,
         f.champs \subseteq g.champs, \A a \in Tetes \ S : g[a] = f[a]
  PROVE  TracerLes(g, S) \in FichesTracees
<1> DEFINE champs == g.champs \cup {<<a, g[a]>> : a \in {b \in S : g[b] # Blanc}}
           h == [g EXCEPT !.champs = champs]
<1>1. \A a \in Tetes : g[a] \in Rangs
  BY DEF FichesLues, Tetes
<1>2. champs \in SUBSET (Tetes \X Rangs)
  BY <1>1 DEF FichesLues
<1>3. \A a \in Tetes : g[a] # Blanc => <<a, g[a]>> \in champs
  BY DEF FichesTracees
<1> HIDE DEF champs
<1>4. h \in FichesLues /\ h.champs = champs /\ \A a \in Tetes : h[a] = g[a]
  BY <1>2 DEF FichesLues, Tetes
<1>5. h \in FichesTracees
  BY <1>3, <1>4 DEF FichesTracees
<1> QED BY <1>5 DEF TracerLes, champs

LEMMA TracerUneTete ==
  ASSUME NEW f \in FichesTracees, NEW g \in FichesLues, NEW a \in Tetes, NEW v \in Rangs,
         f.champs \subseteq g.champs, \A b \in Tetes \ {a} : g[b] = f[b],
         g[a] \in {f[a], v, Blanc}
  PROVE  Tracer(g, a, v) \in FichesTracees
BY TracerUn DEF FichesTracees

LEMMA LesDrapeaux ==
  ASSUME NEW f \in FichesTracees
  PROVE  /\ [f EXCEPT !.identite = TRUE] \in FichesTracees
         /\ [f EXCEPT !.cotes = TRUE] \in FichesTracees
         /\ [f EXCEPT !.libres = TRUE] \in FichesTracees
         /\ [f EXCEPT !.galons = TRUE] \in FichesTracees
BY DEF FichesTracees, FichesLues, Tetes

(* Each rule, whatever it reads, leaves a record whose head is traced.      *)
LEMMA RegleTracee ==
  ASSUME NEW f \in FichesTracees, NEW i \in Nat, NEW r \in Regles, NEW g \in Traiter(r, f, i)
  PROVE  g \in FichesTracees
<1>0. f \in FichesLues /\ i \in Rangs /\ {"titre", "code", "type"} = Tetes
  BY DEF FichesTracees, Rangs, Tetes
<1>1. CASE r = "code"
  <2>1. g = Tracer(Premier(f, "code", i), "code", i)
    BY <1>1 DEF Traiter, ChampDeTete
  <2> QED BY <1>0, <2>1, PremierDes, TracerUneTete
<1>2. CASE r = "titre"
  <2>1. g = Tracer([f EXCEPT !.titre = i], "titre", i)
    BY <1>2 DEF Traiter, TraiterTitre
  <2>2. /\ [f EXCEPT !.titre = i] \in FichesLues /\ [f EXCEPT !.titre = i].champs = f.champs
        /\ [f EXCEPT !.titre = i].titre = i /\ \A b \in Tetes \ {"titre"} : [f EXCEPT !.titre = i][b] = f[b]
    BY <1>0 DEF FichesLues, Tetes
  <2> QED BY <1>0, <2>1, <2>2, TracerUneTete
<1>3. CASE r = "designation"
  <2>1. g = Tracer([f EXCEPT !.type = i], "type", i) \/ g = Tracer(f, "type", i)
    BY <1>3 DEF Traiter, TraiterDesignation
  <2>2. /\ [f EXCEPT !.type = i] \in FichesLues /\ [f EXCEPT !.type = i].champs = f.champs
        /\ [f EXCEPT !.type = i].type = i /\ \A b \in Tetes \ {"type"} : [f EXCEPT !.type = i][b] = f[b]
    BY <1>0 DEF FichesLues, Tetes
  <2> QED BY <1>0, <2>1, <2>2, TracerUneTete
<1>4. CASE r \in {"titre_accessoire", "code_accessoire"}
  <2>1. Champ(r) \in Tetes
    BY <1>4 DEF Champ, Tetes
  <2>2. g \in TraiterAccessoire(f, i, Champ(r))
    BY <1>4 DEF Traiter
  <2>3. \/ g = Tracer(Premier(f, Champ(r), i), Champ(r), i)
        \/ g = Tracer(f, Champ(r), i) \/ g = f
    BY <2>2 DEF TraiterAccessoire
  <2>4. /\ Premier(f, Champ(r), i) \in FichesLues
        /\ Premier(f, Champ(r), i).champs = f.champs
        /\ Premier(f, Champ(r), i)[Champ(r)] \in {f[Champ(r)], i, Blanc}
        /\ \A b \in Tetes \ {Champ(r)} : Premier(f, Champ(r), i)[b] = f[b]
    BY <1>0, <2>1, PremierDes
  <2> QED BY <1>0, <2>1, <2>3, <2>4, TracerUneTete
<1>5. CASE r \in {"client", "cote", "grille_cotes", "bords_atelier", "libres", "galons",
                  "galons_grille", "galons_atelier"}
  <2>1. g \in {f, [f EXCEPT !.identite = TRUE], [f EXCEPT !.cotes = TRUE],
               [f EXCEPT !.libres = TRUE], [f EXCEPT !.galons = TRUE]}
    BY <1>5 DEF Traiter, TraiterIdentite, LireCote, TraiterGrilleCotes, TraiterBordsAtelier,
                TraiterLibres, TraiterGroupe, TraiterGroupeDeGrille, TraiterGroupeAtelier
  <2> QED BY <2>1, LesDrapeaux
<1>6. CASE r = "cotes_ffab"
  <2>1. g \in LireCote(f) \/ \E h \in LireCote(f) : g = [h EXCEPT !.libres = TRUE]
    BY <1>6 DEF Traiter, TraiterCotesFfab
  <2>2. LireCote(f) \subseteq FichesTracees
    BY LesDrapeaux DEF LireCote
  <2> QED BY <2>1, <2>2, LesDrapeaux
<1>7. CASE r = "ligne_portant"
  <2>1. CASE g = f
    BY <2>1
  <2>2. ASSUME NEW vus \in SUBSET {"code", "type", "identite"},
               NEW g1, g1 = IF "code" \in vus THEN Premier(f, "code", i) ELSE f,
               NEW g2, g2 = IF "type" \in vus THEN Premier(g1, "type", i) ELSE g1,
               NEW g3, g3 = [Tracer(g2, "type", i) EXCEPT !.identite = @ \/ "identite" \in vus],
               g = TracerLes(g3, {"code", "type"})
        PROVE  g \in FichesTracees
    <3>1. g1 \in FichesLues /\ g1.champs = f.champs /\ \A b \in Tetes \ {"code"} : g1[b] = f[b]
      BY <1>0, <2>2, PremierDes
    <3>2. g2 \in FichesLues /\ g2.champs = f.champs /\ \A b \in Tetes \ {"code", "type"} : g2[b] = f[b]
      <4>1. /\ Premier(g1, "type", i) \in FichesLues /\ Premier(g1, "type", i).champs = g1.champs
            /\ \A b \in Tetes \ {"type"} : Premier(g1, "type", i)[b] = g1[b]
        BY <1>0, <3>1, PremierDes
      <4> QED BY <2>2, <3>1, <4>1
    <3>3. /\ Tracer(g2, "type", i) \in FichesLues /\ f.champs \subseteq Tracer(g2, "type", i).champs
          /\ \A b \in Tetes \ {"code", "type"} : Tracer(g2, "type", i)[b] = f[b]
      BY <1>0, <3>2, TracerUn
    <3>4. /\ g3 \in FichesLues /\ f.champs \subseteq g3.champs
          /\ \A b \in Tetes \ {"code", "type"} : g3[b] = f[b]
      BY <2>2, <3>3 DEF FichesLues, Tetes
    <3>5. TracerLes(g3, {"code", "type"}) \in FichesTracees
      BY <1>0, <3>4, Retracer
    <3> QED BY <2>2, <3>5
  <2> QED BY <1>7, <2>1, <2>2 DEF Traiter, TraiterLignePortant
<1>8. CASE r = "ligne_ffab"
  <2>1. CASE g \in CodeDeLaLigneFichier(f, i)
    <3>1. g = f \/ g = Tracer([f EXCEPT !.code = i], "code", i)
      BY <2>1 DEF CodeDeLaLigneFichier
    <3>2. /\ [f EXCEPT !.code = i] \in FichesLues /\ [f EXCEPT !.code = i].champs = f.champs
          /\ [f EXCEPT !.code = i].code = i /\ \A b \in Tetes \ {"code"} : [f EXCEPT !.code = i][b] = f[b]
      BY <1>0 DEF FichesLues, Tetes
    <3> QED BY <1>0, <3>1, <3>2, TracerUneTete
  <2>2. ASSUME NEW vus \in SUBSET {"code", "type"},
               NEW g1, g1 = IF "code" \in vus THEN Premier(f, "code", i) ELSE f,
               NEW g2, g2 = IF "type" \in vus THEN Premier(g1, "type", i) ELSE g1,
               NEW g3, g3 = Premier(g2, "titre", i),
               NEW g4, g4 = [Tracer(g3, "type", i) EXCEPT !.identite = TRUE],
               g = TracerLes(g4, Tetes)
        PROVE  g \in FichesTracees
    <3>1. g1 \in FichesLues /\ g1.champs = f.champs
      BY <1>0, <2>2, PremierDes
    <3>2. g2 \in FichesLues /\ g2.champs = f.champs
      BY <1>0, <2>2, <3>1, PremierDes
    <3>3. g3 \in FichesLues /\ g3.champs = f.champs
      BY <1>0, <2>2, <3>2, PremierDes
    <3>4. Tracer(g3, "type", i) \in FichesLues /\ f.champs \subseteq Tracer(g3, "type", i).champs
      BY <1>0, <3>3, TracerUn
    <3>5. g4 \in FichesLues /\ f.champs \subseteq g4.champs
      BY <2>2, <3>4 DEF FichesLues
    <3>6. TracerLes(g4, Tetes) \in FichesTracees
      BY <3>5, Retracer
    <3> QED BY <2>2, <3>6
  <2> QED BY <1>8, <2>1, <2>2 DEF Traiter, TraiterLigneFfab
<1>9. CASE r = "entete_atelier"
  <2>1. PICK vus \in SUBSET {"titre", "code", "type", "identite", "cotes"} :
          \E h : h = [a \in Tetes |-> IF a \in vus /\ f[a] = Blanc THEN i ELSE f[a]] /\
          g = TracerLes([f EXCEPT !.titre = h.titre, !.code = h.code, !.type = h.type,
                                  !.identite = @ \/ "identite" \in vus,
                                  !.cotes = @ \/ "cotes" \in vus],
                        {a \in Tetes : a \in vus /\ f[a] = Blanc})
    BY <1>9 DEF Traiter, TraiterEnteteAtelier
  <2> DEFINE h == [a \in Tetes |-> IF a \in vus /\ f[a] = Blanc THEN i ELSE f[a]]
  <2> DEFINE k == [f EXCEPT !.titre = h.titre, !.code = h.code, !.type = h.type,
                            !.identite = @ \/ "identite" \in vus, !.cotes = @ \/ "cotes" \in vus]
             S == {a \in Tetes : a \in vus /\ f[a] = Blanc}
  <2>2. \A a \in Tetes : h[a] \in Rangs /\ (a \notin S => h[a] = f[a])
    BY <1>0 DEF FichesLues, Tetes
  <2>3. k \in FichesLues /\ k.champs = f.champs /\ \A a \in Tetes : k[a] = h[a]
    <3>1. h.titre \in Rangs /\ h.code \in Rangs /\ h.type \in Rangs
      BY <1>0, <2>2
    <3> HIDE DEF h
    <3>2. k \in FichesLues /\ k.champs = f.champs
      BY <1>0, <3>1 DEF FichesLues
    <3>3. k.titre = h.titre /\ k.code = h.code /\ k.type = h.type
      BY <1>0 DEF FichesLues
    <3> QED BY <3>2, <3>3 DEF Tetes
  <2> HIDE DEF k
  <2>4. TracerLes(k, S) \in FichesTracees
    BY <2>2, <2>3, Retracer
  <2> QED BY <2>1, <2>4 DEF k
<1> QED BY <1>1, <1>2, <1>3, <1>4, <1>5, <1>6, <1>7, <1>8, <1>9 DEF Regles

(* After the rules: the title of the head, then the one of the type.        *)
LEMMA SuiteTracee ==
  ASSUME NEW f \in FichesTracees, NEW f1 \in CollecterLibres(f), NEW f2 \in TitreDeLEntete(f1),
         NEW f3 \in LireGrilleSansGabarit(f2), NEW f4 \in AlignerTitreSurType(f3)
  PROVE  f4 \in FichesTracees
<1>1. f1 \in FichesTracees
  BY LesDrapeaux DEF CollecterLibres
<1>2. f2 \in FichesTracees
  <2>1. CASE f2 = f1
    BY <1>1, <2>1
  <2>2. CASE f2 = Tracer([f1 EXCEPT !.titre = 0], "titre", 0)
    <3>1. /\ [f1 EXCEPT !.titre = 0] \in FichesLues /\ [f1 EXCEPT !.titre = 0].champs = f1.champs
          /\ [f1 EXCEPT !.titre = 0].titre = 0
          /\ \A b \in Tetes \ {"titre"} : [f1 EXCEPT !.titre = 0][b] = f1[b]
      BY <1>1 DEF FichesTracees, FichesLues, Tetes, Rangs
    <3>2. "titre" \in Tetes /\ 0 \in Rangs
      BY DEF Tetes, Rangs
    <3> QED BY <1>1, <2>2, <3>1, <3>2, TracerUneTete
  <2> QED BY <2>1, <2>2 DEF TitreDeLEntete
<1>3. f3 \in FichesTracees
  BY <1>2, LesDrapeaux DEF LireGrilleSansGabarit, LireCote
<1>4. CASE f4 = f3
  BY <1>3, <1>4
<1>5. CASE /\ f3.titre # Blanc /\ f3.type # Blanc
           /\ f4 = [f3 EXCEPT !.titre = f3.type,
                      !.champs = {c \in @ : c[1] # "titre"} \cup {<<"titre", f3.type>>}]
  <2> DEFINE champs == {c \in f3.champs : c[1] # "titre"} \cup {<<"titre", f3.type>>}
  <2>1. f3 \in FichesLues /\ f3.type \in Rangs /\ f3.champs \in SUBSET (Tetes \X Rangs)
    BY <1>3 DEF FichesTracees, FichesLues
  <2>2. champs \in SUBSET (Tetes \X Rangs)
    BY <2>1 DEF Tetes
  <2>3. \A a \in Tetes \ {"titre"} : \A v : <<a, v>> \in f3.champs => <<a, v>> \in champs
    OBVIOUS
  <2>4. <<"titre", f3.type>> \in champs
    OBVIOUS
  <2>5. f4 = [f3 EXCEPT !.titre = f3.type, !.champs = champs]
    BY <1>5
  <2> HIDE DEF champs
  <2>6. /\ f4 \in FichesLues /\ f4.champs = champs /\ f4.titre = f3.type
        /\ \A a \in Tetes \ {"titre"} : f4[a] = f3[a]
    BY <2>1, <2>2, <2>5 DEF FichesLues, Tetes
  <2> QED BY <1>3, <2>3, <2>4, <2>6 DEF FichesTracees
<1> QED BY <1>4, <1>5 DEF AlignerTitreSurType

Candidatures == [score : {1, 2}, mixte : BOOLEAN, code : BOOLEAN, groupes : Nat]
SousRegles ==
  [etape : {"regles", "anomalies"}, gabarit : Gabarits, rang : Nat \ {0},
   fiche : FichesTracees]
AClasser == [etape : {"classer"}, candidat : {Blanc} \cup Candidatures]
PdfsLus ==
  [nature : {"illisible", "sans_texte", "mixte", "lue"},
   classe : {"sans_texte", "formulaire", "planche", Blanc}, candidat : {Blanc} \cup Candidatures]

TypeLecture ==
  /\ page \in {Blanc} \cup SousRegles \cup AClasser
  /\ lus \in Seq(PdfsLus)
  /\ \A p \in DOMAIN lus : lus[p].candidat # Blanc => lus[p].classe # "formulaire"

(* What the scan decided is founded on all the PDFs of the folder.          *)
CodeEcrit == IF plan.pdf = Blanc THEN Blanc ELSE reprendre_code_depuis_nom
MeilleureFiche ==
  plan.pdf # Blanc /\ ~plan.reprise =>
    /\ lus[plan.pdf].classe # "formulaire"
    /\ \A q \in Candidats \ {plan.pdf} : ExtractionViable(q) =>
         ExtractionViable(plan.pdf) /\ Devant(plan.pdf, q) /\ q \in plan.autres
    /\ lus[plan.pdf].candidat.code => plan.code = "document"
RefusFonde ==
  CodeEcrit = Blanc =>
    /\ \A q \in Candidats : ~ExtractionViable(q)
    /\ \/ Natures("illisible") # {} \/ OrientationsDouteuses
       \/ ~plan.dossier /\ (IF plan.pdf = Blanc THEN Pdfs ELSE {plan.pdf}) \cap plan.noms = {}
PlanFonde ==
  plan # Blanc => page = Blanc /\ Len(lus) = NbPdfs /\ MeilleureFiche /\ RefusFonde
EcritSelonLePlan ==
  ecrit # Blanc =>
    /\ plan # Blanc
    /\ ecrit = [statut |-> IF CodeEcrit = Blanc THEN "echec" ELSE "traite", code |-> CodeEcrit]

InvLecture == TypeLecture /\ PlanFonde /\ EcritSelonLePlan

LEMMA DebutLecture == InitLecture => InvLecture
BY DEF InitLecture, InvLecture, TypeLecture, PlanFonde, EcritSelonLePlan

LEMMA FicheVide == FicheExtraite \in FichesTracees
BY DEF FicheExtraite, FichesTracees, FichesLues, Rangs, Tetes

(* A page is read: the folder is not decided.                               *)
LEMMA PageEnLecture ==
  ASSUME InvLecture, page # Blanc \/ plan = Blanc, UNCHANGED <<plan, ecrit>>, TypeLecture'
  PROVE  InvLecture'
<1>1. plan = Blanc /\ ecrit = Blanc
  BY DEF InvLecture, PlanFonde, EcritSelonLePlan
<1> QED BY <1>1 DEF InvLecture, PlanFonde, EcritSelonLePlan

LEMMA PasDeLigneLue ==
  ASSUME TypeLecture, page' \in {Blanc} \cup SousRegles \cup AClasser, UNCHANGED lus
  PROVE  TypeLecture'
BY DEF TypeLecture

LEMMA UneLigneLue ==
  ASSUME TypeLecture, NEW l \in PdfsLus, l.candidat # Blanc => l.classe # "formulaire", NoterLecture(l)
  PROVE  TypeLecture'
<1>1. lus' = Append(lus, l) /\ page' = Blanc /\ lus \in Seq(PdfsLus)
  BY DEF NoterLecture, TypeLecture
<1>2. lus' \in Seq(PdfsLus) /\ \A p \in DOMAIN lus' : lus'[p] = l \/ (p \in DOMAIN lus /\ lus'[p] = lus[p])
  BY <1>1
<1> QED BY <1>1, <1>2 DEF TypeLecture

LEMMA PreuvesComptees == GroupesPreuve(page.fiche) \in Nat
<1> DEFINE S == {"identite", "type", "mesures", "fabrication"}
           T == {g \in S :
    \/ g = "identite" /\ page.fiche.identite
    \/ g = "type" /\ (page.fiche.type # Blanc \/ Trace(page.fiche, "type") \/ Trace(page.fiche, "titre"))
    \/ g = "mesures" /\ (page.fiche.cotes \/ page.fiche.libres)
    \/ g = "fabrication" /\ page.fiche.galons}
<1>1. S = {} \cup {"identite"} \cup {"type"} \cup {"mesures"} \cup {"fabrication"}
  OBVIOUS
<1>2. IsFiniteSet(S)
  <2>1. IsFiniteSet({})
    BY FS_EmptySet
  <2>2. IsFiniteSet({} \cup {"identite"})
    BY <2>1, FS_AddElement
  <2>3. IsFiniteSet(({} \cup {"identite"}) \cup {"type"})
    BY <2>2, FS_AddElement
  <2>4. IsFiniteSet((({} \cup {"identite"}) \cup {"type"}) \cup {"mesures"})
    BY <2>3, FS_AddElement
  <2>5. IsFiniteSet(((({} \cup {"identite"}) \cup {"type"}) \cup {"mesures"}) \cup {"fabrication"})
    BY <2>4, FS_AddElement
  <2> QED BY <1>1, <2>5
<1>3. T \subseteq S
  OBVIOUS
<1> HIDE DEF S
<1>4. Cardinality(T) \in Nat
  BY <1>2, <1>3, FS_Subset, FS_CardinalityType
<1> QED BY <1>4 DEF GroupesPreuve, S

(* Reading the pages: what the head of the record says stays traced.        *)
LEMMA UnPdf ==
  ASSUME InvLecture,
         \/ \E i \in {"illisible", "sans_texte", "mixte"} : analyser_pdf(i)
         \/ \E g \in Gabarits : detecter_gabarit(g)
         \/ sans_gabarit
         \/ \E t \in TrouverLigne : executer_regle(t)
         \/ extraire_pages
         \/ \E s \in {1, 2}, m \in BOOLEAN : signaler_orientations_mixtes(s, m)
         \/ \E c \in {"formulaire", "planche", Blanc} : classer(c)
  PROVE  InvLecture'
<1>0. TypeLecture
  BY DEF InvLecture
<1>1. ASSUME NEW i \in {"illisible", "sans_texte", "mixte"}, analyser_pdf(i) PROVE InvLecture'
  <2> DEFINE l == [nature |-> i, classe |-> IF i = "sans_texte" THEN i ELSE Blanc, candidat |-> Blanc]
  <2>1. l \in PdfsLus /\ l.candidat = Blanc
    BY DEF PdfsLus
  <2>2. NoterLecture(l) /\ plan = Blanc /\ UNCHANGED <<plan, ecrit>>
    BY <1>1 DEF analyser_pdf
  <2> HIDE DEF l
  <2> QED BY <1>0, <2>1, <2>2, UneLigneLue, PageEnLecture
<1>2. ASSUME NEW g \in Gabarits, detecter_gabarit(g) PROVE InvLecture'
  <2>1. page' \in SousRegles
    BY <1>2, FicheVide DEF detecter_gabarit, SousRegles
  <2> QED BY <1>0, <1>2, <2>1, PasDeLigneLue, PageEnLecture DEF detecter_gabarit
<1>3. CASE sans_gabarit
  <2>1. page' \in AClasser
    BY <1>3 DEF sans_gabarit, AClasser
  <2> QED BY <1>0, <1>3, <2>1, PasDeLigneLue, PageEnLecture DEF sans_gabarit
<1>4. ASSUME NEW t \in TrouverLigne, executer_regle(t) PROVE InvLecture'
  <2>1. page \in SousRegles /\ page # Blanc /\ page.rang <= Len(page.gabarit) /\ page.rang \in Nat \ {0}
        /\ page.fiche \in FichesTracees /\ page.gabarit \in Gabarits
    BY <1>0, <1>4 DEF executer_regle, EnLecture, TypeLecture, SousRegles, AClasser
  <2> DEFINE r == page.gabarit[page.rang]
             f == page.fiche
             i == page.rang
  <2>2. PICK g : /\ \/ g = f
                    \/ Champ(r) # "type" /\ g = Tracer(f, Champ(r), i)
                    \/ g \in Traiter(r, f, i)
                 /\ page' = [page EXCEPT !.rang = @ + 1, !.fiche = g]
    BY <1>4 DEF executer_regle
  <2>3. r \in Regles
    <3>1. page.gabarit \in Seq(Regles) /\ i \in 1..Len(page.gabarit)
      BY <2>1, HypotheseLecture
    <3> QED BY <3>1
  <2>4. g \in FichesTracees
    <3>1. f \in FichesLues /\ i \in Rangs /\ Champ(r) \in Tetes
      BY <2>1 DEF FichesTracees, Rangs, Champ, Tetes
    <3>2. Tracer(f, Champ(r), i) \in FichesTracees
      BY <2>1, <3>1, TracerUneTete
    <3>3. g \in Traiter(r, f, i) => g \in FichesTracees
      BY <2>1, <2>3, RegleTracee
    <3> QED BY <2>1, <2>2, <3>2, <3>3
  <2>5. page' \in SousRegles
    <3>1. page.rang + 1 \in Nat \ {0}
      BY <2>1
    <3> QED BY <2>1, <2>2, <2>4, <3>1, Zenon DEF SousRegles
  <2> QED BY <1>0, <1>4, <2>1, <2>5, PasDeLigneLue, PageEnLecture DEF executer_regle
<1>5. CASE extraire_pages
  <2>1. page \in SousRegles /\ page # Blanc /\ page.fiche \in FichesTracees
    BY <1>0, <1>5 DEF extraire_pages, EnLecture, TypeLecture, SousRegles, AClasser
  <2>2. PICK f1 \in CollecterLibres(page.fiche) : \E f2 \in TitreDeLEntete(f1) :
          \E f3 \in LireGrilleSansGabarit(f2) : \E f4 \in AlignerTitreSurType(f3) :
          page' = [page EXCEPT !.etape = "anomalies", !.fiche = f4]
    BY <1>5 DEF extraire_pages
  <2>3. PICK f4 \in FichesTracees : page' = [page EXCEPT !.etape = "anomalies", !.fiche = f4]
    BY <2>1, <2>2, SuiteTracee
  <2>4. page' \in SousRegles
    BY <2>1, <2>3 DEF SousRegles
  <2> QED BY <1>0, <1>5, <2>1, <2>4, PasDeLigneLue, PageEnLecture DEF extraire_pages
<1>6. ASSUME NEW s \in {1, 2}, NEW m \in BOOLEAN, signaler_orientations_mixtes(s, m) PROVE InvLecture'
  <2>1. page # Blanc
    BY <1>6 DEF signaler_orientations_mixtes, EnLecture
  <2>2. (IF GroupesPreuve(page.fiche) > 2 THEN 2 ELSE GroupesPreuve(page.fiche)) \in Nat
    BY PreuvesComptees
  <2>3. page' \in AClasser
    BY <1>6, <2>2 DEF signaler_orientations_mixtes, AClasser, Candidatures
  <2> QED BY <1>0, <1>6, <2>1, <2>3, PasDeLigneLue, PageEnLecture DEF signaler_orientations_mixtes
<1>7. ASSUME NEW c \in {"formulaire", "planche", Blanc}, classer(c) PROVE InvLecture'
  <2> DEFINE l == [nature |-> "lue", classe |-> c,
                   candidat |-> IF c = "formulaire" THEN Blanc ELSE page.candidat]
  <2>1. page # Blanc /\ page.candidat \in {Blanc} \cup Candidatures
    BY <1>0, <1>7 DEF classer, EnLecture, TypeLecture, SousRegles, AClasser
  <2>2. l \in PdfsLus /\ (l.candidat # Blanc => l.classe # "formulaire")
    BY <2>1 DEF PdfsLus
  <2>3. NoterLecture(l) /\ UNCHANGED <<plan, ecrit>>
    BY <1>7 DEF classer
  <2> HIDE DEF l
  <2> QED BY <1>0, <2>1, <2>2, <2>3, UneLigneLue, PageEnLecture
<1> QED BY <1>1, <1>2, <1>3, <1>4, <1>5, <1>6, <1>7

(* Of the records of a folder one is in front of all the others: the best   *)
(* score, then a name that speaks of a record, then the order of the names. *)
LEMMA PremierExiste ==
  ASSUME TypeLecture, NEW S \in SUBSET Candidats, S # {}
  PROVE  /\ PremierPdf(PremierDe(S)) \in S
         /\ \A q \in S \ {PremierPdf(PremierDe(S))} : Devant(PremierPdf(PremierDe(S)), q)
<1>1. S \subseteq Nat /\ \A q \in S : lus[q].candidat.score \in {1, 2}
  <2>1. lus \in Seq(PdfsLus) /\ S \subseteq DOMAIN lus /\ \A q \in S : lus[q].candidat # Blanc
    BY DEF TypeLecture, Candidats
  <2>2. S \subseteq Nat /\ \A q \in S : lus[q] \in PdfsLus
    BY <2>1
  <2> QED BY <2>1, <2>2 DEF PdfsLus, Candidatures
<1>2. PICK T \in SUBSET S : /\ T # {}
                            /\ \A p \in T, q \in T : lus[p].candidat.score = lus[q].candidat.score
                            /\ \A p \in T, q \in S \ T : lus[p].candidat.score > lus[q].candidat.score
  <2> DEFINE U == {p \in S : lus[p].candidat.score = 2}
  <2>1. CASE U # {}
    <3>1. /\ \A p \in U, q \in U : lus[p].candidat.score = lus[q].candidat.score
          /\ \A p \in U, q \in S \ U : lus[p].candidat.score > lus[q].candidat.score
      BY <1>1
    <3> QED BY <2>1, <3>1
  <2>2. CASE U = {}
    BY <1>1, <2>2
  <2> QED BY <2>1, <2>2
<1>3. PICK V \in SUBSET T : /\ V # {}
                            /\ \A p \in V, q \in V : (p \in NomsFfab) = (q \in NomsFfab)
                            /\ \A p \in V, q \in T \ V : p \in NomsFfab /\ q \notin NomsFfab
  <2> DEFINE U == T \cap NomsFfab
  <2>1. CASE U # {}
    BY <1>2, <2>1
  <2>2. CASE U = {}
    BY <1>2, <2>2
  <2> QED BY <2>1, <2>2
<1>4. PICK p \in V : \A q \in V : p <= q
  BY <1>1, <1>2, <1>3, PetitElement
<1>5. \A q \in S \ {p} : Devant(p, q)
  <2> TAKE q \in S \ {p}
  <2>1. lus[p].candidat.score \in {1, 2} /\ lus[q].candidat.score \in {1, 2} /\ p \in Nat /\ q \in Nat
    BY <1>1, <1>2, <1>3
  <2>2. CASE q \in V
    BY <1>2, <1>3, <1>4, <2>1, <2>2 DEF Devant
  <2>3. CASE q \in T \ V
    <3>1. p \in NomsFfab /\ q \notin NomsFfab /\ lus[p].candidat.score = lus[q].candidat.score
      BY <1>2, <1>3, <2>3
    <3> QED BY <3>1 DEF Devant
  <2>4. CASE q \in S \ T
    BY <1>2, <1>3, <2>1, <2>4 DEF Devant
  <2> QED BY <2>2, <2>3, <2>4
<1>6. p \in PremierDe(S)
  BY <1>2, <1>3, <1>5 DEF PremierDe
<1>7. PremierPdf(PremierDe(S)) \in PremierDe(S)
  <2>1. PremierDe(S) \subseteq Nat /\ PremierDe(S) # {}
    BY <1>1, <1>6 DEF PremierDe
  <2>2. \E x \in PremierDe(S) : \A y \in PremierDe(S) : x <= y
    BY <2>1, PetitElement
  <2> QED BY <2>2 DEF PremierPdf
<1> QED BY <1>7 DEF PremierDe

(* What the scan decides is founded on the PDFs.                            *)
LEMMA ScanFonde ==
  ASSUME InvLecture, NEW planche, NEW dehors \in BOOLEAN, NEW noms \in SUBSET NomsReference,
         scanner_dossier(planche, dehors, noms)
  PROVE  MeilleureFiche' /\ RefusFonde'
<1> DEFINE viables == {q \in Candidats : ExtractionViable(q)}
           restantes == {q \in Candidats : ExtractionSelectionnable(q)}
           choisi == Choisir
           p == PremierPdf(choisi)
<1>0. TypeLecture /\ UNCHANGED lus
  BY DEF InvLecture, scanner_dossier
<1>1. /\ Candidats' = Candidats /\ OrientationsDouteuses' = OrientationsDouteuses
      /\ Natures("illisible")' = Natures("illisible")
      /\ \A q : ExtractionViable(q)' = ExtractionViable(q)
      /\ \A q, r : Devant(q, r)' = Devant(q, r)
  BY <1>0 DEF Candidats, OrientationsDouteuses, Natures, ExtractionViable, Devant
<1>2. \A S \in SUBSET Candidats : S # {} =>
        PremierPdf(PremierDe(S)) \in S /\ \A q \in S \ {PremierPdf(PremierDe(S))} :
          Devant(PremierPdf(PremierDe(S)), q)
  BY <1>0, PremierExiste
<1>3. \A S \in SUBSET Candidats : S # {} => PremierDe(S) # {}
  <2> SUFFICES ASSUME NEW S \in SUBSET Candidats, S # {} PROVE PremierDe(S) # {}
    OBVIOUS
  <2>1. PICK m \in S : \A q \in S \ {m} : Devant(m, q)
    BY <1>2
  <2> QED BY <2>1 DEF PremierDe
<1>4. PremierDe({}) = {}
  BY DEF PremierDe
<1>5. CASE choisi # {}
  <2>1. /\ plan'.pdf = p /\ plan'.reprise = FALSE
        /\ plan'.code = IF lus[p].candidat.code THEN "document" ELSE Blanc
        /\ plan'.autres = {q \in Candidats \ {p} : ExtractionViable(q)}
        /\ plan'.dossier = dehors /\ plan'.noms = noms
    BY <1>5 DEF scanner_dossier, Plan
  <2>2. /\ p \in Candidats
        /\ viables # {} => p \in viables /\ \A q \in viables \ {p} : Devant(p, q)
    BY <1>2, <1>4, <1>5 DEF Choisir
  <2>3. MeilleureFiche'
    <3>1. lus[p].classe # "formulaire"
      BY <1>0, <2>2 DEF TypeLecture, Candidats
    <3>2. \A q \in Candidats \ {p} : ExtractionViable(q) =>
            ExtractionViable(p) /\ Devant(p, q) /\ q \in plan'.autres
      BY <2>1, <2>2
    <3> QED BY <1>0, <1>1, <2>1, <3>1, <3>2 DEF MeilleureFiche
  <2>4. ASSUME CodeEcrit' = Blanc PROVE /\ viables = {} /\ ~dehors /\ p \notin noms /\ p # Blanc
    <3>1. p # Blanc
      <4>1. p \in DOMAIN lus /\ DOMAIN lus = 1..Len(lus) /\ Len(lus) = NbPdfs
        BY <1>0, <2>2 DEF TypeLecture, Candidats, scanner_dossier
      <4> QED BY <4>1, HypotheseLecture
    <3>2. reprendre_code_depuis_nom' = Blanc
      BY <2>1, <2>4, <3>1 DEF CodeEcrit
    <3>3. plan'.code = Blanc /\ p \notin noms /\ ~dehors
      BY <2>1, <3>2, HypotheseLecture DEF reprendre_code_depuis_nom
    <3>4. ~lus[p].candidat.code
      BY <2>1, <3>3, HypotheseLecture
    <3> QED BY <2>2, <3>1, <3>3, <3>4 DEF ExtractionViable
  <2>5. RefusFonde'
    BY <1>1, <2>1, <2>4 DEF RefusFonde
  <2> QED BY <2>3, <2>5
<1>6. CASE choisi = {}
  <2>1. viables = {}
    BY <1>3, <1>6 DEF Choisir
  <2>2. CASE Candidats # {} /\ OrientationsDouteuses
    <3>1. plan'.pdf = Blanc
      BY <1>6, <2>2 DEF scanner_dossier, Plan
    <3> QED BY <1>1, <2>1, <2>2, <3>1 DEF MeilleureFiche, RefusFonde
  <2>3. CASE ~(Candidats # {} /\ OrientationsDouteuses)
    <3> DEFINE code == ConstruireReprise(planche, dehors, noms)
               plans == {q \in Classes : lus[q].classe = "planche"}
               rien == (Natures("illisible") # {} /\ Classes = {}) \/ (code = Blanc /\ ~planche.lue)
    <3>0. /\ plan'.pdf = TenterReprise(planche, dehors, noms).pdf
          /\ plan'.reprise = TenterReprise(planche, dehors, noms).reprise
          /\ plan'.code = TenterReprise(planche, dehors, noms).code
          /\ plan'.dossier = dehors /\ plan'.noms = noms
      BY <1>6, <2>3 DEF scanner_dossier
    <3>1. CASE rien
      <4>1. plan'.pdf = Blanc
        BY <3>0, <3>1 DEF TenterReprise, Plan
      <4>2. Natures("illisible") # {} \/ (~dehors /\ noms = {})
        BY <3>1, HypotheseLecture DEF ConstruireReprise
      <4> QED BY <1>1, <2>1, <3>0, <4>1, <4>2 DEF MeilleureFiche, RefusFonde
    <3>2. CASE ~rien
      <4>1. /\ plan'.pdf = PremierPdf(IF plans # {} THEN plans ELSE Pdfs) /\ plan'.reprise = TRUE
            /\ plan'.code = code
        BY <3>0, <3>2 DEF TenterReprise, Plan
      <4>2. plan'.pdf # Blanc
        <5>1. Len(lus) = NbPdfs /\ DOMAIN lus = 1..NbPdfs /\ Pdfs \subseteq Nat /\ Pdfs # {}
          BY <1>0, HypotheseLecture DEF TypeLecture, scanner_dossier, Pdfs
        <5>2. plans \subseteq Pdfs
          BY <5>1 DEF Classes, Pdfs
        <5>3. \A S \in SUBSET Pdfs : S # {} => PremierPdf(S) \in S
          <6> SUFFICES ASSUME NEW S \in SUBSET Pdfs, S # {} PROVE PremierPdf(S) \in S
            OBVIOUS
          <6>1. \E x \in S : \A y \in S : x <= y
            BY <5>1, PetitElement
          <6> QED BY <6>1 DEF PremierPdf
        <5>4. plan'.pdf \in Pdfs
          BY <4>1, <5>1, <5>2, <5>3
        <5> QED BY <5>4, HypotheseLecture DEF Pdfs
      <4>3. MeilleureFiche'
        BY <4>1 DEF MeilleureFiche
      <4>4. ASSUME CodeEcrit' = Blanc PROVE ~dehors /\ plan'.pdf \notin noms
        <5>1. reprendre_code_depuis_nom' = Blanc
          BY <4>2, <4>4 DEF CodeEcrit
        <5> QED BY <3>0, <5>1, HypotheseLecture DEF reprendre_code_depuis_nom
      <4>5. RefusFonde'
        BY <1>1, <2>1, <3>0, <4>2, <4>4 DEF RefusFonde
      <4> QED BY <4>3, <4>5
    <3> QED BY <3>1, <3>2
  <2> QED BY <2>2, <2>3
<1> QED BY <1>5, <1>6

LEMMA UnPasDeLecture == ASSUME InvLecture, [NextLecture]_varsLecture PROVE InvLecture'
<1>1. ASSUME NEW planche, NEW dehors \in BOOLEAN, NEW noms \in SUBSET NomsReference,
             scanner_dossier(planche, dehors, noms)
      PROVE  InvLecture'
  <2>1. plan = Blanc /\ page = Blanc /\ Len(lus) = NbPdfs /\ UNCHANGED <<page, lus, ecrit>>
    BY <1>1 DEF scanner_dossier
  <2>2. MeilleureFiche' /\ RefusFonde'
    BY <1>1, ScanFonde
  <2> QED BY <2>1, <2>2 DEF InvLecture, TypeLecture, PlanFonde, EcritSelonLePlan
<1>2. CASE deposer_dossier
  <2>1. /\ plan # Blanc /\ UNCHANGED <<page, lus, plan>>
        /\ ecrit' = [statut |-> IF CodeEcrit = Blanc THEN "echec" ELSE "traite", code |-> CodeEcrit]
    BY <1>2 DEF deposer_dossier, CodeEcrit
  <2>2. CodeEcrit' = CodeEcrit
    BY <2>1 DEF CodeEcrit, reprendre_code_depuis_nom
  <2>3. PlanFonde'
    BY <2>1, <2>2 DEF InvLecture, PlanFonde, MeilleureFiche, RefusFonde, Candidats, Natures,
                      OrientationsDouteuses, ExtractionViable, Devant
  <2> QED BY <2>1, <2>2, <2>3 DEF InvLecture, TypeLecture, EcritSelonLePlan
<1>3. CASE UNCHANGED varsLecture
  BY <1>3 DEF varsLecture, InvLecture, TypeLecture, PlanFonde, EcritSelonLePlan, CodeEcrit,
              reprendre_code_depuis_nom, MeilleureFiche, RefusFonde, Candidats, Natures,
              OrientationsDouteuses, ExtractionViable, Devant
<1> QED BY <1>1, <1>2, <1>3, UnPdf DEF NextLecture

(* Each attribute of the head keeps a trace of its value through any order  *)
(* of rules, and the folder gives its best record or is refused for cause,  *)
(* for any templates made of the known rules and any number of PDFs.        *)
THEOREM LectureTenueProuvee == Spec => []LectureTenue
<1>1. Init => InvLecture
  BY DebutLecture DEF Init
<1>2. InvLecture /\ [Next]_varsTaches => InvLecture'
  <2>1. [Next]_varsTaches => [NextLecture]_varsLecture
    BY DEF Next, varsTaches
  <2> QED BY <2>1, UnPasDeLecture
<1>3. InvLecture => LectureTenue
  <2> SUFFICES ASSUME InvLecture PROVE LectureTenue
    OBVIOUS
  <2>1. TraceDeLaValeur
    <3> SUFFICES ASSUME EnLecture("regles") \/ EnLecture("anomalies") PROVE page.fiche \in FichesTracees
      BY DEF TraceDeLaValeur, FichesTracees
    <3> QED BY DEF EnLecture, InvLecture, TypeLecture, SousRegles, AClasser
  <2>2. DossierEntre
    <3> SUFFICES ASSUME ecrit # Blanc PROVE DossierEntre
      BY DEF DossierEntre
    <3>1. /\ MeilleureFiche /\ RefusFonde /\ ecrit.code = CodeEcrit
          /\ ecrit.statut = "echec" => CodeEcrit = Blanc
      BY DEF InvLecture, PlanFonde, EcritSelonLePlan
    <3>2. plan.pdf # Blanc /\ plan.code = "document" => CodeEcrit = "document"
      BY HypotheseLecture DEF CodeEcrit, reprendre_code_depuis_nom
    <3> QED BY <3>1, <3>2 DEF DossierEntre, MeilleureFiche, RefusFonde
  <2> QED BY <2>1, <2>2 DEF LectureTenue
<1> QED BY <1>1, <1>2, <1>3, PTL DEF Spec

----------------------------------------------------------------------------
(* The planned backup.                                                      *)

LEMMA PlusGrand ==
  ASSUME NEW n \in Nat, NEW T \in SUBSET (1..n), T # {}
  PROVE  Max(T) \in T
<1> DEFINE U == {n - x : x \in T}
<1>1. U \subseteq Nat /\ U # {}
  <2>1. \A x \in T : n - x \in Nat
    OBVIOUS
  <2> QED BY <2>1
<1>2. PICK u \in U : \A v \in U : u <= v
  <2> HIDE DEF U
  <2> QED BY <1>1, PetitElement
<1>3. PICK x \in T : u = n - x
  BY <1>2
<1>4. ASSUME NEW y \in T PROVE x >= y
  <2>1. n - y \in U
    OBVIOUS
  <2>2. n - x <= n - y
    BY <1>2, <1>3, <2>1
  <2> QED BY <2>2
<1> QED BY <1>4 DEF Max

EtapesDeSauveur ==
  {"repos", "dump", "manifeste", "manifeste_ouvert", "envoi", "relecture", "cle", "cle_ouvert", "fin"}
Generations ==
  [dump : {"partiel", "entier"}, manifeste : {"aucun", "tronque", "ecrit"}, age : Nat,
   cle : BOOLEAN, distant : {"absent", "identique", "altere"}]

TypePlanification ==
  /\ generations \in Seq(Generations)
  /\ sauveurs \in [Sauveurs -> [etape : EtapesDeSauveur, generation : Nat]]

(* What a generation says of its dump and of its remote copy is true.       *)
Vraie(g) == (g.manifeste # "aucun" => g.dump = "entier") /\ (g.cle => g.distant = "identique")

(* What a process knows of its generation, where it stands.                 *)
AuPas(e, g) ==
  /\ e # "dump" => g.dump = "entier"
  /\ e \in {"cle", "cle_ouvert"} => g.distant = "identique"
  /\ e # "fin" => ~g.cle

InvPlanification ==
  /\ TypePlanification
  /\ \A g \in DOMAIN generations : Vraie(generations[g])
  /\ \A p \in Sauveurs : sauveurs[p].etape # "repos" =>
       /\ sauveurs[p].generation \in DOMAIN generations
       /\ AuPas(sauveurs[p].etape, generations[sauveurs[p].generation])
  /\ \A p, q \in Sauveurs :
       sauveurs[p].etape # "repos" /\ sauveurs[q].etape # "repos"
         /\ sauveurs[p].generation = sauveurs[q].generation => p = q

LEMMA DebutPlanification == InitPlanification => InvPlanification
BY DEF InitPlanification, InvPlanification, TypePlanification, Repos, EtapesDeSauveur

LEMMA ChampsEcrits ==
  ASSUME NEW r \in Generations
  PROVE  /\ \A v : LET k == [dump |-> v] IN
              [c \in DOMAIN r |-> IF c \in DOMAIN k THEN k[c] ELSE r[c]] = [r EXCEPT !.dump = v]
         /\ \A v : LET k == [manifeste |-> v] IN
              [c \in DOMAIN r |-> IF c \in DOMAIN k THEN k[c] ELSE r[c]] = [r EXCEPT !.manifeste = v]
         /\ \A v : LET k == [distant |-> v] IN
              [c \in DOMAIN r |-> IF c \in DOMAIN k THEN k[c] ELSE r[c]] = [r EXCEPT !.distant = v]
         /\ LET k == [manifeste |-> "ecrit", cle |-> TRUE] IN
              [c \in DOMAIN r |-> IF c \in DOMAIN k THEN k[c] ELSE r[c]]
                = [[r EXCEPT !.manifeste = "ecrit"] EXCEPT !.cle = TRUE]
<1> DEFINE k == [manifeste |-> "ecrit", cle |-> TRUE]
           F == [c \in DOMAIN r |-> IF c \in DOMAIN k THEN k[c] ELSE r[c]]
           G == [[r EXCEPT !.manifeste = "ecrit"] EXCEPT !.cle = TRUE]
<1>1. /\ \A v : LET l == [dump |-> v] IN
           [c \in DOMAIN r |-> IF c \in DOMAIN l THEN l[c] ELSE r[c]] = [r EXCEPT !.dump = v]
      /\ \A v : LET l == [manifeste |-> v] IN
           [c \in DOMAIN r |-> IF c \in DOMAIN l THEN l[c] ELSE r[c]] = [r EXCEPT !.manifeste = v]
      /\ \A v : LET l == [distant |-> v] IN
           [c \in DOMAIN r |-> IF c \in DOMAIN l THEN l[c] ELSE r[c]] = [r EXCEPT !.distant = v]
  BY DEF Generations
<1>2. DOMAIN r = {"dump", "manifeste", "age", "cle", "distant"}
  BY DEF Generations
<1>3. DOMAIN k = {"manifeste", "cle"} /\ k["manifeste"] = "ecrit" /\ k["cle"] = TRUE
  OBVIOUS
<1>4. /\ DOMAIN G = DOMAIN r /\ G["manifeste"] = "ecrit" /\ G["cle"] = TRUE
      /\ \A c \in DOMAIN r \ {"manifeste", "cle"} : G[c] = r[c]
  BY <1>2
<1>5. G = [c \in DOMAIN G |-> G[c]]
  OBVIOUS
<1> HIDE DEF k, G
<1>6. \A c \in DOMAIN r : G[c] = IF c \in DOMAIN k THEN k[c] ELSE r[c]
  BY <1>3, <1>4
<1>7. F = G
  BY <1>4, <1>5, <1>6
<1> QED BY <1>1, <1>7 DEF k, G

(* One process writes in its own generation and goes to its next step.      *)
LEMMA UneGeneration ==
  ASSUME InvPlanification, NEW p \in Sauveurs, sauveurs[p].etape # "repos",
         NEW g \in Generations, Vraie(g), NEW e \in EtapesDeSauveur \ {"repos"}, AuPas(e, g),
         generations' = [generations EXCEPT ![Generation(p)] = g], Suivre(p, e)
  PROVE  InvPlanification'
<1> DEFINE n == Generation(p)
<1>1. n \in DOMAIN generations /\ DOMAIN generations = 1..Len(generations)
  BY DEF InvPlanification, TypePlanification, Generation
<1>2. /\ generations' \in Seq(Generations) /\ DOMAIN generations' = DOMAIN generations
      /\ \A m \in DOMAIN generations : generations'[m] = IF m = n THEN g ELSE generations[m]
  BY <1>1 DEF InvPlanification, TypePlanification
<1>3. /\ sauveurs' \in [Sauveurs -> [etape : EtapesDeSauveur, generation : Nat]]
      /\ sauveurs'[p].etape = e
      /\ \A q \in Sauveurs : sauveurs'[q].generation = sauveurs[q].generation
      /\ \A q \in Sauveurs \ {p} : sauveurs'[q] = sauveurs[q]
  BY DEF Suivre, InvPlanification, TypePlanification
<1>4. \A m \in DOMAIN generations' : Vraie(generations'[m])
  BY <1>2 DEF InvPlanification
<1>5. \A q, r \in Sauveurs :
       sauveurs'[q].etape # "repos" /\ sauveurs'[r].etape # "repos"
         /\ sauveurs'[q].generation = sauveurs'[r].generation => q = r
  BY <1>3 DEF InvPlanification
<1>6. ASSUME NEW q \in Sauveurs, sauveurs'[q].etape # "repos"
      PROVE  /\ sauveurs'[q].generation \in DOMAIN generations'
             /\ AuPas(sauveurs'[q].etape, generations'[sauveurs'[q].generation])
  <2>1. CASE q = p
    BY <1>1, <1>2, <1>3, <2>1 DEF Generation
  <2>2. CASE q # p
    <3>1. sauveurs[q].generation # n
      BY <1>3, <1>6, <2>2 DEF InvPlanification, Generation
    <3> QED BY <1>2, <1>3, <1>6, <2>2, <3>1 DEF InvPlanification
  <2> QED BY <2>1, <2>2
<1> QED BY <1>2, <1>3, <1>4, <1>5, <1>6 DEF InvPlanification, TypePlanification

LEMMA Engager ==
  ASSUME InvPlanification, NEW p, Commencer(p)
  PROVE  InvPlanification'
<1> DEFINE n == Len(generations) + 1
           g == [dump |-> "partiel", manifeste |-> "aucun", age |-> 0, cle |-> FALSE,
                 distant |-> "absent"]
           s == [etape |-> "dump", generation |-> n]
<1>1. generations' = Append(generations, g) /\ sauveurs' = [sauveurs EXCEPT ![p] = s]
  BY DEF Commencer
<1>2. g \in Generations /\ Vraie(g) /\ AuPas("dump", g) /\ g.cle = FALSE
  BY DEF Generations, Vraie, AuPas
<1>3. n \in Nat /\ s \in [etape : EtapesDeSauveur, generation : Nat]
  BY DEF EtapesDeSauveur, InvPlanification, TypePlanification
<1>4. s.etape = "dump" /\ s.generation = n
  OBVIOUS
<1> HIDE DEF g, s
<1>5. /\ generations' \in Seq(Generations) /\ DOMAIN generations' = DOMAIN generations \cup {n}
      /\ n \notin DOMAIN generations
      /\ \A m \in DOMAIN generations' : generations'[m] = IF m = n THEN g ELSE generations[m]
  BY <1>1, <1>2 DEF InvPlanification, TypePlanification
<1>6. /\ sauveurs' \in [Sauveurs -> [etape : EtapesDeSauveur, generation : Nat]]
      /\ \A q \in Sauveurs : sauveurs'[q] = IF q = p THEN s ELSE sauveurs[q]
  BY <1>1, <1>3 DEF InvPlanification, TypePlanification
<1>7. \A m \in DOMAIN generations' : Vraie(generations'[m])
  BY <1>2, <1>5 DEF InvPlanification
<1>8. \A q \in Sauveurs : sauveurs'[q].etape # "repos" =>
        /\ sauveurs'[q].generation \in DOMAIN generations'
        /\ AuPas(sauveurs'[q].etape, generations'[sauveurs'[q].generation])
  BY <1>2, <1>4, <1>5, <1>6 DEF InvPlanification
<1>9. \A q, r \in Sauveurs :
       sauveurs'[q].etape # "repos" /\ sauveurs'[r].etape # "repos"
         /\ sauveurs'[q].generation = sauveurs'[r].generation => q = r
  BY <1>4, <1>5, <1>6 DEF InvPlanification
<1> QED BY <1>5, <1>6, <1>7, <1>8, <1>9 DEF InvPlanification, TypePlanification

LEMMA Degager ==
  ASSUME InvPlanification, NEW p \in Sauveurs, Rendre(p), UNCHANGED generations
  PROVE  InvPlanification'
<1>1. /\ sauveurs' \in [Sauveurs -> [etape : EtapesDeSauveur, generation : Nat]]
      /\ \A q \in Sauveurs : sauveurs'[q].etape # "repos" => sauveurs'[q] = sauveurs[q]
  BY DEF Rendre, Repos, InvPlanification, TypePlanification, EtapesDeSauveur
<1> QED BY <1>1 DEF InvPlanification, TypePlanification

LEMMA Sauver ==
  ASSUME InvPlanification, NEW p \in Sauveurs,
         \/ pg_dump(p) \/ tronquer_manifeste(p) \/ ecrire_manifeste(p)
         \/ \E a \in {"identique", "altere"} : upload_file(p, a)
         \/ relire_apres_envoi(p) \/ ecrire_cle(p)
  PROVE  InvPlanification'
<1> DEFINE g == generations[Generation(p)]
           e == sauveurs[p].etape
<1>1. e # "repos"
  BY DEF Pas, pg_dump, tronquer_manifeste, ecrire_manifeste, upload_file, relire_apres_envoi, ecrire_cle
<1>2. g \in Generations /\ Vraie(g) /\ AuPas(e, g) /\ Generation(p) \in DOMAIN generations
  BY <1>1 DEF InvPlanification, TypePlanification, Generation
<1>3. CASE pg_dump(p)
  <2>1. [g EXCEPT !.dump = "entier"] \in Generations
        /\ Vraie([g EXCEPT !.dump = "entier"]) /\ AuPas("manifeste", [g EXCEPT !.dump = "entier"])
    BY <1>2, <1>3 DEF pg_dump, Pas, Vraie, AuPas, Generations
  <2>2. generations' = [generations EXCEPT ![Generation(p)] = [g EXCEPT !.dump = "entier"]]
    BY <1>2, <1>3, ChampsEcrits DEF pg_dump, Ecrire
  <2>3. Suivre(p, "manifeste") /\ "manifeste" \in EtapesDeSauveur \ {"repos"}
    BY <1>3 DEF pg_dump, EtapesDeSauveur
  <2> QED BY <1>1, <2>1, <2>2, <2>3, UneGeneration
<1>4. CASE tronquer_manifeste(p)
  <2> DEFINE f == IF e = "manifeste" THEN "manifeste_ouvert" ELSE "cle_ouvert"
  <2>1. [g EXCEPT !.manifeste = "tronque"] \in Generations
        /\ Vraie([g EXCEPT !.manifeste = "tronque"]) /\ AuPas(f, [g EXCEPT !.manifeste = "tronque"])
    BY <1>2, <1>4 DEF tronquer_manifeste, Vraie, AuPas, Generations
  <2>2. generations' = [generations EXCEPT ![Generation(p)] = [g EXCEPT !.manifeste = "tronque"]]
    BY <1>2, <1>4, ChampsEcrits DEF tronquer_manifeste, Ecrire
  <2>3. Suivre(p, f) /\ f \in EtapesDeSauveur \ {"repos"}
    BY <1>4 DEF tronquer_manifeste, EtapesDeSauveur, Pas
  <2> QED BY <1>1, <2>1, <2>2, <2>3, UneGeneration
<1>5. CASE ecrire_manifeste(p)
  <2> DEFINE f == IF passage.horsSite THEN "envoi" ELSE "fin"
  <2>1. [g EXCEPT !.manifeste = "ecrit"] \in Generations
        /\ Vraie([g EXCEPT !.manifeste = "ecrit"]) /\ AuPas(f, [g EXCEPT !.manifeste = "ecrit"])
    BY <1>2, <1>5 DEF ecrire_manifeste, Pas, Vraie, AuPas, Generations
  <2>2. generations' = [generations EXCEPT ![Generation(p)] = [g EXCEPT !.manifeste = "ecrit"]]
    BY <1>2, <1>5, ChampsEcrits DEF ecrire_manifeste, Ecrire
  <2>3. Suivre(p, f) /\ f \in EtapesDeSauveur \ {"repos"}
    BY <1>5 DEF ecrire_manifeste, EtapesDeSauveur
  <2> QED BY <1>1, <2>1, <2>2, <2>3, UneGeneration
<1>6. ASSUME NEW a \in {"identique", "altere"}, upload_file(p, a) PROVE InvPlanification'
  <2>1. [g EXCEPT !.distant = a] \in Generations
        /\ Vraie([g EXCEPT !.distant = a]) /\ AuPas("relecture", [g EXCEPT !.distant = a])
    BY <1>2, <1>6 DEF upload_file, Pas, Vraie, AuPas, Generations
  <2>2. generations' = [generations EXCEPT ![Generation(p)] = [g EXCEPT !.distant = a]]
    BY <1>2, <1>6, ChampsEcrits DEF upload_file, Ecrire
  <2>3. Suivre(p, "relecture") /\ "relecture" \in EtapesDeSauveur \ {"repos"}
    BY <1>6 DEF upload_file, EtapesDeSauveur
  <2> QED BY <1>1, <2>1, <2>2, <2>3, UneGeneration
<1>7. CASE relire_apres_envoi(p)
  <2>1. AuPas("cle", g) /\ generations' = [generations EXCEPT ![Generation(p)] = g]
    BY <1>2, <1>7 DEF relire_apres_envoi, Pas, AuPas, InvPlanification, TypePlanification
  <2>2. Suivre(p, "cle") /\ "cle" \in EtapesDeSauveur \ {"repos"}
    BY <1>7 DEF relire_apres_envoi, EtapesDeSauveur
  <2> QED BY <1>1, <1>2, <2>1, <2>2, UneGeneration
<1>8. CASE ecrire_cle(p)
  <2> DEFINE h == [[g EXCEPT !.manifeste = "ecrit"] EXCEPT !.cle = TRUE]
  <2>1. h \in Generations /\ Vraie(h) /\ AuPas("fin", h)
    BY <1>2, <1>8 DEF ecrire_cle, Pas, Vraie, AuPas, Generations
  <2>2. generations' = [generations EXCEPT ![Generation(p)] = h]
    <3> DEFINE k == [manifeste |-> "ecrit", cle |-> TRUE]
    <3>1. generations' = [generations EXCEPT ![Generation(p)] =
            [c \in DOMAIN g |-> IF c \in DOMAIN k THEN k[c] ELSE g[c]]]
      BY <1>2, <1>8 DEF ecrire_cle, Ecrire
    <3> HIDE DEF g
    <3>2. [c \in DOMAIN g |-> IF c \in DOMAIN k THEN k[c] ELSE g[c]] = h
      BY <1>2, ChampsEcrits
    <3> QED BY <3>1, <3>2
  <2>3. Suivre(p, "fin") /\ "fin" \in EtapesDeSauveur \ {"repos"}
    BY <1>8 DEF ecrire_cle, EtapesDeSauveur
  <2> QED BY <1>1, <2>1, <2>2, <2>3, UneGeneration
<1> QED BY <1>3, <1>4, <1>5, <1>6, <1>7, <1>8

LEMMA UnPasDePlanification ==
  ASSUME InvPlanification, [NextPlanification]_varsPlanification
  PROVE  InvPlanification'
<1>1. ASSUME UNCHANGED <<generations, sauveurs>> PROVE InvPlanification'
  BY <1>1 DEF InvPlanification, TypePlanification
<1>2. ASSUME NEW p \in Sauveurs, sauver(p) \/ sauvegarde_faite(p) \/ echec_sauvegarde(p)
      PROVE  InvPlanification'
  BY <1>2, Engager, Degager DEF sauver, sauvegarde_faite, echec_sauvegarde
<1>3. CASE se_reveiller \/ executer_si_du \/ UNCHANGED varsPlanification
  BY <1>1, <1>3, Engager DEF se_reveiller, executer_si_du, varsPlanification
<1>4. CASE le_temps_passe
  <2>1. ASSUME NEW m \in DOMAIN generations
        PROVE  LET g == generations[m]
                   h == IF g.manifeste = "aucun" THEN g
                        ELSE [g EXCEPT !.age = IF @ < Intervalle THEN @ + 1 ELSE @]
               IN  h \in Generations /\ \A a \in {"dump", "manifeste", "cle", "distant"} : h[a] = g[a]
    <3>1. generations[m] \in Generations
      BY DEF InvPlanification, TypePlanification
    <3> QED BY <3>1 DEF Generations
  <2>2. /\ DOMAIN generations' = DOMAIN generations
        /\ \A m \in DOMAIN generations : generations'[m] \in Generations
             /\ \A a \in {"dump", "manifeste", "cle", "distant"} : generations'[m][a] = generations[m][a]
    BY <1>4, <2>1 DEF le_temps_passe
  <2>3. generations' \in Seq(Generations)
    <3>1. Len(generations) \in Nat /\ DOMAIN generations = 1..Len(generations)
      BY DEF InvPlanification, TypePlanification
    <3>2. generations' \in [1..Len(generations) -> Generations]
      BY <1>4, <2>2, <3>1 DEF le_temps_passe
    <3> QED BY <3>1, <3>2, SeqDef
  <2>4. UNCHANGED sauveurs
    BY <1>4 DEF le_temps_passe
  <2> QED BY <2>2, <2>3, <2>4 DEF InvPlanification, TypePlanification, Vraie, AuPas
<1> QED BY <1>2, <1>3, <1>4, Sauver DEF NextPlanification

(* When the service finds no backup due, the last one that has a manifest   *)
(* has its whole dump and a remote copy identical to it where its manifest  *)
(* names one, for any processes, delays and generations: each process       *)
(* writes in a generation of its own.                                       *)
THEOREM CopieAnnonceeProuvee == Spec => []CopieAnnoncee
<1>1. Init => InvPlanification
  BY DebutPlanification DEF Init
<1>2. InvPlanification /\ [Next]_varsTaches => InvPlanification'
  <2>1. [Next]_varsTaches => [NextPlanification]_varsPlanification
    BY DEF Next, varsTaches
  <2> QED BY <2>1, UnPasDePlanification
<1>3. InvPlanification => CopieAnnoncee
  <2> SUFFICES ASSUME InvPlanification, ~sauvegarde_due 
                PROVE  Derniere.dump = "entier" /\ (Derniere.cle => Derniere.distant = "identique")
    BY DEF CopieAnnoncee
  <2>1. AvecManifeste # {} /\ AvecManifeste \in SUBSET (1..Len(generations)) /\ Len(generations) \in Nat
    BY DEF sauvegarde_due, AgeConnu, AvecManifeste, InvPlanification, TypePlanification
  <2>2. Max(AvecManifeste) \in AvecManifeste
    BY <2>1, PlusGrand
  <2> QED BY <2>2 DEF Derniere, AvecManifeste, InvPlanification, Vraie
<1> QED BY <1>1, <1>2, <1>3, PTL DEF Spec

----------------------------------------------------------------------------
(* The family of a record.                                                  *)

FichesClassees ==
  [famille : Familles, source : {"dossier", "document", "humain"},
   champ : {"cote", "modele_bateau_brut"}, trace : Lus \cup {Vide}, corrige : BOOLEAN,
   verrou : Mains \cup {Vide}]
Depots ==
  [op : {"depot"}, fiche : Classees, lu : Lus, famille : Familles,
   source : {"dossier", "document"}, garder : BOOLEAN]
Reclassements == [op : {"reclasser"}, fiche : Classees]

TypeClassement ==
  /\ classement \in [Classees -> FichesClassees]
  /\ seances \in [Mains -> {Vide} \cup Depots \cup Reclassements]

(* Who is between its two steps holds the record, and knows that a human    *)
(* decided its family.                                                      *)
SeanceTenue(t) ==
  seances[t] # Vide =>
    LET f == classement[seances[t].fiche] IN
    /\ f.verrou = t
    /\ seances[t].op = "depot" /\ f.source = "humain" => seances[t].garder

InvProjections == TypeClassement /\ \A t \in Mains : SeanceTenue(t)

LEMMA DebutProjections == InitProjections \/ ProjectionsVides => InvProjections
<1>1. ASSUME InitProjections PROVE InvProjections
  <2>1. classement \in [Classees -> FichesClassees]
    BY <1>1 DEF InitProjections, FichesClassees
  <2> QED BY <1>1, <2>1 DEF InitProjections, InvProjections, TypeClassement, SeanceTenue
<1>2. ASSUME ProjectionsVides PROVE InvProjections
  BY <1>2 DEF ProjectionsVides, InvProjections, TypeClassement, SeanceTenue, FichesClassees, Familles
<1> QED BY <1>1, <1>2

(* Writing one after the other in the fields of one record.                 *)
LEMMA EncoreUneFois ==
  ASSUME NEW F, NEW f \in DOMAIN F, NEW x, NEW y
  PROVE  /\ [F EXCEPT ![f] = x][f] = x
         /\ [[F EXCEPT ![f] = x] EXCEPT ![f] = y] = [F EXCEPT ![f] = y]
OBVIOUS

LEMMA SeanceTypee ==
  ASSUME InvProjections, NEW t \in Mains, seances[t] # Vide
  PROVE  /\ seances[t] \in Depots \cup Reclassements /\ seances[t].fiche \in Classees
         /\ classement[seances[t].fiche] \in FichesClassees
         /\ classement[seances[t].fiche].verrou = t /\ t # Vide
         /\ seances[t].op = "depot" => seances[t] \in Depots
BY HypVide DEF InvProjections, TypeClassement, SeanceTenue, Depots, Reclassements

(* One record changes, and nobody holds it; or the one who holds it ends.   *)
LEMMA SansSeance ==
  ASSUME InvProjections, NEW f \in Classees, NEW c \in FichesClassees,
         classement' = [classement EXCEPT ![f] = c], UNCHANGED seances,
         c.verrou = classement[f].verrou, c.source = classement[f].source \/ c.verrou = Vide
  PROVE  InvProjections'
<1>1. TypeClassement'
  BY DEF InvProjections, TypeClassement
<1>2. ASSUME NEW t \in Mains PROVE SeanceTenue(t)'
  BY <1>2, SeanceTypee DEF InvProjections, TypeClassement, SeanceTenue
<1> QED BY <1>1, <1>2 DEF InvProjections

LEMMA FinDeSeance ==
  ASSUME InvProjections, NEW t \in Mains, seances[t] # Vide, NEW c \in FichesClassees,
         classement' = [classement EXCEPT ![seances[t].fiche] = c],
         seances' = [seances EXCEPT ![t] = Vide]
  PROVE  InvProjections'
<1>1. TypeClassement'
  BY DEF InvProjections, TypeClassement
<1>2. ASSUME NEW u \in Mains, seances'[u] # Vide PROVE SeanceTenue(u)'
  <2>1. u # t /\ seances'[u] = seances[u]
    BY <1>2 DEF InvProjections, TypeClassement
  <2>2. seances[u].fiche # seances[t].fiche
    BY <1>2, <2>1, SeanceTypee
  <2>3. classement'[seances[u].fiche] = classement[seances[u].fiche]
    BY <1>2, <2>1, <2>2, SeanceTypee DEF InvProjections, TypeClassement
  <2> QED BY <2>1, <2>3 DEF InvProjections, SeanceTenue
<1> QED BY <1>1, <1>2 DEF InvProjections, SeanceTenue

LEMMA DebutDeSeance ==
  ASSUME InvProjections, NEW t \in Mains, NEW f \in Classees, NEW r \in Depots \cup Reclassements,
         r.fiche = f, r.op = "depot" /\ classement[f].source = "humain" => r.garder,
         Verrouiller(t, f, r)
  PROVE  InvProjections'
<1> DEFINE c == [classement[f] EXCEPT !.verrou = t]
<1>1. classement[f] \in FichesClassees /\ classement[f].verrou = Vide
  BY DEF InvProjections, TypeClassement, Verrouiller
<1>2. c \in FichesClassees /\ c.verrou = t /\ c.source = classement[f].source
  BY <1>1 DEF FichesClassees
<1>3. classement' = [classement EXCEPT ![f] = c] /\ seances' = [seances EXCEPT ![t] = r]
  BY DEF Verrouiller, InvProjections, TypeClassement
<1> HIDE DEF c
<1>4. TypeClassement'
  BY <1>2, <1>3 DEF InvProjections, TypeClassement
<1>5. SeanceTenue(t)'
  BY <1>2, <1>3 DEF InvProjections, TypeClassement, SeanceTenue
<1>6. ASSUME NEW u \in Mains \ {t}, seances'[u] # Vide PROVE SeanceTenue(u)'
  <2>1. seances'[u] = seances[u] /\ seances[u].fiche # f
    BY <1>1, <1>3, <1>6, SeanceTypee DEF InvProjections, TypeClassement
  <2>2. classement'[seances[u].fiche] = classement[seances[u].fiche]
    BY <1>3, <1>6, <2>1, SeanceTypee DEF InvProjections, TypeClassement
  <2> QED BY <2>1, <2>2 DEF InvProjections, SeanceTenue
<1> QED BY <1>4, <1>5, <1>6 DEF InvProjections, SeanceTenue

(* What becomes of a family that a human decided.                           *)
ResteDecidee ==
  \A f \in Classees : classement[f].source = "humain" =>
    /\ classement'[f].source = "humain"
    /\ classement'[f].famille # classement[f].famille =>
         \E t \in Mains : Pendant(t, "reclasser") /\ seances'[t] = Vide

LEMMA UnPasDeProjections ==
  ASSUME InvProjections, [NextProjections]_varsProjections
  PROVE  InvProjections' /\ ResteDecidee
<1>0. /\ \A f \in Classees : classement[f] \in FichesClassees
      /\ classement \in [Classees -> FichesClassees] /\ seances \in [Mains -> {Vide} \cup Depots \cup Reclassements]
  BY DEF InvProjections, TypeClassement
<1>1. ASSUME UNCHANGED <<classement, seances>> PROVE InvProjections' /\ ResteDecidee
  BY <1>1 DEF InvProjections, TypeClassement, SeanceTenue, ResteDecidee
<1>2. ASSUME NEW t \in Mains, NEW f \in Classees, lire_categorie(t, f) PROVE InvProjections' /\ ResteDecidee
  <2>1. [op |-> "reclasser", fiche |-> f] \in Depots \cup Reclassements
    BY DEF Reclassements
  <2> QED BY <1>0, <1>2, <2>1, DebutDeSeance DEF lire_categorie, Verrouiller, ResteDecidee, FichesClassees
<1>3. ASSUME NEW t \in Mains, NEW f \in Classees, NEW lu \in Lus, NEW p \in Propositions, lire_depot(t, f, lu, p)
      PROVE  InvProjections' /\ ResteDecidee
  <2> DEFINE g == (classement[f].source = "humain" \/ (p[1] # classement[f].famille /\ PorteDesCorrections(f)))
             r == [op |-> "depot", fiche |-> f, lu |-> lu, famille |-> p[1], source |-> p[2], garder |-> g]
  <2>1. g \in BOOLEAN /\ p[1] \in Familles /\ p[2] \in {"dossier", "document"}
        /\ (classement[f].source = "humain" => g) /\ Verrouiller(t, f, r)
    BY <1>3 DEF lire_depot, Propositions, Familles
  <2> HIDE DEF g
  <2>2. r \in Depots /\ r.fiche = f /\ (classement[f].source = "humain" => r.garder)
    BY <2>1 DEF Depots
  <2> HIDE DEF r
  <2>3. InvProjections'
    BY <2>1, <2>2, DebutDeSeance
  <2> QED BY <1>0, <2>1, <2>3 DEF Verrouiller, ResteDecidee, FichesClassees
<1>4. ASSUME NEW t \in Mains, ecrire_fiche_dans(t) PROVE InvProjections' /\ ResteDecidee
  <2> DEFINE s == seances[t]
             f == s.fiche
             k == classement[f]
             famille == IF s.garder THEN k.famille ELSE s.famille
             c == [[[[[k EXCEPT !.trace = s.lu] EXCEPT !.corrige = FALSE] EXCEPT !.verrou = Vide]
                      EXCEPT !.famille = famille]
                      EXCEPT !.source = IF s.garder THEN @ ELSE s.source]
  <2>1. s # Vide /\ s \in Depots /\ f \in Classees /\ k \in FichesClassees
        /\ (k.source = "humain" => s.garder)
    BY <1>4, SeanceTypee DEF ecrire_fiche_dans, Pendant, InvProjections, SeanceTenue
  <2>2. famille \in Familles /\ (IF s.garder THEN k.source ELSE s.source) \in {"dossier", "document", "humain"}
        /\ s.lu \in Lus
    BY <2>1 DEF FichesClassees, Depots
  <2>3. classement' = [classement EXCEPT ![f] = c] /\ seances' = [seances EXCEPT ![t] = Vide]
    <3> DEFINE k1 == [k EXCEPT !.trace = s.lu]
               k2 == [k1 EXCEPT !.corrige = FALSE]
               k3 == [k2 EXCEPT !.verrou = Vide]
               k4 == [k3 EXCEPT !.famille = famille]
               k5 == [k4 EXCEPT !.source = IF s.garder THEN @ ELSE s.source]
               C1 == [classement EXCEPT ![f].trace = s.lu]
               C2 == [C1 EXCEPT ![f].corrige = FALSE]
               C3 == [C2 EXCEPT ![f].verrou = Vide]
               C4 == [C3 EXCEPT ![f].famille = famille]
               C5 == [C4 EXCEPT ![f].source = IF s.garder THEN @ ELSE s.source]
    <3>1. classement' = C5 /\ seances' = [seances EXCEPT ![t] = Vide]
      BY <1>4, Zenon DEF ecrire_fiche_dans
    <3>2. f \in DOMAIN classement
      BY <1>0, <2>1
    <3>3. C1 = [classement EXCEPT ![f] = k1] /\ C1[f] = k1
      BY <3>2
    <3> HIDE DEF C1, k1
    <3>4. C2 = [classement EXCEPT ![f] = k2] /\ C2[f] = k2
      BY <3>2, <3>3, EncoreUneFois
    <3> HIDE DEF C2, k2
    <3>5. C3 = [classement EXCEPT ![f] = k3] /\ C3[f] = k3
      BY <3>2, <3>4, EncoreUneFois
    <3> HIDE DEF C3, k3
    <3>6. C4 = [classement EXCEPT ![f] = k4] /\ C4[f] = k4
      BY <3>2, <3>5, EncoreUneFois
    <3> HIDE DEF C4, k4
    <3>7. C5 = [classement EXCEPT ![f] = k5]
      BY <3>2, <3>6, EncoreUneFois
    <3> QED BY <3>1, <3>7 DEF k1, k2, k3, k4
  <2>4. c \in FichesClassees /\ (k.source = "humain" => c.source = "humain" /\ c.famille = k.famille)
    BY <2>1, <2>2 DEF FichesClassees
  <2> HIDE DEF c
  <2>5. InvProjections'
    BY <2>1, <2>3, <2>4, FinDeSeance
  <2> QED BY <1>0, <2>3, <2>4, <2>5 DEF ResteDecidee
<1>5. ASSUME NEW t \in Mains, changer_categorie_fiche(t) PROVE InvProjections' /\ ResteDecidee
  <2> DEFINE f == seances[t].fiche
             k == classement[f]
             autre == CHOOSE g \in Familles : g # k.famille
             c == [[[k EXCEPT !.source = "humain"] EXCEPT !.verrou = Vide] EXCEPT !.famille = autre]
  <2>1. seances[t] # Vide /\ f \in Classees /\ k \in FichesClassees
    BY <1>5, SeanceTypee DEF changer_categorie_fiche, Pendant
  <2>2. autre \in Familles
    BY DEF Familles
  <2> HIDE DEF autre
  <2>3. c \in FichesClassees /\ c.source = "humain"
    BY <2>1, <2>2 DEF FichesClassees
  <2>4. classement' = [classement EXCEPT ![f] = c] /\ seances' = [seances EXCEPT ![t] = Vide]
    <3> DEFINE k1 == [k EXCEPT !.source = "humain"]
               k2 == [k1 EXCEPT !.verrou = Vide]
               C1 == [classement EXCEPT ![f].source = "humain"]
               C2 == [C1 EXCEPT ![f].verrou = Vide]
               C3 == [C2 EXCEPT ![f].famille = autre]
    <3>1. classement' = C3 /\ seances' = [seances EXCEPT ![t] = Vide]
      BY <1>5, Zenon DEF changer_categorie_fiche, autre
    <3>2. f \in DOMAIN classement
      BY <1>0, <2>1
    <3>3. C1 = [classement EXCEPT ![f] = k1] /\ C1[f] = k1
      BY <3>2
    <3> HIDE DEF C1, k1
    <3>4. C2 = [classement EXCEPT ![f] = k2] /\ C2[f] = k2
      BY <3>2, <3>3, EncoreUneFois
    <3> HIDE DEF C2, k2
    <3>5. C3 = [classement EXCEPT ![f] = [k2 EXCEPT !.famille = autre]]
      BY <3>2, <3>4, EncoreUneFois
    <3> QED BY <3>1, <3>5 DEF k1, k2
  <2> HIDE DEF c
  <2>6. InvProjections'
    BY <2>1, <2>3, <2>4, FinDeSeance
  <2>7. Pendant(t, "reclasser") /\ seances'[t] = Vide
    BY <1>0, <1>5, <2>4 DEF changer_categorie_fiche
  <2> QED BY <1>0, <2>3, <2>4, <2>6, <2>7 DEF ResteDecidee
<1>6. ASSUME NEW t \in Mains, annuler_seance(t) PROVE InvProjections' /\ ResteDecidee
  <2> DEFINE f == seances[t].fiche
             c == [classement[f] EXCEPT !.verrou = Vide]
  <2>1. seances[t] # Vide /\ f \in Classees /\ classement[f] \in FichesClassees
    BY <1>6, SeanceTypee DEF annuler_seance
  <2>2. c \in FichesClassees /\ c.source = classement[f].source /\ c.famille = classement[f].famille
    BY <2>1 DEF FichesClassees
  <2>3. classement' = [classement EXCEPT ![f] = c] /\ seances' = [seances EXCEPT ![t] = Vide]
    BY <1>0, <1>6, <2>1 DEF annuler_seance
  <2> HIDE DEF c
  <2>4. InvProjections'
    BY <2>1, <2>2, <2>3, FinDeSeance
  <2> QED BY <1>0, <2>2, <2>3, <2>4 DEF ResteDecidee
<1>7. ASSUME NEW f \in Classees,
             \/ confirmer_categorie(f) \/ lier(f) \/ effacer_corrections(f)
             \/ \E v \in Lus : corriger_accessoire(f, v) \/ corriger_extraction(f, v)
      PROVE  InvProjections' /\ ResteDecidee
  <2>1. CASE confirmer_categorie(f)
    <3> DEFINE c == [classement[f] EXCEPT !.source = "humain"]
    <3>1. c \in FichesClassees /\ c.verrou = classement[f].verrou /\ c.famille = classement[f].famille
          /\ c.source = "humain"
      BY <1>0 DEF FichesClassees
    <3>2. /\ classement' = [classement EXCEPT ![f] = c] /\ UNCHANGED seances
          /\ classement[f].verrou = Vide
      BY <1>0, <2>1 DEF confirmer_categorie
    <3> HIDE DEF c
    <3> QED BY <1>0, <3>1, <3>2, SansSeance DEF ResteDecidee
  <2>2. CASE effacer_corrections(f)
    <3> DEFINE c == [classement[f] EXCEPT !.corrige = FALSE]
    <3>1. c \in FichesClassees /\ c.verrou = classement[f].verrou /\ c.famille = classement[f].famille
          /\ c.source = classement[f].source
      BY <1>0 DEF FichesClassees
    <3>2. classement' = [classement EXCEPT ![f] = c] /\ UNCHANGED seances
      BY <1>0, <2>2 DEF effacer_corrections
    <3> HIDE DEF c
    <3> QED BY <1>0, <3>1, <3>2, SansSeance DEF ResteDecidee
  <2>3. ASSUME NEW v \in Lus, corriger_extraction(f, v) PROVE InvProjections' /\ ResteDecidee
    <3>1. CASE classement[f].champ = "cote"
      <4> DEFINE c == [[classement[f] EXCEPT !.trace = v] EXCEPT !.corrige = TRUE]
      <4>1. c \in FichesClassees /\ c.verrou = classement[f].verrou /\ c.famille = classement[f].famille
            /\ c.source = classement[f].source
        BY <1>0 DEF FichesClassees
      <4>2. classement' = [classement EXCEPT ![f] = c] /\ UNCHANGED seances
        BY <1>0, <2>3, <3>1 DEF corriger_extraction
      <4> HIDE DEF c
      <4> QED BY <1>0, <4>1, <4>2, SansSeance DEF ResteDecidee
    <3>2. CASE classement[f].champ # "cote"
      BY <1>1, <2>3, <3>2 DEF corriger_extraction
    <3> QED BY <3>1, <3>2
  <2> QED BY <1>1, <1>7, <2>1, <2>2, <2>3 DEF lier, corriger_accessoire
<1>8. CASE UNCHANGED varsProjections
  BY <1>1, <1>8 DEF varsProjections
<1> QED BY <1>2, <1>3, <1>4, <1>5, <1>6, <1>7, <1>8 DEF NextProjections

(* The family that a human decided stays decided by a human, and changes    *)
(* through a reclassing alone, for any records and connections: the lock    *)
(* of the record is held from what a deposit reads to what it writes.       *)
THEOREM CategorieDecideeProuvee == Spec => CategorieDecidee
<1>1. Init => InvProjections
  BY DebutProjections DEF Init
<1>2. InvProjections /\ [Next]_varsTaches => InvProjections' /\ [ResteDecidee]_varsProjections
  <2>1. [Next]_varsTaches => [NextProjections]_varsProjections
    BY DEF Next, varsTaches
  <2> QED BY <2>1, UnPasDeProjections
<1>3. Spec => [][ResteDecidee]_varsProjections
  BY <1>1, <1>2, PTL DEF Spec
<1> QED BY <1>3 DEF CategorieDecidee, ResteDecidee

----------------------------------------------------------------------------
(* The corrections of an import.                                            *)

Contenus ==
  [donnees : Donnees \cup {Sans}, statut : {"completed", "needs_review"}, generation : BOOLEAN,
   publication : BOOLEAN, attendu : Donnees \cup {Sans}, preuve : Donnees \cup {Sans},
   ancien : BOOLEAN, configure : BOOLEAN]
EtapesDeMutation == {"lu", "generer", "annoncer", "envoyer", "enregistrer"}
Mutations ==
  [op : {"correction", "reprise"}, etape : EtapesDeMutation, voulu : Donnees \cup {Sans},
   copie : Contenus, recu : {"rien"} \cup Resultats]

TypeCorrections ==
  /\ dossier \in Contenus
  /\ rapport \in Donnees \cup {Sans}
  /\ mutations \in [Operateurs -> {Sans} \cup Mutations]
  /\ verrousPerdus \in Nat

(* A payload names the report of its data, unless it is old and names none; *)
(* an old one has no protection once a lock was lost.                       *)
IdentiteDe(c) == IF c.attendu # Sans THEN c.attendu ELSE c.preuve
Coherent(c) ==
  ~c.generation /\ (verrousPerdus = 0 \/ ~c.ancien) =>
    \/ IdentiteDe(c) = c.donnees /\ c.donnees # Sans
    \/ c.ancien /\ IdentiteDe(c) = Sans

(* What a request has in its hands: a correction revoked the proofs before  *)
(* anything else and wants data; nothing is sent that has a proof.          *)
EnMain(x) ==
  /\ Coherent(x.copie)
  /\ x.etape = "envoyer" => x.copie.preuve = Sans
  /\ x.etape # "enregistrer" => x.recu = "rien"
  /\ x.op = "reprise" => ~x.copie.generation
  /\ x.op = "correction" =>
       /\ x.voulu \in Donnees
       /\ x.etape # "lu" => x.copie.generation
       /\ x.etape \in {"generer", "annoncer"} => x.copie.preuve = Sans
       /\ x.etape = "enregistrer" /\ x.recu = "prouve" => x.copie.preuve = x.voulu

(* Under the lock the copy is the payload, but the proof just received.     *)
AJour(x, d) ==
  /\ x.copie.donnees = d.donnees /\ x.copie.generation = d.generation
  /\ x.copie.attendu = d.attendu /\ d.preuve \in {Sans, x.copie.preuve}
  /\ x.etape # "enregistrer" => x.copie = d

(* The report of an import that names none is the one of its data.          *)
RapportSur(r, d) == ~d.generation /\ IdentiteDe(d) = Sans => r \in {Sans, d.donnees}

InvCorrections ==
  /\ TypeCorrections
  /\ Coherent(dossier)
  /\ verrousPerdus = 0 => RapportSur(rapport, dossier)
  /\ \A m \in Operateurs : mutations[m] # Sans =>
       /\ EnMain(mutations[m])
       /\ verrousPerdus = 0 => verrouImport = m /\ AJour(mutations[m], dossier)

LEMMA DebutCorrections == InitCorrections \/ DossierVide => InvCorrections
<1>1. ASSUME InitCorrections PROVE InvCorrections
  <2>1. TypeCorrections
    BY <1>1 DEF InitCorrections, TypeCorrections, Contenus
  <2>2. /\ IdentiteDe(dossier) \in {dossier.donnees, Sans} /\ dossier.donnees # Sans
        /\ IdentiteDe(dossier) = Sans => dossier.ancien
    BY <1>1, HypSans DEF InitCorrections, IdentiteDe
  <2> QED BY <1>1, <2>1, <2>2 DEF InitCorrections, InvCorrections, Coherent, RapportSur
<1>2. ASSUME DossierVide PROVE InvCorrections
  BY <1>2 DEF DossierVide, InvCorrections, TypeCorrections, Contenus, IdentiteDe, Coherent, RapportSur
<1> QED BY <1>1, <1>2

(* Request m goes on, and may write the payload or the report.              *)
LEMMA UneMutation ==
  ASSUME InvCorrections, NEW m \in Operateurs, mutations[m] # Sans, NEW x \in Mutations,
         mutations' = [mutations EXCEPT ![m] = x], UNCHANGED <<verrouImport, verrousPerdus>>,
         EnMain(x), dossier' \in Contenus, Coherent(dossier'), rapport' \in Donnees \cup {Sans},
         verrousPerdus = 0 => AJour(x, dossier') /\ RapportSur(rapport', dossier')
  PROVE  InvCorrections'
<1>1. TypeCorrections'
  BY DEF InvCorrections, TypeCorrections
<1>2. Coherent(dossier)' /\ (verrousPerdus' = 0 => RapportSur(rapport, dossier)')
  BY DEF Coherent, RapportSur, IdentiteDe
<1>3. ASSUME NEW n \in Operateurs, mutations'[n] # Sans
      PROVE  /\ EnMain(mutations[n])'
             /\ verrousPerdus' = 0 => verrouImport' = n /\ AJour(mutations[n], dossier)'
  <2>1. CASE n = m
    <3>1. mutations'[n] = x
      BY <2>1 DEF InvCorrections, TypeCorrections
    <3> QED BY <2>1, <3>1 DEF InvCorrections, EnMain, AJour, Coherent, IdentiteDe
  <2>2. CASE n # m
    <3>1. mutations'[n] = mutations[n] /\ EnMain(mutations[n]) /\ verrousPerdus # 0
      BY <1>3, <2>2 DEF InvCorrections, TypeCorrections
    <3> QED BY <3>1 DEF EnMain, Coherent, IdentiteDe
  <2> QED BY <2>1, <2>2
<1> QED BY <1>1, <1>2, <1>3 DEF InvCorrections

(* It ends, and may write the payload.                                      *)
LEMMA FinDeMutation ==
  ASSUME InvCorrections, NEW m \in Operateurs, mutations[m] # Sans,
         mutations' = [mutations EXCEPT ![m] = Sans], UNCHANGED <<rapport, verrousPerdus>>,
         dossier' \in Contenus, Coherent(dossier'),
         verrousPerdus = 0 => RapportSur(rapport, dossier')
  PROVE  InvCorrections'
<1>1. TypeCorrections'
  BY DEF InvCorrections, TypeCorrections
<1>2. Coherent(dossier)' /\ (verrousPerdus' = 0 => RapportSur(rapport, dossier)')
  BY DEF Coherent, RapportSur, IdentiteDe
<1>3. ASSUME NEW n \in Operateurs, mutations'[n] # Sans
      PROVE  /\ EnMain(mutations[n])' /\ verrousPerdus' # 0
  <2>1. n # m /\ mutations'[n] = mutations[n]
    BY <1>3 DEF InvCorrections, TypeCorrections
  <2>2. EnMain(mutations[n]) /\ verrousPerdus # 0
    BY <1>3, <2>1 DEF InvCorrections
  <2> QED BY <2>1, <2>2 DEF EnMain, Coherent, IdentiteDe
<1> QED BY <1>1, <1>2, <1>3 DEF InvCorrections

LEMMA EnCours ==
  ASSUME InvCorrections, NEW m \in Operateurs, mutations[m] # Sans
  PROVE  /\ mutations[m] \in Mutations /\ EnMain(mutations[m]) /\ mutations[m].copie \in Contenus
         /\ verrousPerdus = 0 => AJour(mutations[m], dossier)
         /\ m \in DOMAIN mutations
BY DEF InvCorrections, TypeCorrections, Mutations

(* The next step with another copy.                                         *)
LEMMA Avance ==
  ASSUME InvCorrections, NEW m \in Operateurs, mutations[m] # Sans,
         NEW e \in EtapesDeMutation, NEW c \in Contenus, Avancer(m, e, c)
  PROVE  \E x \in Mutations :
           /\ mutations' = [mutations EXCEPT ![m] = x]
           /\ x.etape = e /\ x.copie = c
           /\ \A a \in {"op", "voulu", "recu"} : x[a] = mutations[m][a]
<1> DEFINE x1 == [mutations[m] EXCEPT !.etape = e]
           x == [x1 EXCEPT !.copie = c]
           M1 == [mutations EXCEPT ![m].etape = e]
           M2 == [M1 EXCEPT ![m].copie = c]
<1>1. mutations[m] \in Mutations /\ m \in DOMAIN mutations
  BY EnCours
<1>2. mutations' = M2
  BY Zenon DEF Avancer
<1>3. M1 = [mutations EXCEPT ![m] = x1] /\ M1[m] = x1
  BY <1>1
<1>4. x1 \in Mutations /\ x1.etape = e /\ \A a \in {"op", "voulu", "recu"} : x1[a] = mutations[m][a]
  BY <1>1 DEF Mutations
<1> HIDE DEF M1, x1
<1>5. M2 = [mutations EXCEPT ![m] = x]
  BY <1>1, <1>3, EncoreUneFois
<1>6. x \in Mutations /\ x.etape = e /\ x.copie = c /\ \A a \in {"op", "voulu", "recu"} : x[a] = x1[a]
  BY <1>4 DEF Mutations
<1> HIDE DEF x
<1> QED BY <1>2, <1>4, <1>5, <1>6

(* The locks.                                                               *)
LEMMA Verrous ==
  ASSUME InvCorrections,
         \/ perdre_verrou
         \/ \E m \in Operateurs :
              \/ \E v \in Donnees : verrou_mutation_import(m, "correction", v)
              \/ verrou_mutation_import(m, "reprise", Sans)
              \/ interrompre(m)
         \/ UNCHANGED varsCorrections
  PROVE  InvCorrections'
<1>1. CASE perdre_verrou
  <2>1. /\ verrousPerdus' = verrousPerdus + 1 /\ verrousPerdus' # 0 /\ verrousPerdus' \in Nat
        /\ UNCHANGED <<dossier, rapport, mutations>>
    BY <1>1 DEF perdre_verrou, InvCorrections, TypeCorrections
  <2>2. \A c : Coherent(c) => (~c.generation /\ ~c.ancien => IdentiteDe(c) = c.donnees /\ c.donnees # Sans)
    BY DEF Coherent
  <2>3. Coherent(dossier)'
    BY <2>1, <2>2 DEF Coherent, InvCorrections, IdentiteDe
  <2>4. ASSUME NEW m \in Operateurs, mutations'[m] # Sans PROVE EnMain(mutations[m])'
    <3>1. EnMain(mutations[m]) /\ mutations'[m] = mutations[m]
      BY <2>1, <2>4 DEF InvCorrections
    <3> QED BY <2>1, <2>2, <3>1 DEF Coherent, EnMain, IdentiteDe
  <2> QED BY <2>1, <2>3, <2>4 DEF InvCorrections, TypeCorrections
<1>2. ASSUME NEW m \in Operateurs, NEW op \in {"correction", "reprise"}, NEW v \in Donnees \cup {Sans},
             op = "correction" => v \in Donnees, verrou_mutation_import(m, op, v)
      PROVE  InvCorrections'
  <2> DEFINE x == [op |-> op, etape |-> "lu", voulu |-> v, copie |-> dossier, recu |-> "rien"]
  <2>1. /\ mutations' = [mutations EXCEPT ![m] = x] /\ verrouImport = Sans /\ verrouImport' = m
        /\ UNCHANGED <<dossier, rapport, verrousPerdus>> /\ mutations[m] = Sans
        /\ op = "reprise" => ~dossier.generation
    BY <1>2 DEF verrou_mutation_import
  <2>2. x \in Mutations
    BY DEF Mutations, EtapesDeMutation, InvCorrections, TypeCorrections
  <2>3. EnMain(x) /\ AJour(x, dossier)
    BY <1>2, <2>1 DEF EnMain, AJour, InvCorrections, TypeCorrections, Contenus
  <2> HIDE DEF x
  <2>4. TypeCorrections' /\ mutations'[m] = x /\ \A n \in Operateurs \ {m} : mutations'[n] = mutations[n]
    BY <2>1, <2>2 DEF InvCorrections, TypeCorrections
  <2>5. Coherent(dossier)' /\ (verrousPerdus' = 0 => RapportSur(rapport, dossier)')
    BY <2>1 DEF Coherent, RapportSur, IdentiteDe, InvCorrections
  <2>6. ASSUME NEW n \in Operateurs, mutations'[n] # Sans
        PROVE  EnMain(mutations[n])' /\ (verrousPerdus' = 0 => verrouImport' = n /\ AJour(mutations[n], dossier)')
    <3>1. CASE n = m
      BY <2>1, <2>3, <2>4, <3>1 DEF EnMain, AJour, Coherent, IdentiteDe
    <3>2. CASE n # m
      <4>1. mutations'[n] = mutations[n] /\ EnMain(mutations[n]) /\ verrousPerdus # 0
        BY <2>1, <2>4, <2>6, <3>2, HypSans DEF InvCorrections
      <4> QED BY <2>1, <4>1 DEF EnMain, Coherent, IdentiteDe
    <3> QED BY <3>1, <3>2
  <2> QED BY <2>4, <2>5, <2>6 DEF InvCorrections
<1>3. ASSUME NEW m \in Operateurs, interrompre(m) PROVE InvCorrections'
  BY <1>3, FinDeMutation DEF interrompre, InvCorrections, TypeCorrections, Coherent, RapportSur, IdentiteDe
<1>4. CASE UNCHANGED varsCorrections
  BY <1>4 DEF varsCorrections, InvCorrections, TypeCorrections, EnMain, AJour, Coherent, RapportSur, IdentiteDe
<1> QED BY <1>1, <1>2, <1>3, <1>4

(* The steps of a correction.                                               *)
LEMMA UneCorrection ==
  ASSUME InvCorrections, NEW m \in Operateurs,
         revoquer(m) \/ generer_rapports_confines(m) \/ annoncer(m) \/ correct_import(m)
  PROVE  InvCorrections'
<1> DEFINE y == mutations[m]
<1>1. y # Sans /\ y.op = "correction"
  BY DEF Pour, revoquer, generer_rapports_confines, annoncer, correct_import
<1>2. /\ y \in Mutations /\ EnMain(y) /\ y.copie \in Contenus /\ y.voulu \in Donnees /\ Copie(m) = y.copie
      /\ verrousPerdus = 0 => AJour(y, dossier)
  BY <1>1, EnCours DEF EnMain, Copie
<1>3. /\ dossier \in Contenus /\ rapport \in Donnees \cup {Sans} /\ Coherent(dossier)
      /\ verrousPerdus = 0 => RapportSur(rapport, dossier)
  BY DEF InvCorrections, TypeCorrections
<1>4. CASE revoquer(m)
  <2> DEFINE c == [[[y.copie EXCEPT !.generation = TRUE] EXCEPT !.preuve = Sans]
                    EXCEPT !.statut = "needs_review"]
  <2>1. c \in Contenus /\ c.generation = TRUE /\ c.preuve = Sans
    BY <1>2 DEF Contenus
  <2>2. dossier' = c /\ Avancer(m, "generer", c) /\ UNCHANGED <<rapport, verrouImport, verrousPerdus>>
    BY <1>2, <1>4 DEF revoquer
  <2> HIDE DEF c
  <2>3. PICK x \in Mutations : /\ mutations' = [mutations EXCEPT ![m] = x]
                               /\ x.etape = "generer" /\ x.copie = c
                               /\ \A a \in {"op", "voulu", "recu"} : x[a] = y[a]
    BY <1>1, <2>1, <2>2, Avance DEF EtapesDeMutation
  <2>4. y.recu = "rien" /\ x.recu = "rien" /\ x.op = "correction" /\ x.voulu \in Donnees
    BY <1>1, <1>2, <1>4, <2>3 DEF EnMain, revoquer, Pour
  <2>5. Coherent(c) /\ RapportSur(rapport, c)
    BY <2>1 DEF Coherent, RapportSur
  <2>6. EnMain(x)
    BY <2>1, <2>3, <2>4, <2>5 DEF EnMain
  <2>7. AJour(x, c)
    BY <2>1, <2>3 DEF AJour
  <2> QED BY <1>1, <1>3, <2>1, <2>2, <2>3, <2>5, <2>6, <2>7, UneMutation
<1>5. CASE generer_rapports_confines(m)
  <2> DEFINE e == IF dossier.configure THEN "annoncer" ELSE "enregistrer"
  <2>1. /\ Avancer(m, e, y.copie) /\ UNCHANGED <<dossier, verrouImport, verrousPerdus>>
        /\ rapport' = y.voulu /\ y.etape = "generer"
    BY <1>2, <1>5 DEF generer_rapports_confines, Pour
  <2>2. PICK x \in Mutations : /\ mutations' = [mutations EXCEPT ![m] = x]
                               /\ x.etape = e /\ x.copie = y.copie
                               /\ \A a \in {"op", "voulu", "recu"} : x[a] = y[a]
    BY <1>1, <1>2, <2>1, Avance DEF EtapesDeMutation
  <2>3. y.recu # "prouve"
    BY <1>2, <2>1 DEF EnMain
  <2>4. EnMain(x) /\ (verrousPerdus = 0 => AJour(x, dossier) /\ RapportSur(rapport', dossier))
    BY <1>1, <1>2, <2>1, <2>2, <2>3 DEF EnMain, AJour, RapportSur
  <2> QED BY <1>1, <1>2, <1>3, <2>1, <2>2, <2>4, UneMutation
<1>6. CASE annoncer(m)
  <2> DEFINE c == [[y.copie EXCEPT !.publication = TRUE] EXCEPT !.attendu = y.voulu]
  <2>1. y.etape = "annoncer" /\ y.copie.generation = TRUE /\ y.copie.preuve = Sans
    BY <1>1, <1>2, <1>6 DEF annoncer, Pour, EnMain, Contenus
  <2>2. c \in Contenus /\ c.generation = TRUE /\ c.preuve = Sans /\ c.donnees = y.copie.donnees
    BY <1>2, <2>1 DEF Contenus
  <2>3. dossier' = c /\ Avancer(m, "envoyer", c) /\ UNCHANGED <<rapport, verrouImport, verrousPerdus>>
    BY <1>2, <1>6 DEF annoncer
  <2> HIDE DEF c
  <2>4. PICK x \in Mutations : /\ mutations' = [mutations EXCEPT ![m] = x]
                               /\ x.etape = "envoyer" /\ x.copie = c
                               /\ \A a \in {"op", "voulu", "recu"} : x[a] = y[a]
    BY <1>1, <2>2, <2>3, Avance DEF EtapesDeMutation
  <2>5. x.recu = "rien" /\ x.op = "correction" /\ x.voulu \in Donnees
    BY <1>1, <1>2, <2>1, <2>4 DEF EnMain
  <2>6. Coherent(c) /\ RapportSur(rapport, c)
    BY <2>2 DEF Coherent, RapportSur
  <2>7. EnMain(x)
    BY <2>2, <2>4, <2>5, <2>6 DEF EnMain
  <2>8. AJour(x, c)
    BY <2>2, <2>4 DEF AJour
  <2> QED BY <1>1, <1>3, <2>2, <2>3, <2>4, <2>6, <2>7, <2>8, UneMutation
<1>7. CASE correct_import(m)
  <2> DEFINE c0 == [[y.copie EXCEPT !.donnees = y.voulu] EXCEPT !.generation = FALSE]
             c1 == [c0 EXCEPT !.attendu = IF y.recu = "prouve" THEN Sans ELSE y.voulu]
             c2 == [c1 EXCEPT !.publication = Incertain(y.recu)]
             c == [c2 EXCEPT !.statut = IF dossier.configure THEN "needs_review" ELSE "completed"]
  <2>1. c0 \in Contenus /\ c0.donnees = y.voulu /\ c0.preuve = y.copie.preuve
    BY <1>2 DEF Contenus
  <2> HIDE DEF c0
  <2>2. /\ c1 \in Contenus /\ c1.donnees = y.voulu /\ c1.preuve = y.copie.preuve
        /\ c1.attendu = IF y.recu = "prouve" THEN Sans ELSE y.voulu
    BY <1>2, <2>1 DEF Contenus
  <2> HIDE DEF c1
  <2>3. Incertain(y.recu) \in BOOLEAN
    BY DEF Incertain
  <2>4. /\ c \in Contenus /\ c.donnees = y.voulu /\ c.preuve = y.copie.preuve
        /\ c.attendu = IF y.recu = "prouve" THEN Sans ELSE y.voulu
    BY <2>2, <2>3 DEF Contenus
  <2>5. y.etape = "enregistrer" /\ (y.recu = "prouve" => y.copie.preuve = y.voulu) /\ y.voulu # Sans
    BY <1>1, <1>2, <1>7, HypSans DEF correct_import, Pour, EnMain
  <2>6. dossier' = c /\ mutations' = [mutations EXCEPT ![m] = Sans] /\ UNCHANGED <<rapport, verrousPerdus>>
    BY <1>7 DEF correct_import, Conclure, c0, c1
  <2> HIDE DEF c
  <2>7. IdentiteDe(c) = c.donnees /\ c.donnees # Sans
    BY <2>4, <2>5 DEF IdentiteDe
  <2>8. Coherent(c) /\ RapportSur(rapport, c)
    BY <2>7 DEF Coherent, RapportSur
  <2> QED BY <1>1, <2>4, <2>6, <2>8, FinDeMutation
<1> QED BY <1>4, <1>5, <1>6, <1>7

(* The answer of the storage: the proof it gives is of what was sent.       *)
LEMMA Depose ==
  ASSUME InvCorrections, NEW m \in Operateurs, mutations[m] # Sans, mutations[m].etape = "envoyer",
         NEW r \in Resultats, NEW contenu \in Donnees \cup {Sans}, Deposer(m, r, contenu),
         mutations[m].op = "correction" => contenu = mutations[m].voulu,
         LET c == mutations[m].copie IN
           r = "prouve" /\ Coherent(c) /\ ~c.generation /\ (verrousPerdus = 0 \/ ~c.ancien)
             => contenu = c.donnees
  PROVE  InvCorrections'
<1> DEFINE y == mutations[m]
           p == IF r = "prouve" THEN contenu ELSE Sans
           x1 == [y EXCEPT !.etape = "enregistrer"]
           x2 == [x1 EXCEPT !.recu = r]
           x == [x2 EXCEPT !.copie = [@ EXCEPT !.preuve = p]]
           M1 == [mutations EXCEPT ![m].etape = "enregistrer"]
           M2 == [M1 EXCEPT ![m].recu = r]
           M3 == [M2 EXCEPT ![m].copie.preuve = p]
<1>1. /\ y \in Mutations /\ EnMain(y) /\ y.copie \in Contenus /\ m \in DOMAIN mutations
      /\ verrousPerdus = 0 => AJour(y, dossier)
  BY EnCours
<1>2. mutations' = M3 /\ UNCHANGED <<dossier, rapport, verrouImport, verrousPerdus>>
  BY Zenon DEF Deposer
<1>3. M1 = [mutations EXCEPT ![m] = x1] /\ M1[m] = x1
  BY <1>1
<1>4. x1 \in Mutations /\ x1.etape = "enregistrer" /\ \A a \in {"op", "voulu", "copie"} : x1[a] = y[a]
  BY <1>1 DEF Mutations, EtapesDeMutation
<1> HIDE DEF M1, x1
<1>5. M2 = [mutations EXCEPT ![m] = x2] /\ M2[m] = x2
  BY <1>1, <1>3, EncoreUneFois
<1>6. /\ x2 \in Mutations /\ x2.recu = r /\ x2.etape = "enregistrer"
      /\ \A a \in {"op", "voulu", "copie"} : x2[a] = y[a]
  BY <1>4 DEF Mutations
<1> HIDE DEF M2, x2
<1>7. M3 = [mutations EXCEPT ![m] = x]
  BY <1>1, <1>5, EncoreUneFois
<1> DEFINE c == [y.copie EXCEPT !.preuve = p]
<1>8. /\ c \in Contenus /\ c.preuve = p
      /\ \A a \in {"donnees", "generation", "attendu", "ancien"} : c[a] = y.copie[a]
  BY <1>1 DEF Contenus
<1>9. x = [x2 EXCEPT !.copie = c]
  BY <1>6
<1> HIDE DEF c
<1>10. /\ x \in Mutations /\ x.copie = c /\ x.recu = r /\ x.etape = "enregistrer"
       /\ x.op = y.op /\ x.voulu = y.voulu
  BY <1>6, <1>8, <1>9 DEF Mutations
<1> HIDE DEF x
<1>11. EnMain(x)
  <2>1. Coherent(c)
    BY <1>1, <1>8 DEF EnMain, Coherent, IdentiteDe
  <2> QED BY <1>1, <1>8, <1>10, <2>1 DEF EnMain
<1>12. verrousPerdus = 0 => AJour(x, dossier)
  BY <1>1, <1>8, <1>10 DEF AJour, EnMain
<1> QED BY <1>2, <1>7, <1>10, <1>11, <1>12, UneMutation DEF InvCorrections, TypeCorrections

LEMMA UneReprise ==
  ASSUME InvCorrections, NEW m \in Operateurs,
         \/ annoncer_reprise(m) \/ retry_upload_rapport(m)
         \/ \E r \in Resultats : envoyer_rapports(m, r) \/ renvoyer_rapport(m, r)
  PROVE  InvCorrections'
<1> DEFINE y == mutations[m]
<1>1. y # Sans
  BY DEF Pour, annoncer_reprise, retry_upload_rapport, envoyer_rapports, renvoyer_rapport
<1>2. /\ y \in Mutations /\ EnMain(y) /\ y.copie \in Contenus /\ Copie(m) = y.copie
      /\ verrousPerdus = 0 => AJour(y, dossier)
  BY <1>1, EnCours DEF Copie
<1>3. /\ dossier \in Contenus /\ rapport \in Donnees \cup {Sans} /\ Coherent(dossier)
      /\ verrousPerdus = 0 => RapportSur(rapport, dossier)
  BY DEF InvCorrections, TypeCorrections
<1>4. CASE annoncer_reprise(m)
  <2>0. y.op = "reprise" /\ y.etape = "lu"
    BY <1>4 DEF annoncer_reprise, Pour
  <2>1. CASE y.copie.preuve = Sans /\ dossier.configure
    <3> DEFINE c == [y.copie EXCEPT !.publication = TRUE]
    <3>1. /\ c \in Contenus /\ c.preuve = Sans
          /\ \A a \in {"donnees", "generation", "attendu", "ancien", "preuve"} : c[a] = y.copie[a]
      BY <1>2, <2>1 DEF Contenus
    <3>2. dossier' = c /\ Avancer(m, "envoyer", c) /\ UNCHANGED <<rapport, verrouImport, verrousPerdus>>
      BY <1>2, <1>4, <2>1 DEF annoncer_reprise
    <3> HIDE DEF c
    <3>3. PICK x \in Mutations : /\ mutations' = [mutations EXCEPT ![m] = x]
                                 /\ x.etape = "envoyer" /\ x.copie = c
                                 /\ \A a \in {"op", "voulu", "recu"} : x[a] = y[a]
      BY <1>1, <3>1, <3>2, Avance DEF EtapesDeMutation
    <3>4. Coherent(c) /\ (verrousPerdus = 0 => RapportSur(rapport, c))
      BY <1>2, <1>3, <2>0, <3>1 DEF EnMain, Coherent, RapportSur, IdentiteDe, AJour
    <3>5. EnMain(x) /\ AJour(x, c)
      BY <1>2, <2>0, <3>1, <3>3, <3>4 DEF EnMain, AJour
    <3> QED BY <1>1, <1>3, <3>1, <3>2, <3>3, <3>4, <3>5, UneMutation
  <2>2. CASE ~(y.copie.preuve = Sans /\ dossier.configure)
    <3>1. Avancer(m, "enregistrer", y.copie) /\ UNCHANGED <<dossier, rapport, verrouImport, verrousPerdus>>
      BY <1>2, <1>4, <2>2 DEF annoncer_reprise
    <3>2. PICK x \in Mutations : /\ mutations' = [mutations EXCEPT ![m] = x]
                                 /\ x.etape = "enregistrer" /\ x.copie = y.copie
                                 /\ \A a \in {"op", "voulu", "recu"} : x[a] = y[a]
      BY <1>1, <1>2, <3>1, Avance DEF EtapesDeMutation
    <3>3. EnMain(x) /\ (verrousPerdus = 0 => AJour(x, dossier))
      BY <1>2, <2>0, <3>2 DEF EnMain, AJour
    <3> QED BY <1>1, <1>3, <3>1, <3>2, <3>3, UneMutation
  <2> QED BY <2>1, <2>2
<1>5. CASE retry_upload_rapport(m)
  <2> DEFINE c1 == [y.copie EXCEPT !.publication = Incertain(y.recu)]
             c == [c1 EXCEPT !.statut = IF Incertain(y.recu) THEN "needs_review" ELSE @]
  <2>0. y.op = "reprise" /\ y.etape = "enregistrer" /\ ~y.copie.generation
    BY <1>2, <1>5 DEF retry_upload_rapport, Pour, EnMain
  <2>1. dossier' = c /\ mutations' = [mutations EXCEPT ![m] = Sans] /\ UNCHANGED <<rapport, verrousPerdus>>
    BY <1>5 DEF retry_upload_rapport, Conclure
  <2>2. Incertain(y.recu) \in BOOLEAN
    BY DEF Incertain
  <2>3. /\ c1 \in Contenus
        /\ \A a \in {"donnees", "generation", "attendu", "ancien", "preuve"} : c1[a] = y.copie[a]
    BY <1>2, <2>2 DEF Contenus
  <2> HIDE DEF c1
  <2>4. /\ c \in Contenus
        /\ \A a \in {"donnees", "generation", "attendu", "ancien", "preuve"} : c[a] = y.copie[a]
    BY <2>3 DEF Contenus
  <2> HIDE DEF c
  <2>5. Coherent(c) /\ (verrousPerdus = 0 => RapportSur(rapport, c))
    BY <1>2, <1>3, <2>0, <2>4 DEF EnMain, Coherent, RapportSur, IdentiteDe, AJour
  <2> QED BY <1>1, <2>1, <2>4, <2>5, FinDeMutation
<1>6. ASSUME NEW r \in Resultats, envoyer_rapports(m, r) PROVE InvCorrections'
  <2>1. /\ y.op = "correction" /\ y.etape = "envoyer" /\ Deposer(m, r, y.voulu)
        /\ y.voulu \in Donnees /\ y.copie.generation
    BY <1>2, <1>6 DEF envoyer_rapports, Pour, EnMain
  <2> QED BY <1>1, <2>1, Depose
<1>7. ASSUME NEW r \in Resultats, renvoyer_rapport(m, r) PROVE InvCorrections'
  <2>0. y.op = "reprise" /\ y.etape = "envoyer" /\ y.copie.preuve = Sans /\ ~y.copie.generation
    BY <1>2, <1>7 DEF renvoyer_rapport, Pour, EnMain
  <2>1. CASE Renvoyable(m)
    <3>1. Deposer(m, r, rapport) /\ rapport # Sans /\ y.copie.attendu \in {Sans, rapport}
      BY <1>2, <1>7, <2>1 DEF renvoyer_rapport, Renvoyable
    <3>2. Coherent(y.copie) /\ (verrousPerdus = 0 \/ ~y.copie.ancien) => rapport = y.copie.donnees
      <4> SUFFICES ASSUME Coherent(y.copie), verrousPerdus = 0 \/ ~y.copie.ancien
                   PROVE  rapport = y.copie.donnees
        OBVIOUS
      <4>1. \/ IdentiteDe(y.copie) = y.copie.donnees
               /\ y.copie.donnees # Sans
            \/ y.copie.ancien /\ IdentiteDe(y.copie) = Sans
        BY <2>0 DEF Coherent
      <4>2. CASE y.copie.attendu = rapport
        BY <3>1, <4>1, <4>2 DEF IdentiteDe
      <4>3. CASE y.copie.attendu = Sans
        <5>1. IdentiteDe(y.copie) = Sans
          BY <2>0, <4>3 DEF IdentiteDe
        <5>2. CASE verrousPerdus = 0
          BY <1>2, <1>3, <2>0, <3>1, <5>1, <5>2 DEF AJour, RapportSur
        <5>3. CASE ~y.copie.ancien
          BY <4>1, <5>1, <5>3
        <5> QED BY <5>2, <5>3
      <4> QED BY <3>1, <4>2, <4>3
    <3> QED BY <1>1, <1>3, <2>0, <3>1, <3>2, Depose
  <2>2. CASE ~Renvoyable(m)
    <3>1. Avancer(m, "enregistrer", y.copie) /\ UNCHANGED <<dossier, rapport, verrouImport, verrousPerdus>>
      BY <1>2, <1>7, <2>2 DEF renvoyer_rapport
    <3>2. PICK x \in Mutations : /\ mutations' = [mutations EXCEPT ![m] = x]
                                 /\ x.etape = "enregistrer" /\ x.copie = y.copie
                                 /\ \A a \in {"op", "voulu", "recu"} : x[a] = y[a]
      BY <1>1, <1>2, <3>1, Avance DEF EtapesDeMutation
    <3>3. EnMain(x) /\ (verrousPerdus = 0 => AJour(x, dossier))
      BY <1>2, <2>0, <3>2 DEF EnMain, AJour
    <3> QED BY <1>1, <1>3, <3>1, <3>2, <3>3, UneMutation
  <2> QED BY <2>1, <2>2
<1> QED BY <1>4, <1>5, <1>6, <1>7

LEMMA UnPasDeCorrections ==
  ASSUME InvCorrections, [NextCorrections]_varsCorrections
  PROVE  InvCorrections'
BY Verrous, UneCorrection, UneReprise DEF NextCorrections

(* The report served is that of the data recorded, for any requests, data   *)
(* and losses of the lock: each payload that is written names the report of *)
(* its own data, and one that names none is protected by the lock.          *)
THEOREM RapportDesDonneesProuve == Spec => []RapportDesDonnees
<1>1. Init => InvCorrections
  BY DebutCorrections DEF Init
<1>2. InvCorrections /\ [Next]_varsTaches => InvCorrections'
  <2>1. [Next]_varsTaches => [NextCorrections]_varsCorrections
    BY DEF Next, varsTaches
  <2> QED BY <2>1, UnPasDeCorrections
<1>3. InvCorrections => RapportDesDonnees
  <2> SUFFICES ASSUME InvCorrections, verrousPerdus = 0 \/ ~dossier.ancien
               PROVE  get_import_artifact \in {Sans, dossier.donnees}
    BY DEF RapportDesDonnees
  <2>1. Identite = IdentiteDe(dossier)
    BY DEF Identite, IdentiteDe
  <2>2. CASE dossier.generation
    BY <2>2 DEF get_import_artifact
  <2>3. CASE ~dossier.generation /\ IdentiteDe(dossier) = dossier.donnees /\ dossier.donnees # Sans
    BY <2>1, <2>3 DEF get_import_artifact
  <2>4. CASE ~dossier.generation /\ IdentiteDe(dossier) = Sans /\ dossier.ancien
    <3>1. rapport \in {Sans, dossier.donnees}
      BY <2>4 DEF InvCorrections, RapportSur
    <3>2. dossier.preuve \in {Sans}
      BY <2>4 DEF IdentiteDe
    <3> QED BY <3>1, <3>2 DEF get_import_artifact
  <2>5. dossier.generation \in BOOLEAN
    BY DEF InvCorrections, TypeCorrections, Contenus
  <2> QED BY <2>2, <2>3, <2>4, <2>5 DEF InvCorrections, Coherent
<1> QED BY <1>1, <1>2, <1>3, PTL DEF Spec

ParUneCorrection ==
  dossier'.donnees # dossier.donnees /\ verrousPerdus' = 0 =>
    \E m \in Operateurs : Pour(m, "correction", "enregistrer") /\ mutations'[m] = Sans
                          /\ dossier'.donnees = mutations[m].voulu

(* The data change at the end of a correction alone, as long as no lock is  *)
(* lost: what a request writes back is what it read.                        *)
THEOREM CorrectionGardeeProuvee == Spec => CorrectionGardee
<1>1. Init => InvCorrections
  BY DebutCorrections DEF Init
<1>2. InvCorrections /\ [Next]_varsTaches => InvCorrections' /\ [ParUneCorrection]_varsCorrections
  <2> SUFFICES ASSUME InvCorrections, [Next]_varsTaches
               PROVE  InvCorrections' /\ [ParUneCorrection]_varsCorrections
    OBVIOUS
  <2>1. [NextCorrections]_varsCorrections
    BY DEF Next, varsTaches
  <2>2. InvCorrections'
    BY <2>1, UnPasDeCorrections
  <2>3. ASSUME dossier'.donnees # dossier.donnees, verrousPerdus' = 0 PROVE ParUneCorrection
    <3>1. verrousPerdus = 0
      <4>1. \/ perdre_verrou \/ UNCHANGED varsCorrections
            \/ \E m \in Operateurs :
                 \/ \E op, v : verrou_mutation_import(m, op, v)
                 \/ interrompre(m)
                 \/ revoquer(m) \/ generer_rapports_confines(m) \/ annoncer(m) \/ correct_import(m)
                 \/ annoncer_reprise(m) \/ retry_upload_rapport(m)
                 \/ \E r : envoyer_rapports(m, r) \/ renvoyer_rapport(m, r)
        BY <2>1 DEF NextCorrections
      <4>2. verrousPerdus' = verrousPerdus + 1 \/ verrousPerdus' = verrousPerdus
        BY <4>1, Zenon DEF perdre_verrou, varsCorrections, verrou_mutation_import, interrompre,
             revoquer, generer_rapports_confines, annoncer, correct_import, Conclure, annoncer_reprise,
             retry_upload_rapport, envoyer_rapports, renvoyer_rapport, Deposer
      <4>3. verrousPerdus \in Nat
        BY DEF InvCorrections, TypeCorrections
      <4> QED BY <2>3, <4>2, <4>3
    <3>2. PICK m \in Operateurs :
            \/ revoquer(m) \/ annoncer(m) \/ correct_import(m)
            \/ annoncer_reprise(m) \/ retry_upload_rapport(m)
      BY <2>1, <2>3 DEF NextCorrections, varsCorrections, perdre_verrou, verrou_mutation_import, interrompre,
           generer_rapports_confines, envoyer_rapports, renvoyer_rapport, Deposer
    <3>3. /\ mutations[m] # Sans /\ mutations[m].copie \in Contenus
          /\ mutations[m].copie.donnees = dossier.donnees /\ Copie(m) = mutations[m].copie
      BY <3>1, <3>2, EnCours DEF Pour, revoquer, annoncer, correct_import, annoncer_reprise,
                                 retry_upload_rapport, AJour, Copie
    <3>4. CASE correct_import(m)
      BY <3>3, <3>4, EnCours DEF correct_import, Conclure, Contenus, ParUneCorrection
    <3>5. CASE revoquer(m)
      <4>1. dossier'.donnees = Copie(m).donnees
        BY <3>3, <3>5 DEF revoquer, Contenus
      <4> QED BY <2>3, <3>3, <4>1
    <3>6. CASE annoncer(m)
      <4>1. dossier'.donnees = Copie(m).donnees
        BY <3>3, <3>6 DEF annoncer, Contenus
      <4> QED BY <2>3, <3>3, <4>1
    <3>7. CASE annoncer_reprise(m)
      <4>1. dossier'.donnees = Copie(m).donnees \/ UNCHANGED dossier
        BY <3>3, <3>7 DEF annoncer_reprise, Contenus
      <4> QED BY <2>3, <3>3, <4>1
    <3>8. CASE retry_upload_rapport(m)
      <4>1. dossier'.donnees = Copie(m).donnees
        BY <3>3, <3>8 DEF retry_upload_rapport, Conclure, Contenus
      <4> QED BY <2>3, <3>3, <4>1
    <3> QED BY <3>2, <3>4, <3>5, <3>6, <3>7, <3>8
  <2> QED BY <2>2, <2>3 DEF ParUneCorrection
<1>3. Spec => [][ParUneCorrection]_varsCorrections
  BY <1>1, <1>2, PTL DEF Spec
<1> QED BY <1>3 DEF CorrectionGardee, ParUneCorrection

----------------------------------------------------------------------------
(* The pages of a file.                                                     *)

LignesLues == {Pret, Fin} \cup {Reponse(p, b) : p \in Nat, b \in BOOLEAN}
EsclavesDuMoteur ==
  [etat : {"charge", "libre", "mort"}, entree : Seq(Nat), sortie : Seq(LignesLues), lu : BOOLEAN]

TypeMoteur ==
  /\ esclaves \in Seq(EsclavesDuMoteur)
  /\ lignes \in Seq(LignesLues)
  /\ moteur \in [processus : Nat, mort : BOOLEAN, page : Nat,
                 etape : {"page", "amorcage", "reponse", "fermeture"}, delais : SUBSET {"amorcage", "reponse"}]
  /\ resultats \in [PagesDuFichier -> [statut : {"ocerisee", "echec", "attente", "natif"}, texte : Nat]]

(* The line that the parent waits for from the first slave.                 *)
Attendue(l) ==
  \/ moteur.etape = "amorcage" /\ l.genre = "pret"
  \/ moteur.etape = "reponse" /\ l.genre = "reponse" /\ l.page = moteur.page

(* While the first slave is the current one, at most one line is on its way *)
(* from it, the one that is waited for, and then its end.                   *)
PremierTenu(s) ==
  /\ s.etat = "charge" => moteur.etape = "amorcage" /\ s.sortie = <<>> /\ lignes = <<>> /\ ~s.lu
  /\ s.entree # <<>> =>
       /\ moteur.etape = "reponse" /\ s.entree = <<moteur.page>>
       /\ s.sortie = <<>> /\ lignes = <<>> /\ s.etat = "libre"
  /\ s.lu => s.etat = "mort"
  /\ \/ s.sortie = <<>> /\ lignes = <<>> /\ (s.lu => moteur.mort)
     \/ ~s.lu /\ lignes = <<>> /\ Len(s.sortie) = 1 /\ Attendue(s.sortie[1])
     \/ ~s.lu /\ s.sortie = <<>> /\ Len(lignes) = 1 /\ Attendue(lignes[1])
     \/ s.lu /\ s.sortie = <<>> /\ Len(lignes) = 1 /\ lignes[1].genre = "fin"
     \/ /\ s.lu /\ s.sortie = <<>> /\ Len(lignes) = 2
        /\ Attendue(lignes[1]) /\ lignes[2].genre = "fin"

(* Once it was given up, its end comes before any other slave says that it  *)
(* is ready; and the engine is given up with that end.                      *)
Abandon ==
  /\ esclaves[1].etat # "charge"
  /\ \A i \in DOMAIN esclaves[1].sortie : esclaves[1].sortie[i].genre # "pret"
  /\ esclaves[1].lu => \E j \in DOMAIN lignes : lignes[j].genre = "fin"
  /\ \A i \in DOMAIN lignes : lignes[i].genre = "pret" => \E j \in 1..(i - 1) : lignes[j].genre = "fin"
  /\ \A g \in DOMAIN esclaves : \A i \in DOMAIN esclaves[g].sortie :
       esclaves[g].sortie[i].genre = "pret" => esclaves[1].lu

(* Only the first slave gets as far as a page.                              *)
SeulLePremier ==
  /\ Courant # 0 => Courant = Len(esclaves)
  /\ Courant = 0 => moteur.etape \in {"page", "fermeture"}
  /\ esclaves = <<>> => moteur.etape = "page" /\ lignes = <<>> /\ Courant = 0
  /\ Courant = 1 => moteur.etape \in {"page", "amorcage", "reponse"} /\ PremierTenu(esclaves[1])
  /\ Courant > 1 => moteur.etape = "amorcage" /\ ~moteur.mort
  /\ Courant # 1 /\ ~moteur.mort /\ esclaves # <<>> => Abandon
  /\ \A p \in PagesDuFichier : resultats[p].statut = "ocerisee" => resultats[p].texte = p

Designe ==
  /\ Courant \in 0..Len(esclaves)
  /\ moteur.etape \in {"amorcage", "reponse"} => Courant # 0

InvMoteur == TypeMoteur /\ Designe /\ ("amorcage" \notin moteur.delais => SeulLePremier)

LEMMA GenreDesLignes ==
  /\ Pret \in LignesLues /\ Fin \in LignesLues /\ Pret.genre = "pret" /\ Fin.genre = "fin"
  /\ \A p \in Nat, b \in BOOLEAN : /\ Reponse(p, b) \in LignesLues
                                   /\ Reponse(p, b).genre = "reponse" /\ Reponse(p, b).page = p
  /\ \A l \in LignesLues : /\ l = Pret <=> l.genre = "pret"
                           /\ l = Fin <=> l.genre = "fin"
                           /\ l.genre = "reponse" => l.page \in Nat
<1>1. Pret.genre = "pret" /\ Fin.genre = "fin"
  BY DEF Pret, Fin
<1>2. \A p \in Nat, b \in BOOLEAN : Reponse(p, b).genre = "reponse" /\ Reponse(p, b).page = p
  BY DEF Reponse
<1>3. ASSUME NEW l \in LignesLues
      PROVE  /\ l = Pret <=> l.genre = "pret"
             /\ l = Fin <=> l.genre = "fin"
             /\ l.genre = "reponse" => l.page \in Nat
  <2>1. CASE l = Pret
    BY <1>1, <2>1
  <2>2. CASE l = Fin
    BY <1>1, <2>2
  <2>3. CASE \E p \in Nat, b \in BOOLEAN : l = Reponse(p, b)
    BY <1>1, <1>2, <2>3
  <2> QED BY <2>1, <2>2, <2>3 DEF LignesLues
<1> QED BY <1>1, <1>2, <1>3 DEF LignesLues

LEMMA EnFile ==
  ASSUME NEW S, NEW q \in Seq(S)
  PROVE  /\ \A e \in S : /\ Append(q, e) \in Seq(S) /\ Len(Append(q, e)) = Len(q) + 1
                          /\ Append(q, e)[Len(q) + 1] = e
                          /\ \A i \in 1..Len(q) : Append(q, e)[i] = q[i]
         /\ q # <<>> => /\ Head(q) \in S /\ Tail(q) \in Seq(S) /\ Head(q) = q[1]
                        /\ Len(q) \in Nat \ {0} /\ Len(Tail(q)) = Len(q) - 1
                        /\ \A i \in 1..(Len(q) - 1) : Tail(q)[i] = q[i + 1]
         /\ DOMAIN q = 1..Len(q) /\ (q = <<>> <=> Len(q) = 0)
OBVIOUS

LEMMA DebutMoteur == InitMoteur => InvMoteur
<1> SUFFICES ASSUME InitMoteur PROVE InvMoteur
  OBVIOUS
<1>1. TypeMoteur
  BY DEF InitMoteur, TypeMoteur, Attente
<1> QED BY <1>1 DEF InitMoteur, InvMoteur, SeulLePremier, Attente, Courant, Designe

(* Slave g becomes x, and a line it had may come to the queue.              *)
LEMMA UnEsclaveDePlus ==
  ASSUME TypeMoteur, NEW g \in DOMAIN esclaves, NEW x \in EsclavesDuMoteur,
         esclaves' = [esclaves EXCEPT ![g] = x]
  PROVE  /\ esclaves' \in Seq(EsclavesDuMoteur) /\ DOMAIN esclaves' = DOMAIN esclaves
         /\ Len(esclaves') = Len(esclaves) /\ esclaves'[g] = x /\ esclaves # <<>> /\ esclaves' # <<>>
         /\ \A h \in DOMAIN esclaves \ {g} : esclaves'[h] = esclaves[h]
         /\ 1 \in DOMAIN esclaves /\ g \in Nat
BY DEF TypeMoteur

(* What a slave does by itself, the parent unchanged.                       *)
Gestes(g, x) ==
  \/ /\ esclaves[g].etat = "charge" /\ \A h \in 1..(g - 1) : esclaves[h].lu
     /\ x.etat = "libre" /\ x.sortie = Append(esclaves[g].sortie, Pret)
     /\ x.entree = esclaves[g].entree /\ x.lu = esclaves[g].lu /\ lignes' = lignes
  \/ /\ esclaves[g].etat = "libre" /\ esclaves[g].entree # <<>>
     /\ x.entree = Tail(esclaves[g].entree) /\ x.etat = "libre" /\ x.lu = esclaves[g].lu
     /\ \E b \in BOOLEAN : x.sortie = Append(esclaves[g].sortie, Reponse(Head(esclaves[g].entree), b))
     /\ lignes' = lignes
  \/ /\ esclaves[g].etat # "mort" /\ x.etat = "mort" /\ x.entree = <<>>
     /\ x.sortie = esclaves[g].sortie /\ x.lu = esclaves[g].lu /\ lignes' = lignes
  \/ /\ esclaves[g].sortie # <<>> /\ lignes' = Append(lignes, Head(esclaves[g].sortie))
     /\ x.sortie = Tail(esclaves[g].sortie)
     /\ x.etat = esclaves[g].etat /\ x.entree = esclaves[g].entree /\ x.lu = esclaves[g].lu
  \/ /\ esclaves[g].etat = "mort" /\ esclaves[g].sortie = <<>> /\ ~esclaves[g].lu
     /\ lignes' = Append(lignes, Fin) /\ x.lu = TRUE
     /\ x.etat = "mort" /\ x.sortie = <<>> /\ x.entree = esclaves[g].entree

LEMMA UneReponse ==
  ASSUME NEW g \in DOMAIN esclaves, NEW b \in BOOLEAN, repondre(g, b)
  PROVE  LET E1 == [esclaves EXCEPT ![g].entree = Tail(esclaves[g].entree)] IN
         esclaves' =
           [E1 EXCEPT ![g].sortie = Append(esclaves[g].sortie, Reponse(Head(esclaves[g].entree), b))]
BY DEF repondre

LEMMA UnGeste ==
  ASSUME TypeMoteur, NEW g \in DOMAIN esclaves,
         amorcer(g) \/ finir(g) \/ lire(g) \/ (\E b \in BOOLEAN : repondre(g, b))
  PROVE  \E x \in EsclavesDuMoteur :
           esclaves' = [esclaves EXCEPT ![g] = x] /\ Gestes(g, x) /\ UNCHANGED <<moteur, resultats>>
<1> DEFINE y == esclaves[g]
<1>1. /\ y \in EsclavesDuMoteur /\ y.sortie \in Seq(LignesLues) /\ y.entree \in Seq(Nat)
      /\ Append(y.sortie, Pret) \in Seq(LignesLues)
      /\ y.sortie # <<>> => Tail(y.sortie) \in Seq(LignesLues)
      /\ y.entree # <<>> => Tail(y.entree) \in Seq(Nat) /\ Head(y.entree) \in Nat
  <2>1. y \in EsclavesDuMoteur
    BY DEF TypeMoteur
  <2>2. y.sortie \in Seq(LignesLues) /\ y.entree \in Seq(Nat)
    BY <2>1 DEF EsclavesDuMoteur
  <2> QED BY <2>1, <2>2, EnFile, GenreDesLignes
<1>2. CASE amorcer(g)
  <2> DEFINE x1 == [y EXCEPT !.etat = "libre"]
             x == [x1 EXCEPT !.sortie = Append(y.sortie, Pret)]
             E1 == [esclaves EXCEPT ![g].etat = "libre"]
             E2 == [E1 EXCEPT ![g].sortie = Append(@, Pret)]
  <2>1. /\ esclaves' = E2 /\ y.etat = "charge" /\ (\A h \in 1..(g - 1) : esclaves[h].lu)
        /\ UNCHANGED <<lignes, moteur, resultats>>
    BY <1>2, Zenon DEF amorcer
  <2>2. E1 = [esclaves EXCEPT ![g] = x1] /\ E1[g] = x1
    OBVIOUS
  <2>3. /\ x1 \in EsclavesDuMoteur /\ x1.etat = "libre" /\ x1.sortie = y.sortie
        /\ x1.entree = y.entree /\ x1.lu = y.lu
    BY <1>1 DEF EsclavesDuMoteur
  <2> HIDE DEF E1, x1
  <2>4. E2 = [esclaves EXCEPT ![g] = x]
    <3>1. E2 = [E1 EXCEPT ![g] = x]
      BY <2>2, <2>3
    <3> QED BY <2>2, <3>1, EncoreUneFois
  <2> DEFINE q == Append(y.sortie, Pret)
  <2>5. /\ x \in EsclavesDuMoteur /\ x.etat = "libre" /\ x.sortie = q
        /\ x.entree = y.entree /\ x.lu = y.lu
    <3>1. q \in Seq(LignesLues)
      BY <1>1
    <3>2. x = [x1 EXCEPT !.sortie = q]
      OBVIOUS
    <3> HIDE DEF q, x
    <3> QED BY <2>3, <3>1, <3>2 DEF EsclavesDuMoteur
  <2> HIDE DEF x
  <2> QED BY <2>1, <2>4, <2>5 DEF Gestes
<1>3. CASE finir(g)
  <2> DEFINE x1 == [y EXCEPT !.etat = "mort"]
             x == [x1 EXCEPT !.entree = <<>>]
             E1 == [esclaves EXCEPT ![g].etat = "mort"]
             E2 == [E1 EXCEPT ![g].entree = <<>>]
  <2>1. esclaves' = E2 /\ y.etat # "mort" /\ UNCHANGED <<lignes, moteur, resultats>>
    BY <1>3 DEF finir, Vivant
  <2>2. E1 = [esclaves EXCEPT ![g] = x1] /\ E1[g] = x1
    OBVIOUS
  <2>3. /\ x1 \in EsclavesDuMoteur /\ x1.etat = "mort" /\ x1.sortie = y.sortie /\ x1.lu = y.lu
    BY <1>1 DEF EsclavesDuMoteur
  <2> HIDE DEF E1, x1
  <2>4. E2 = [esclaves EXCEPT ![g] = x]
    BY <2>2, EncoreUneFois
  <2>5. /\ x \in EsclavesDuMoteur /\ x.etat = "mort" /\ x.sortie = y.sortie
        /\ x.entree = <<>> /\ x.lu = y.lu
    <3>1. <<>> \in Seq(Nat)
      OBVIOUS
    <3> QED BY <2>3, <3>1 DEF EsclavesDuMoteur
  <2> HIDE DEF x
  <2> QED BY <2>1, <2>4, <2>5 DEF Gestes
<1>4. CASE lire(g)
  <2>1. CASE y.sortie # <<>> /\ esclaves' = [esclaves EXCEPT ![g].sortie = Tail(@)]
             /\ lignes' = Append(lignes, Head(y.sortie))
    <3> DEFINE q == Tail(y.sortie)
               x == [y EXCEPT !.sortie = q]
    <3>1. esclaves' = [esclaves EXCEPT ![g] = x]
      BY <2>1
    <3>2. /\ x \in EsclavesDuMoteur /\ x.etat = y.etat /\ x.sortie = q
          /\ x.entree = y.entree /\ x.lu = y.lu
      <4>1. q \in Seq(LignesLues)
        BY <1>1, <2>1
      <4> HIDE DEF q
      <4> QED BY <1>1, <4>1 DEF EsclavesDuMoteur
    <3> HIDE DEF x
    <3> QED BY <1>4, <2>1, <3>1, <3>2 DEF Gestes, lire
  <2>2. CASE y.etat = "mort" /\ y.sortie = <<>> /\ ~y.lu /\ lignes' = Append(lignes, Fin)
             /\ esclaves' = [esclaves EXCEPT ![g].lu = TRUE]
    <3> DEFINE x == [y EXCEPT !.lu = TRUE]
    <3>1. esclaves' = [esclaves EXCEPT ![g] = x]
      BY <2>2
    <3>2. /\ x \in EsclavesDuMoteur /\ x.etat = y.etat /\ x.sortie = y.sortie
          /\ x.entree = y.entree /\ x.lu = TRUE
      BY <1>1, <2>2 DEF EsclavesDuMoteur
    <3> HIDE DEF x
    <3> QED BY <1>4, <2>2, <3>1, <3>2 DEF Gestes, lire
  <2> QED BY <1>4, <2>1, <2>2 DEF lire
<1>5. ASSUME NEW b \in BOOLEAN, repondre(g, b)
      PROVE  \E x \in EsclavesDuMoteur :
               esclaves' = [esclaves EXCEPT ![g] = x] /\ Gestes(g, x) /\ UNCHANGED <<moteur, resultats>>
  <2> DEFINE x1 == [y EXCEPT !.entree = Tail(y.entree)]
             x == [x1 EXCEPT !.sortie = Append(y.sortie, Reponse(Head(y.entree), b))]
             E1 == [esclaves EXCEPT ![g].entree = Tail(y.entree)]
             E2 == [E1 EXCEPT ![g].sortie = Append(y.sortie, Reponse(Head(y.entree), b))]
  <2>0. esclaves' = E2
    BY <1>5, UneReponse
  <2>1. esclaves' = E2 /\ y.etat = "libre" /\ y.entree # <<>> /\ UNCHANGED <<lignes, moteur, resultats>>
    BY <1>5, <2>0 DEF repondre
  <2>2. E1 = [esclaves EXCEPT ![g] = x1] /\ E1[g] = x1
    OBVIOUS
  <2> DEFINE t == Tail(y.entree)
  <2>3. /\ x1 \in EsclavesDuMoteur /\ x1.etat = "libre" /\ x1.sortie = y.sortie
        /\ x1.entree = t /\ x1.lu = y.lu
    <3>1. t \in Seq(Nat)
      BY <1>1, <2>1
    <3>2. x1 = [y EXCEPT !.entree = t]
      OBVIOUS
    <3> HIDE DEF t, x1, y
    <3> QED BY <1>1, <2>1, <3>1, <3>2 DEF EsclavesDuMoteur
  <2> HIDE DEF E1, x1
  <2>4. E2 = [esclaves EXCEPT ![g] = x]
    <3>1. E2 = [E1 EXCEPT ![g] = x]
      BY <2>2, <2>3
    <3> QED BY <2>2, <3>1, EncoreUneFois
  <2> DEFINE q == Append(y.sortie, Reponse(Head(y.entree), b))
  <2>6. q \in Seq(LignesLues)
    BY <1>1, <2>1, GenreDesLignes, EnFile
  <2>7. /\ x \in EsclavesDuMoteur /\ x.etat = "libre" /\ x.sortie = q
        /\ x.entree = t /\ x.lu = y.lu
    <3>1. x = [x1 EXCEPT !.sortie = q]
      OBVIOUS
    <3> HIDE DEF q, t, x
    <3> QED BY <2>3, <2>6, <3>1 DEF EsclavesDuMoteur
  <2> HIDE DEF x
  <2> QED BY <2>1, <2>4, <2>7 DEF Gestes
<1> QED BY <1>2, <1>3, <1>4, <1>5

LEMMA LesEsclaves ==
  ASSUME InvMoteur, NEW g \in DOMAIN esclaves,
         amorcer(g) \/ finir(g) \/ lire(g) \/ (\E b \in BOOLEAN : repondre(g, b))
  PROVE  InvMoteur'
<1> DEFINE y == esclaves[g]
<1>1. TypeMoteur /\ y \in EsclavesDuMoteur
  BY DEF InvMoteur, TypeMoteur
<1>2. PICK x \in EsclavesDuMoteur : /\ esclaves' = [esclaves EXCEPT ![g] = x]
                                    /\ Gestes(g, x) /\ UNCHANGED <<moteur, resultats>>
  BY <1>1, UnGeste
<1>3. /\ esclaves' \in Seq(EsclavesDuMoteur) /\ DOMAIN esclaves' = DOMAIN esclaves
      /\ Len(esclaves') = Len(esclaves) /\ esclaves'[g] = x /\ esclaves # <<>> /\ esclaves' # <<>>
      /\ \A h \in DOMAIN esclaves \ {g} : esclaves'[h] = esclaves[h]
      /\ 1 \in DOMAIN esclaves /\ g \in Nat
  BY <1>1, <1>2, UnEsclaveDePlus
<1>4. /\ lignes' \in Seq(LignesLues) /\ lignes \in Seq(LignesLues)
      /\ y.sortie \in Seq(LignesLues) /\ y.entree \in Seq(Nat)
  <2>1. /\ lignes \in Seq(LignesLues) /\ y.sortie \in Seq(LignesLues) /\ y.entree \in Seq(Nat)
    BY <1>1 DEF TypeMoteur, EsclavesDuMoteur
  <2>2. y.sortie # <<>> => Head(y.sortie) \in LignesLues
    BY <2>1, EnFile
  <2>3. \A l \in LignesLues : Append(lignes, l) \in Seq(LignesLues)
    BY <2>1, EnFile
  <2> QED BY <1>2, <2>1, <2>2, <2>3, GenreDesLignes DEF Gestes
<1>5. TypeMoteur'
  BY <1>1, <1>2, <1>3, <1>4 DEF TypeMoteur
<1>6. ASSUME SeulLePremier, Courant = 1 PROVE PremierTenu(x)'
  <2>1. Len(esclaves) = 1
    BY <1>1, <1>6 DEF SeulLePremier
  <2>2. g = 1
    BY <1>1, <2>1 DEF TypeMoteur
  <2>3. PremierTenu(y)
    BY <1>6, <2>2 DEF SeulLePremier
  <2>4. \A l : Attendue(l)' <=> Attendue(l)
    BY <1>2 DEF Attendue
  <2>5. moteur' = moteur
    BY <1>2
  <2> HIDE DEF y
  <2>6. CASE y.etat = "charge" /\ x.etat = "libre" /\ lignes' = lignes /\ x.entree = y.entree
             /\ x.lu = y.lu /\ x.sortie = Append(y.sortie, Pret)
    BY <1>4, <2>3, <2>4, <2>5, <2>6, EnFile, GenreDesLignes DEF PremierTenu, Attendue
  <2>7. CASE /\ y.etat = "libre" /\ y.entree # <<>> /\ lignes' = lignes
             /\ x.entree = Tail(y.entree) /\ x.etat = "libre" /\ x.lu = y.lu
             /\ \E b \in BOOLEAN : x.sortie = Append(y.sortie, Reponse(Head(y.entree), b))
    <3>1. moteur.etape = "reponse" /\ y.entree = <<moteur.page>> /\ y.sortie = <<>> /\ lignes = <<>>
          /\ ~y.lu /\ moteur.page \in Nat
      BY <1>1, <2>3, <2>7 DEF PremierTenu, TypeMoteur
    <3>2. PICK b \in BOOLEAN : x.sortie = Append(<<>>, Reponse(moteur.page, b))
      BY <2>7, <3>1
    <3>3. /\ Len(x.sortie) = 1 /\ x.sortie[1] = Reponse(moteur.page, b) /\ x.entree = <<>>
          /\ ~x.lu /\ lignes' = <<>>
      BY <2>7, <3>1, <3>2
    <3>4. Attendue(Reponse(moteur.page, b))
      BY <3>1, GenreDesLignes DEF Attendue
    <3> QED BY <2>4, <2>5, <2>7, <3>1, <3>3, <3>4 DEF PremierTenu
  <2>8. CASE /\ y.etat # "mort" /\ x.etat = "mort" /\ x.entree = <<>>
             /\ x.sortie = y.sortie /\ x.lu = y.lu /\ lignes' = lignes
    BY <2>3, <2>4, <2>5, <2>8 DEF PremierTenu
  <2>9. CASE /\ y.sortie # <<>> /\ lignes' = Append(lignes, Head(y.sortie)) /\ x.sortie = Tail(y.sortie)
             /\ x.etat = y.etat /\ x.entree = y.entree /\ x.lu = y.lu
    <3>1. lignes = <<>> /\ Len(y.sortie) = 1 /\ Attendue(y.sortie[1]) /\ ~y.lu /\ y.entree = <<>>
          /\ y.etat # "charge"
      BY <2>3, <2>9 DEF PremierTenu
    <3>2. Head(y.sortie) = y.sortie[1] /\ Head(y.sortie) \in LignesLues /\ Tail(y.sortie) = <<>>
      <4>1. Head(y.sortie) = y.sortie[1] /\ Head(y.sortie) \in LignesLues
            /\ Tail(y.sortie) \in Seq(LignesLues) /\ Len(Tail(y.sortie)) = 0
        BY <1>4, <2>9, <3>1, EnFile
      <4> QED BY <4>1, EnFile
    <3>3. x.sortie = <<>> /\ Len(lignes') = 1 /\ lignes'[1] = y.sortie[1]
      BY <1>4, <2>9, <3>1, <3>2, EnFile
    <3> QED BY <2>4, <2>5, <2>9, <3>1, <3>3 DEF PremierTenu
  <2>10. CASE /\ y.etat = "mort" /\ y.sortie = <<>> /\ ~y.lu
              /\ lignes' = Append(lignes, Fin) /\ x.lu = TRUE
              /\ x.etat = "mort" /\ x.sortie = <<>> /\ x.entree = y.entree
    <3>1. y.entree = <<>> /\ (lignes = <<>> \/ (Len(lignes) = 1 /\ Attendue(lignes[1])))
      BY <2>3, <2>10 DEF PremierTenu
    <3>2. \/ Len(lignes') = 1 /\ lignes'[1] = Fin
          \/ Len(lignes') = 2 /\ Attendue(lignes'[1]) /\ lignes'[2] = Fin
      BY <1>4, <2>10, <3>1, GenreDesLignes
    <3> QED BY <2>4, <2>5, <2>10, <3>1, <3>2, GenreDesLignes DEF PremierTenu
  <2> QED BY <1>2, <2>6, <2>7, <2>8, <2>9, <2>10 DEF Gestes, y
<1>7. ASSUME Abandon PROVE Abandon'
  <2> DEFINE z == esclaves[1]
             w == esclaves'[1]
  <2>0. \A i \in DOMAIN x.sortie : x.sortie[i].genre = "pret" =>
          \/ \E k \in DOMAIN y.sortie : y.sortie[k].genre = "pret"
          \/ y.etat = "charge" /\ \A h \in 1..(g - 1) : esclaves[h].lu
    <3>1. x.sortie \in Seq(LignesLues)
      BY DEF EsclavesDuMoteur
    <3>2. CASE x.sortie = y.sortie
      BY <3>2
    <3>3. CASE y.etat = "charge" /\ \A h \in 1..(g - 1) : esclaves[h].lu
      BY <3>3
    <3>4. ASSUME y.entree # <<>>, NEW b \in BOOLEAN,
                 x.sortie = Append(y.sortie, Reponse(Head(y.entree), b)),
                 NEW i \in DOMAIN x.sortie, x.sortie[i].genre = "pret"
          PROVE  \E k \in DOMAIN y.sortie : y.sortie[k].genre = "pret"
      <4>1. Head(y.entree) \in Nat
        BY <1>4, <3>4, EnFile
      <4> DEFINE l == Reponse(Head(y.entree), b)
      <4>2. l \in LignesLues /\ l.genre = "reponse"
        BY <4>1, GenreDesLignes
      <4> HIDE DEF l
      <4>3. i \in 1..(Len(y.sortie) + 1) /\ DOMAIN y.sortie = 1..Len(y.sortie) /\ Len(y.sortie) \in Nat
        BY <1>4, <3>4, <4>2, EnFile DEF l
      <4>4. i # Len(y.sortie) + 1
        BY <1>4, <3>4, <4>2, EnFile DEF l
      <4>5. i \in 1..Len(y.sortie) /\ x.sortie[i] = y.sortie[i]
        BY <1>4, <3>4, <4>2, <4>3, <4>4, EnFile DEF l
      <4> QED BY <3>4, <4>3, <4>5
    <3>5. ASSUME y.sortie # <<>>, x.sortie = Tail(y.sortie), NEW i \in DOMAIN x.sortie
          PROVE  i + 1 \in DOMAIN y.sortie /\ x.sortie[i] = y.sortie[i + 1]
      BY <1>4, <3>5, EnFile
    <3> QED BY <1>2, <3>2, <3>3, <3>4, <3>5 DEF Gestes
  <2>1. \/ lignes' = lignes /\ (~y.lu => ~x.lu)
        \/ lignes' = Append(lignes, Fin)
        \/ y.sortie # <<>> /\ lignes' = Append(lignes, y.sortie[1]) /\ y.sortie[1] \in LignesLues
           /\ 1 \in DOMAIN y.sortie /\ (~y.lu => ~x.lu)
    BY <1>2, <1>4, EnFile DEF Gestes
  <2>2. /\ \A i \in DOMAIN lignes : i \in DOMAIN lignes' /\ lignes'[i] = lignes[i]
        /\ \A i \in DOMAIN lignes' \ DOMAIN lignes :
             /\ i = Len(lignes) + 1
             /\ lignes'[i].genre = "pret" => \E k \in DOMAIN y.sortie : y.sortie[k].genre = "pret"
        /\ ~y.lu /\ x.lu => \E j \in DOMAIN lignes' : lignes'[j].genre = "fin"
        /\ DOMAIN lignes = 1..Len(lignes) /\ Len(lignes) \in Nat
    <3>1. /\ lignes \in Seq(LignesLues) /\ Fin \in LignesLues /\ Fin.genre = "fin"
          /\ DOMAIN lignes = 1..Len(lignes) /\ Len(lignes) \in Nat
      BY <1>4, EnFile, GenreDesLignes
    <3>2. CASE lignes' = lignes /\ (~y.lu => ~x.lu)
      BY <3>1, <3>2
    <3>3. ASSUME NEW l \in LignesLues, lignes' = Append(lignes, l)
          PROVE  /\ \A i \in DOMAIN lignes : i \in DOMAIN lignes' /\ lignes'[i] = lignes[i]
                 /\ \A i \in DOMAIN lignes' \ DOMAIN lignes : i = Len(lignes) + 1 /\ lignes'[i] = l
                 /\ Len(lignes) + 1 \in DOMAIN lignes' /\ lignes'[Len(lignes) + 1] = l
      <4>1. lignes' \in Seq(LignesLues) /\ Len(lignes') = Len(lignes) + 1
        BY <1>4, <3>3, EnFile
      <4>2. DOMAIN lignes' = 1..(Len(lignes) + 1)
        BY <4>1, EnFile
      <4>3. lignes'[Len(lignes) + 1] = l /\ \A i \in 1..Len(lignes) : lignes'[i] = lignes[i]
        BY <1>4, <3>3, EnFile
      <4> QED BY <3>1, <4>2, <4>3
    <3>4. CASE lignes' = Append(lignes, Fin)
      BY <3>1, <3>3, <3>4
    <3>5. CASE y.sortie # <<>> /\ lignes' = Append(lignes, y.sortie[1]) /\ y.sortie[1] \in LignesLues
               /\ 1 \in DOMAIN y.sortie /\ (~y.lu => ~x.lu)
      BY <3>1, <3>3, <3>5
    <3> QED BY <2>1, <3>2, <3>4, <3>5
  <2>3. /\ z.lu => w.lu
        /\ w.etat # "charge" /\ (w.lu => \E j \in DOMAIN lignes' : lignes'[j].genre = "fin")
    <3>1. (y.lu => x.lu) /\ (x.etat = "charge" => y.etat = "charge")
      BY <1>2 DEF Gestes
    <3>2. g = 1 => z = y /\ w = x
      BY <1>3
    <3>3. g # 1 => w = z
      BY <1>3
    <3> QED BY <1>7, <2>2, <3>1, <3>2, <3>3 DEF Abandon
  <2>4. ASSUME NEW i \in DOMAIN w.sortie, w.sortie[i].genre = "pret" PROVE FALSE
    <3>1. CASE g = 1
      BY <1>3, <1>7, <2>0, <2>4, <3>1 DEF Abandon
    <3>2. CASE g # 1
      BY <1>3, <1>7, <2>4, <3>2 DEF Abandon
    <3> QED BY <3>1, <3>2
  <2>5. ASSUME NEW i \in DOMAIN lignes', lignes'[i].genre = "pret"
        PROVE  \E j \in 1..(i - 1) : lignes'[j].genre = "fin"
    <3>1. CASE i \in DOMAIN lignes
      <4>1. PICK j \in 1..(i - 1) : lignes[j].genre = "fin"
        BY <1>7, <2>2, <2>5, <3>1 DEF Abandon
      <4>2. j \in DOMAIN lignes
        BY <2>2, <3>1
      <4> QED BY <2>2, <4>1, <4>2
    <3>2. CASE i \notin DOMAIN lignes
      <4>1. i = Len(lignes) + 1 /\ z.lu
        BY <1>7, <2>2, <2>5, <3>2 DEF Abandon
      <4>2. PICK j \in DOMAIN lignes : lignes[j].genre = "fin"
        BY <1>7, <4>1 DEF Abandon
      <4>3. j \in 1..(i - 1) /\ lignes'[j].genre = "fin"
        BY <2>2, <4>1, <4>2
      <4> QED BY <4>3
    <3> QED BY <3>1, <3>2
  <2>6. ASSUME NEW h \in DOMAIN esclaves', NEW i \in DOMAIN esclaves'[h].sortie,
               esclaves'[h].sortie[i].genre = "pret"
        PROVE  w.lu
    <3>1. CASE h # g
      BY <1>3, <1>7, <2>3, <2>6, <3>1 DEF Abandon
    <3>2. CASE h = g
      <4>1. \/ \E k \in DOMAIN y.sortie : y.sortie[k].genre = "pret"
            \/ y.etat = "charge" /\ \A n \in 1..(g - 1) : esclaves[n].lu
        BY <1>3, <2>0, <2>6, <3>2
      <4>2. CASE \E k \in DOMAIN y.sortie : y.sortie[k].genre = "pret"
        BY <1>7, <2>3, <4>2 DEF Abandon
      <4>3. CASE y.etat = "charge" /\ \A n \in 1..(g - 1) : esclaves[n].lu
        <5>1. g # 1
          BY <1>7, <4>3 DEF Abandon
        <5>2. 1 \in 1..(g - 1)
          BY <1>1, <5>1 DEF TypeMoteur
        <5> QED BY <2>3, <4>3, <5>2
      <4> QED BY <4>1, <4>2, <4>3
    <3> QED BY <3>1, <3>2
  <2> QED BY <2>3, <2>4, <2>5, <2>6 DEF Abandon
<1>8. ASSUME SeulLePremier PROVE SeulLePremier'
  BY <1>2, <1>3, <1>6, <1>7, <1>8 DEF SeulLePremier, Courant, PagesDuFichier
<1>9. Designe'
  BY <1>2, <1>3 DEF InvMoteur, Designe, Courant
<1> QED BY <1>2, <1>5, <1>8, <1>9 DEF InvMoteur

(* The parent goes on: its fields after each of its moves.                  *)
EtatsDuMoteur ==
  [processus : Nat, mort : BOOLEAN, page : Nat,
   etape : {"page", "amorcage", "reponse", "fermeture"}, delais : SUBSET {"amorcage", "reponse"}]

LEMMA Suites ==
  ASSUME NEW m \in EtatsDuMoteur
  PROVE  /\ LET s == [[m EXCEPT !.page = m.page + 1] EXCEPT !.etape = "page"] IN
            /\ s \in EtatsDuMoteur /\ s.etape = "page"
            /\ s.processus = m.processus /\ s.mort = m.mort /\ s.delais = m.delais
            /\ \A b \in BOOLEAN : LET t == [s EXCEPT !.mort = b] IN
                 /\ t \in EtatsDuMoteur /\ t.etape = "page"
                 /\ t.processus = m.processus /\ t.mort = b /\ t.delais = m.delais
         /\ Fermer(m) \in EtatsDuMoteur
         /\ Fermer(m).processus = 0 /\ Fermer(m).etape = "fermeture"
         /\ Fermer(m).mort = m.mort /\ Fermer(m).delais = m.delais
         /\ \A b \in BOOLEAN : LET t == [m EXCEPT !.mort = b] IN
              /\ t \in EtatsDuMoteur /\ t.mort = b /\ t.processus = m.processus
              /\ t.etape = m.etape /\ t.delais = m.delais
<1>1. LET s == [[m EXCEPT !.page = m.page + 1] EXCEPT !.etape = "page"] IN
            /\ s \in EtatsDuMoteur /\ s.etape = "page"
            /\ s.processus = m.processus /\ s.mort = m.mort /\ s.delais = m.delais
            /\ \A b \in BOOLEAN : LET t == [s EXCEPT !.mort = b] IN
                 /\ t \in EtatsDuMoteur /\ t.etape = "page"
                 /\ t.processus = m.processus /\ t.mort = b /\ t.delais = m.delais
  <2> DEFINE n == m.page + 1
             s1 == [m EXCEPT !.page = n]
             s == [s1 EXCEPT !.etape = "page"]
  <2>1. n \in Nat
    BY DEF EtatsDuMoteur
  <2> HIDE DEF n
  <2>2. /\ s1 \in EtatsDuMoteur /\ s1.processus = m.processus /\ s1.mort = m.mort
        /\ s1.delais = m.delais
    BY <2>1 DEF EtatsDuMoteur
  <2> HIDE DEF s1
  <2>3. /\ s \in EtatsDuMoteur /\ s.etape = "page" /\ s.processus = m.processus
        /\ s.mort = m.mort /\ s.delais = m.delais
    BY <2>2 DEF EtatsDuMoteur
  <2> HIDE DEF s
  <2>4. \A b \in BOOLEAN : LET t == [s EXCEPT !.mort = b] IN
                 /\ t \in EtatsDuMoteur /\ t.etape = "page"
                 /\ t.processus = m.processus /\ t.mort = b /\ t.delais = m.delais
    BY <2>3 DEF EtatsDuMoteur
  <2> QED BY <2>3, <2>4 DEF s, s1, n
<1>2. /\ Fermer(m) \in EtatsDuMoteur
      /\ Fermer(m).processus = 0 /\ Fermer(m).etape = "fermeture"
      /\ Fermer(m).mort = m.mort /\ Fermer(m).delais = m.delais
  BY DEF EtatsDuMoteur, Fermer
<1>3. \A b \in BOOLEAN : LET t == [m EXCEPT !.mort = b] IN
              /\ t \in EtatsDuMoteur /\ t.mort = b /\ t.processus = m.processus
              /\ t.etape = m.etape /\ t.delais = m.delais
  BY DEF EtatsDuMoteur
<1> QED BY <1>1, <1>2, <1>3

(* The result of a page, read on that page if it is a text.                 *)
LEMMA UnResultat ==
  ASSUME TypeMoteur, NEW v \in [statut : {"ocerisee", "echec", "attente", "natif"}, texte : Nat],
         resultats' = [resultats EXCEPT ![moteur.page] = v],
         v.statut = "ocerisee" => v.texte = moteur.page
  PROVE  /\ resultats' \in [PagesDuFichier -> [statut : {"ocerisee", "echec", "attente", "natif"}, texte : Nat]]
         /\ (\A p \in PagesDuFichier : resultats[p].statut = "ocerisee" => resultats[p].texte = p) =>
              \A p \in PagesDuFichier : resultats'[p].statut = "ocerisee" => resultats'[p].texte = p
BY DEF TypeMoteur

LEMMA PageEchouee ==
  ASSUME TypeMoteur, resultats' = [resultats EXCEPT ![moteur.page] = Echec]
  PROVE  /\ resultats' \in [PagesDuFichier -> [statut : {"ocerisee", "echec", "attente", "natif"}, texte : Nat]]
         /\ (\A p \in PagesDuFichier : resultats[p].statut = "ocerisee" => resultats[p].texte = p) =>
              \A p \in PagesDuFichier : resultats'[p].statut = "ocerisee" => resultats'[p].texte = p
BY UnResultat DEF Echec

(* A page that is done without a slave, or once it was closed.              *)
LEMMA PageFaite ==
  ASSUME InvMoteur, page_native \/ vue_refusee \/ (demarrer /\ moteur.mort)
                    \/ \E g \in DOMAIN esclaves : fermer(g)
  PROVE  InvMoteur'
<1>1. TypeMoteur /\ moteur \in EtatsDuMoteur
  BY DEF InvMoteur, TypeMoteur, EtatsDuMoteur
<1>2. /\ resultats' \in [PagesDuFichier -> [statut : {"ocerisee", "echec", "attente", "natif"}, texte : Nat]]
      /\ (\A p \in PagesDuFichier : resultats[p].statut = "ocerisee" => resultats[p].texte = p) =>
              \A p \in PagesDuFichier : resultats'[p].statut = "ocerisee" => resultats'[p].texte = p
  <2>1. CASE page_native
    <3>1. /\ Natif(moteur.page) \in [statut : {"ocerisee", "echec", "attente", "natif"}, texte : Nat]
          /\ Natif(moteur.page).statut # "ocerisee"
      BY <1>1 DEF Natif, EtatsDuMoteur
    <3> QED BY <1>1, <2>1, <3>1, UnResultat DEF page_native
  <2> QED BY <1>1, <2>1, PageEchouee DEF vue_refusee, demarrer, fermer, Echouer
<1>3. /\ moteur' \in EtatsDuMoteur /\ moteur'.etape = "page" /\ moteur'.processus = moteur.processus
      /\ moteur'.mort = moteur.mort /\ moteur'.delais = moteur.delais
  <2>1. moteur' = [[moteur EXCEPT !.page = moteur.page + 1] EXCEPT !.etape = "page"]
    BY DEF page_native, vue_refusee, demarrer, fermer, Echouer, Suivante
  <2> QED BY <1>1, <2>1, Suites
<1>4. CASE UNCHANGED <<esclaves, lignes>> /\ moteur.etape = "page"
  <2>1. TypeMoteur'
    BY <1>1, <1>2, <1>3, <1>4 DEF TypeMoteur, EtatsDuMoteur
  <2>2. ASSUME NEW s, PremierTenu(s) PROVE PremierTenu(s)'
    BY <1>3, <1>4, <2>2 DEF PremierTenu, Attendue
  <2>3. Abandon => Abandon'
    BY <1>4 DEF Abandon
  <2>4. SeulLePremier => SeulLePremier'
    BY <1>2, <1>3, <1>4, <2>2, <2>3 DEF SeulLePremier, Courant, PagesDuFichier
  <2>5. Designe'
    BY <1>3, <1>4 DEF InvMoteur, Designe, Courant
  <2> QED BY <1>3, <2>1, <2>4, <2>5 DEF InvMoteur
<1>5. ASSUME NEW g \in DOMAIN esclaves, fermer(g) PROVE InvMoteur'
  <2> DEFINE y == esclaves[g]
             x1 == [y EXCEPT !.etat = "mort"]
             x == [x1 EXCEPT !.entree = <<>>]
             E1 == [esclaves EXCEPT ![g].etat = "mort"]
             E2 == [E1 EXCEPT ![g].entree = <<>>]
  <2>1. esclaves' = E2 /\ lignes' = lignes /\ moteur.etape = "fermeture"
    BY <1>5 DEF fermer, A
  <2>2. E1 = [esclaves EXCEPT ![g] = x1] /\ E1[g] = x1
    OBVIOUS
  <2>3. /\ x1 \in EsclavesDuMoteur /\ x1.etat = "mort" /\ x1.sortie = y.sortie /\ x1.lu = y.lu
    <3>1. y \in EsclavesDuMoteur
      BY <1>1 DEF TypeMoteur
    <3> HIDE DEF y
    <3> QED BY <3>1 DEF EsclavesDuMoteur
  <2> HIDE DEF E1, x1
  <2>4. E2 = [esclaves EXCEPT ![g] = x]
    BY <2>2, EncoreUneFois
  <2>5. /\ x \in EsclavesDuMoteur /\ x.etat = "mort" /\ x.sortie = y.sortie /\ x.lu = y.lu
    <3>1. <<>> \in Seq(Nat)
      OBVIOUS
    <3> QED BY <2>3, <3>1 DEF EsclavesDuMoteur
  <2> HIDE DEF x
  <2>6. /\ esclaves' \in Seq(EsclavesDuMoteur) /\ DOMAIN esclaves' = DOMAIN esclaves
        /\ Len(esclaves') = Len(esclaves) /\ esclaves'[g] = x /\ esclaves # <<>> /\ esclaves' # <<>>
        /\ \A h \in DOMAIN esclaves \ {g} : esclaves'[h] = esclaves[h]
        /\ 1 \in DOMAIN esclaves /\ g \in Nat
    BY <1>1, <2>1, <2>4, <2>5, UnEsclaveDePlus
  <2>7. TypeMoteur'
    BY <1>1, <1>2, <1>3, <2>1, <2>6 DEF TypeMoteur, EtatsDuMoteur
  <2>8. /\ \A h \in DOMAIN esclaves : /\ esclaves'[h].sortie = esclaves[h].sortie
                                      /\ esclaves'[h].lu = esclaves[h].lu
                                      /\ esclaves'[h].etat \in {"mort", esclaves[h].etat}
    BY <2>5, <2>6
  <2>9. Abandon => Abandon'
    BY <2>1, <2>6, <2>8 DEF Abandon
  <2>10. SeulLePremier => SeulLePremier'
    BY <1>2, <1>3, <2>1, <2>6, <2>9 DEF SeulLePremier, Courant, PagesDuFichier
  <2>11. Designe'
    BY <1>3, <2>6 DEF InvMoteur, Designe, Courant
  <2> QED BY <1>3, <2>7, <2>10, <2>11 DEF InvMoteur
<1> QED BY <1>4, <1>5 DEF page_native, vue_refusee, demarrer, A, Echouer

(* A slave is started: the first one, or after one was given up.            *)
LEMMA UnDemarrage ==
  ASSUME InvMoteur, demarrer, ~moteur.mort
  PROVE  InvMoteur'
<1> DEFINE n == Len(esclaves) + 1
           x == [etat |-> "charge", entree |-> <<>>, sortie |-> <<>>, lu |-> FALSE]
           m1 == [moteur EXCEPT !.processus = n]
           m2 == [m1 EXCEPT !.etape = "amorcage"]
<1>1. TypeMoteur /\ moteur \in EtatsDuMoteur /\ n \in Nat
  BY DEF InvMoteur, TypeMoteur, EtatsDuMoteur
<1>2. /\ esclaves' = Append(esclaves, x) /\ moteur' = m2 /\ UNCHANGED <<lignes, resultats>>
      /\ Courant = 0 /\ moteur.etape = "page"
  BY DEF demarrer, A
<1>3. x \in EsclavesDuMoteur /\ x.etat = "charge" /\ x.entree = <<>> /\ x.sortie = <<>> /\ x.lu = FALSE
  BY DEF EsclavesDuMoteur
<1> HIDE DEF x
<1>4. /\ esclaves' \in Seq(EsclavesDuMoteur) /\ Len(esclaves') = n /\ esclaves'[n] = x
      /\ DOMAIN esclaves' = 1..n /\ esclaves' # <<>> /\ DOMAIN esclaves = 1..(n - 1)
      /\ \A h \in DOMAIN esclaves : esclaves'[h] = esclaves[h]
      /\ esclaves = <<>> <=> n = 1
  <2>1. esclaves \in Seq(EsclavesDuMoteur)
    BY <1>1 DEF TypeMoteur
  <2>2. /\ esclaves' \in Seq(EsclavesDuMoteur) /\ Len(esclaves') = n /\ esclaves'[n] = x
        /\ \A h \in 1..Len(esclaves) : esclaves'[h] = esclaves[h]
        /\ DOMAIN esclaves = 1..Len(esclaves) /\ (esclaves = <<>> <=> Len(esclaves) = 0)
    BY <1>2, <1>3, <2>1, EnFile
  <2>3. DOMAIN esclaves' = 1..Len(esclaves') /\ (esclaves' = <<>> <=> Len(esclaves') = 0)
    BY <2>2, EnFile
  <2>4. Len(esclaves) \in Nat
    BY <2>1
  <2> QED BY <2>2, <2>3, <2>4
<1>5. /\ moteur' \in EtatsDuMoteur /\ moteur'.etape = "amorcage" /\ moteur'.processus = n
      /\ moteur'.mort = FALSE /\ moteur'.delais = moteur.delais
  <2> HIDE DEF n
  <2> QED BY <1>1, <1>2 DEF EtatsDuMoteur
<1>6. TypeMoteur'
  BY <1>1, <1>2, <1>4, <1>5 DEF TypeMoteur, EtatsDuMoteur
<1>7. ASSUME SeulLePremier, n = 1 PROVE PremierTenu(x)'
  BY <1>2, <1>3, <1>4, <1>5, <1>7 DEF SeulLePremier, PremierTenu
<1>8. ASSUME SeulLePremier, n # 1 PROVE Abandon'
  <2>1. Abandon /\ 1 \in DOMAIN esclaves /\ esclaves'[1] = esclaves[1]
    BY <1>1, <1>2, <1>4, <1>8 DEF SeulLePremier
  <2>2. \A h \in DOMAIN esclaves' : h \in DOMAIN esclaves \/ esclaves'[h].sortie = <<>>
    BY <1>1, <1>3, <1>4
  <2> QED BY <1>2, <1>4, <2>1, <2>2 DEF Abandon
<1>9. SeulLePremier => SeulLePremier'
  BY <1>1, <1>2, <1>4, <1>5, <1>7, <1>8 DEF SeulLePremier, Courant, PagesDuFichier
<1>10. Designe'
  BY <1>1, <1>4, <1>5 DEF Designe, Courant
<1> QED BY <1>5, <1>6, <1>9, <1>10 DEF InvMoteur

(* A line is taken from the queue.                                          *)
LEMMA UneLigneDeMoins ==
  ASSUME TypeMoteur, lignes # <<>>, lignes' = Tail(lignes)
  PROVE  /\ lignes' \in Seq(LignesLues) /\ Head(lignes) = lignes[1] /\ lignes[1] \in LignesLues
         /\ Len(lignes') = Len(lignes) - 1 /\ Len(lignes) \in Nat \ {0}
         /\ DOMAIN lignes = 1..Len(lignes) /\ DOMAIN lignes' = 1..(Len(lignes) - 1)
         /\ \A i \in DOMAIN lignes' : lignes'[i] = lignes[i + 1]
         /\ Len(lignes) = 1 => lignes' = <<>>
<1>1. /\ lignes' \in Seq(LignesLues) /\ Head(lignes) = lignes[1] /\ lignes[1] \in LignesLues
      /\ Len(lignes') = Len(lignes) - 1 /\ Len(lignes) \in Nat \ {0}
      /\ DOMAIN lignes = 1..Len(lignes) /\ \A i \in 1..(Len(lignes) - 1) : lignes'[i] = lignes[i + 1]
  BY EnFile DEF TypeMoteur
<1> QED BY <1>1, EnFile

LEMMA LigneDApresAbandon ==
  ASSUME TypeMoteur, lignes # <<>>, lignes' = Tail(lignes), Abandon, lignes[1].genre # "fin",
         esclaves' = esclaves
  PROVE  lignes[1].genre # "pret" /\ Abandon'
<1>1. /\ DOMAIN lignes = 1..Len(lignes) /\ DOMAIN lignes' = 1..(Len(lignes) - 1) /\ Len(lignes) \in Nat \ {0}
      /\ \A i \in DOMAIN lignes' : lignes'[i] = lignes[i + 1]
  BY UneLigneDeMoins
<1>2. \A j \in DOMAIN lignes : lignes[j].genre = "fin" =>
        j - 1 \in DOMAIN lignes' /\ lignes'[j - 1].genre = "fin"
  BY <1>1
<1>3. lignes[1].genre # "pret"
  BY <1>1 DEF Abandon
<1>4. ASSUME NEW i \in DOMAIN lignes', lignes'[i].genre = "pret"
      PROVE  \E j \in 1..(i - 1) : lignes'[j].genre = "fin"
  <2>1. i + 1 \in DOMAIN lignes /\ lignes[i + 1].genre = "pret"
    BY <1>1, <1>4
  <2>2. PICK j \in 1..i : lignes[j].genre = "fin"
    BY <1>1, <1>4, <2>1 DEF Abandon
  <2>3. j \in DOMAIN lignes
    BY <1>1, <1>4
  <2>4. j # 1
    BY <2>2, <1>1
  <2>5. j - 1 \in 1..(i - 1)
    BY <1>1, <1>4, <2>2, <2>4
  <2> QED BY <1>2, <2>2, <2>3, <2>5
<1>5. esclaves[1].lu => \E j \in DOMAIN lignes' : lignes'[j].genre = "fin"
  BY <1>2 DEF Abandon
<1> QED BY <1>3, <1>4, <1>5 DEF Abandon

(* A page is sent to the current slave, or the slave has ended.             *)
LEMMA UnEnvoi ==
  ASSUME TypeMoteur, NEW g \in DOMAIN esclaves, Envoyer(g)
  PROVE  \/ /\ Vivant(g)
            /\ \E x \in EsclavesDuMoteur :
                 /\ esclaves' = [esclaves EXCEPT ![g] = x]
                 /\ x.etat = esclaves[g].etat /\ x.sortie = esclaves[g].sortie /\ x.lu = esclaves[g].lu
                 /\ x.entree = Append(esclaves[g].entree, moteur.page)
            /\ moteur' \in EtatsDuMoteur /\ moteur'.etape = "reponse"
            /\ moteur'.processus = moteur.processus /\ moteur'.mort = moteur.mort
            /\ moteur'.delais = moteur.delais /\ moteur'.page = moteur.page
         \/ /\ ~Vivant(g) /\ esclaves' = esclaves
            /\ moteur' \in EtatsDuMoteur /\ moteur'.etape = "fermeture" /\ moteur'.processus = 0
            /\ moteur'.mort = moteur.mort /\ moteur'.delais = moteur.delais
<1> DEFINE y == esclaves[g]
           q == Append(y.entree, moteur.page)
           x == [y EXCEPT !.entree = q]
<1>1. y \in EsclavesDuMoteur /\ moteur \in EtatsDuMoteur
  BY DEF TypeMoteur, EtatsDuMoteur
<1>2. CASE Vivant(g)
  <2>1. esclaves' = [esclaves EXCEPT ![g] = x] /\ moteur' = [moteur EXCEPT !.etape = "reponse"]
    BY <1>2 DEF Envoyer
  <2>2. q \in Seq(Nat)
    <3>1. y.entree \in Seq(Nat) /\ moteur.page \in Nat
      BY <1>1 DEF EsclavesDuMoteur, EtatsDuMoteur
    <3> QED BY <3>1, EnFile
  <2>3. x \in EsclavesDuMoteur /\ x.etat = y.etat /\ x.sortie = y.sortie /\ x.lu = y.lu /\ x.entree = q
    <3> HIDE DEF y, q
    <3> QED BY <1>1, <2>2 DEF EsclavesDuMoteur
  <2>4. /\ moteur' \in EtatsDuMoteur /\ moteur'.etape = "reponse"
        /\ moteur'.processus = moteur.processus /\ moteur'.mort = moteur.mort
        /\ moteur'.delais = moteur.delais /\ moteur'.page = moteur.page
    BY <1>1, <2>1 DEF EtatsDuMoteur
  <2> HIDE DEF x
  <2> QED BY <1>2, <2>1, <2>3, <2>4
<1>3. CASE ~Vivant(g)
  <2>1. moteur' = Fermer(moteur) /\ esclaves' = esclaves
    BY <1>3 DEF Envoyer
  <2>2. /\ Fermer(moteur) \in EtatsDuMoteur
        /\ Fermer(moteur).processus = 0 /\ Fermer(moteur).etape = "fermeture"
        /\ Fermer(moteur).mort = moteur.mort /\ Fermer(moteur).delais = moteur.delais
    BY <1>1, Suites
  <2> QED BY <1>3, <2>1, <2>2
<1> QED BY <1>2, <1>3

(* What becomes of the first slave when a page is sent to it.               *)
LEMMA EnvoiAuPremier ==
  ASSUME TypeMoteur, SeulLePremier, Courant = 1, Envoyer(1), UNCHANGED resultats,
         lignes' \in Seq(LignesLues),
         esclaves[1].etat # "charge", esclaves[1].entree = <<>>, esclaves[1].sortie = <<>>,
         \/ ~esclaves[1].lu /\ lignes' = <<>>
         \/ esclaves[1].lu /\ (lignes' = <<>> => moteur.mort)
            /\ \A i \in DOMAIN lignes' : lignes'[i].genre = "fin"
  PROVE  TypeMoteur' /\ SeulLePremier' /\ moteur'.delais = moteur.delais
<1> DEFINE y == esclaves[1]
<1>1. Len(esclaves) = 1 /\ 1 \in DOMAIN esclaves /\ PremierTenu(y) /\ y \in EsclavesDuMoteur
      /\ DOMAIN esclaves = {1}
  BY DEF SeulLePremier, TypeMoteur
<1>2. CASE Vivant(1)
  <2>1. PICK x \in EsclavesDuMoteur :
                 /\ esclaves' = [esclaves EXCEPT ![1] = x]
                 /\ x.etat = y.etat /\ x.sortie = y.sortie /\ x.lu = y.lu
                 /\ x.entree = Append(y.entree, moteur.page)
    BY <1>1, <1>2, UnEnvoi
  <2>2. /\ moteur' \in EtatsDuMoteur /\ moteur'.etape = "reponse"
        /\ moteur'.processus = moteur.processus /\ moteur'.mort = moteur.mort
        /\ moteur'.delais = moteur.delais /\ moteur'.page = moteur.page
    BY <1>1, <1>2, UnEnvoi
  <2>3. /\ esclaves' \in Seq(EsclavesDuMoteur) /\ Len(esclaves') = 1 /\ esclaves'[1] = x /\ esclaves' # <<>>
    BY <1>1, <2>1, UnEsclaveDePlus
  <2>4. y.etat = "libre" /\ ~y.lu /\ lignes' = <<>> /\ x.entree = <<moteur.page>>
    BY <1>1, <1>2, <2>1 DEF Vivant, PremierTenu
  <2>5. PremierTenu(x)'
    BY <2>1, <2>2, <2>4 DEF PremierTenu
  <2>6. TypeMoteur'
    BY <2>2, <2>3 DEF TypeMoteur, EtatsDuMoteur, PagesDuFichier
  <2>7. SeulLePremier'
    BY <2>2, <2>3, <2>5 DEF SeulLePremier, Courant, PagesDuFichier
  <2> QED BY <2>2, <2>6, <2>7
<1>3. CASE ~Vivant(1)
  <2>1. /\ esclaves' = esclaves
        /\ moteur' \in EtatsDuMoteur /\ moteur'.etape = "fermeture" /\ moteur'.processus = 0
        /\ moteur'.mort = moteur.mort /\ moteur'.delais = moteur.delais
    BY <1>1, <1>3, UnEnvoi
  <2>2. TypeMoteur'
    BY <2>1 DEF TypeMoteur, EtatsDuMoteur, PagesDuFichier
  <2>3. ~moteur.mort => Abandon'
    <3>1. \A i \in DOMAIN lignes' : lignes'[i].genre = "fin"
      OBVIOUS
    <3>2. ~moteur.mort /\ y.lu => 1 \in DOMAIN lignes'
      BY EnFile
    <3> QED BY <1>1, <2>1, <3>1, <3>2 DEF Abandon
  <2>4. SeulLePremier'
    BY <1>1, <2>1, <2>3 DEF SeulLePremier, Courant, PagesDuFichier
  <2> QED BY <2>1, <2>2, <2>4
<1> QED BY <1>2, <1>3

LEMMA EnvoiType ==
  ASSUME TypeMoteur, Designe, Courant \in DOMAIN esclaves, Envoyer(Courant), UNCHANGED resultats,
         lignes' \in Seq(LignesLues)
  PROVE  TypeMoteur' /\ Designe' /\ moteur'.delais = moteur.delais
<1> DEFINE g == Courant
<1>1. CASE Vivant(g)
  <2>1. PICK x \in EsclavesDuMoteur : esclaves' = [esclaves EXCEPT ![g] = x]
    BY <1>1, UnEnvoi
  <2>2. /\ moteur' \in EtatsDuMoteur /\ moteur'.processus = moteur.processus
        /\ moteur'.delais = moteur.delais
    BY <1>1, UnEnvoi
  <2>3. esclaves' \in Seq(EsclavesDuMoteur) /\ Len(esclaves') = Len(esclaves)
    BY <2>1, UnEsclaveDePlus
  <2>4. moteur.processus # 0 /\ moteur'.processus \in 0..Len(esclaves')
    BY <2>2, <2>3 DEF Designe, Courant, TypeMoteur
  <2>5. TypeMoteur'
    BY <2>2, <2>3 DEF TypeMoteur, EtatsDuMoteur, PagesDuFichier
  <2> QED BY <2>2, <2>4, <2>5 DEF Designe, Courant
<1>2. CASE ~Vivant(g)
  <2>1. /\ esclaves' = esclaves
        /\ moteur' \in EtatsDuMoteur /\ moteur'.etape = "fermeture" /\ moteur'.processus = 0
        /\ moteur'.delais = moteur.delais
    BY <1>2, UnEnvoi
  <2>2. TypeMoteur'
    BY <2>1 DEF TypeMoteur, EtatsDuMoteur, PagesDuFichier
  <2>3. Designe'
    BY <2>1 DEF Designe, Courant, TypeMoteur
  <2> QED BY <2>1, <2>2, <2>3
<1> QED BY <1>1, <1>2

LEMMA UneReception ==
  ASSUME InvMoteur, recevoir_pret
  PROVE  InvMoteur'
<1> DEFINE l == Head(lignes)
           y == esclaves[1]
<1>1. TypeMoteur /\ moteur \in EtatsDuMoteur
  BY DEF InvMoteur, TypeMoteur, EtatsDuMoteur
<1>2. moteur.etape = "amorcage" /\ lignes # <<>> /\ lignes' = Tail(lignes) /\ UNCHANGED resultats
  BY DEF recevoir_pret, A
<1>3. /\ lignes' \in Seq(LignesLues) /\ l = lignes[1] /\ l \in LignesLues
      /\ Len(lignes') = Len(lignes) - 1 /\ Len(lignes) \in Nat \ {0}
      /\ DOMAIN lignes = 1..Len(lignes) /\ DOMAIN lignes' = 1..(Len(lignes) - 1)
      /\ \A i \in DOMAIN lignes' : lignes'[i] = lignes[i + 1]
      /\ Len(lignes) = 1 => lignes' = <<>>
  BY <1>1, <1>2, UneLigneDeMoins
<1>4. (l = Pret <=> l.genre = "pret") /\ (l = Fin <=> l.genre = "fin")
  BY <1>3, GenreDesLignes
<1> HIDE DEF l
<1>5. l.genre # "pret" =>
        /\ esclaves' = esclaves
        /\ moteur' \in EtatsDuMoteur /\ moteur'.etape = "fermeture" /\ moteur'.processus = 0
        /\ moteur'.mort = (moteur.mort \/ l.genre = "fin") /\ moteur'.delais = moteur.delais
  <2> SUFFICES ASSUME l.genre # "pret"
               PROVE  /\ esclaves' = esclaves
                      /\ moteur' \in EtatsDuMoteur /\ moteur'.etape = "fermeture" /\ moteur'.processus = 0
                      /\ moteur'.mort = (moteur.mort \/ l.genre = "fin") /\ moteur'.delais = moteur.delais
    OBVIOUS
  <2> DEFINE b == moteur.mort \/ l = Fin
             m == [moteur EXCEPT !.mort = b]
  <2>1. esclaves' = esclaves /\ moteur' = Fermer(m)
    BY <1>4 DEF recevoir_pret, l
  <2>2. b \in BOOLEAN
    BY <1>1 DEF EtatsDuMoteur
  <2>3. m \in EtatsDuMoteur /\ m.mort = b /\ m.delais = moteur.delais
    <3>1. \A c \in BOOLEAN : LET t == [moteur EXCEPT !.mort = c] IN
            t \in EtatsDuMoteur /\ t.mort = c /\ t.delais = moteur.delais
      BY <1>1 DEF EtatsDuMoteur
    <3> HIDE DEF b
    <3> QED BY <2>2, <3>1
  <2> HIDE DEF m
  <2>4. /\ Fermer(m) \in EtatsDuMoteur
        /\ Fermer(m).processus = 0 /\ Fermer(m).etape = "fermeture"
        /\ Fermer(m).mort = m.mort /\ Fermer(m).delais = m.delais
    BY <2>3, Suites
  <2> QED BY <1>4, <2>1, <2>3, <2>4
<1>6. l.genre = "pret" => Envoyer(Courant)
  BY <1>4 DEF recevoir_pret, l
<1>7. CASE l.genre # "pret"
  <2>1. TypeMoteur'
    BY <1>1, <1>2, <1>3, <1>5, <1>7 DEF TypeMoteur, EtatsDuMoteur, PagesDuFichier
  <2>2. ASSUME SeulLePremier, ~moteur'.mort PROVE Abandon'
    <3>1. l.genre # "fin" /\ ~moteur.mort
      BY <1>5, <1>7, <2>2
    <3>2. Courant # 1
      BY <1>2, <1>3, <1>7, <2>2, <3>1, GenreDesLignes DEF SeulLePremier, PremierTenu, Attendue
    <3>3. Abandon
      BY <1>2, <2>2, <3>1, <3>2 DEF SeulLePremier
    <3> QED BY <1>1, <1>2, <1>3, <1>5, <1>7, <3>1, <3>3, LigneDApresAbandon
  <2>3. SeulLePremier => SeulLePremier'
    BY <1>2, <1>5, <1>7, <2>2 DEF SeulLePremier, Courant, PagesDuFichier
  <2>4. Designe'
    BY <1>1, <1>5, <1>7 DEF Designe, Courant, TypeMoteur
  <2> QED BY <1>5, <1>7, <2>1, <2>3, <2>4 DEF InvMoteur
<1>8. ASSUME l.genre = "pret", SeulLePremier PROVE TypeMoteur' /\ SeulLePremier' /\ moteur'.delais = moteur.delais
  <2>1. Courant = 1
    <3>1. Courant \in Nat /\ Courant # 0 /\ esclaves # <<>>
      BY <1>1, <1>2, <1>8 DEF SeulLePremier, Courant, EtatsDuMoteur
    <3>2. CASE Courant > 1
      <4>1. Abandon
        BY <1>8, <3>1, <3>2 DEF SeulLePremier
      <4>2. lignes[1].genre = "pret" /\ 1 \in DOMAIN lignes
        BY <1>3, <1>8
      <4>3. PICK j \in 1..(1 - 1) : lignes[j].genre = "fin"
        BY <4>1, <4>2 DEF Abandon
      <4> QED BY <4>3
    <3> QED BY <3>1, <3>2
  <2>2. PremierTenu(y)
    BY <1>8, <2>1 DEF SeulLePremier
  <2>3. /\ y.etat # "charge" /\ y.entree = <<>> /\ y.sortie = <<>>
        /\ \/ ~y.lu /\ Len(lignes) = 1
           \/ y.lu /\ Len(lignes) = 2 /\ lignes[2].genre = "fin"
    BY <1>2, <1>3, <1>8, <2>2 DEF PremierTenu
  <2>4. \/ ~y.lu /\ lignes' = <<>>
        \/ y.lu /\ (lignes' = <<>> => moteur.mort)
           /\ \A i \in DOMAIN lignes' : lignes'[i].genre = "fin"
    <3>1. CASE ~y.lu /\ Len(lignes) = 1
      BY <1>3, <3>1
    <3>2. CASE y.lu /\ Len(lignes) = 2 /\ lignes[2].genre = "fin"
      <4>1. DOMAIN lignes' = {1} /\ lignes'[1].genre = "fin" /\ lignes' # <<>>
        BY <1>3, <3>2
      <4> QED BY <3>2, <4>1
    <3> QED BY <2>3, <3>1, <3>2
  <2> QED BY <1>1, <1>2, <1>3, <1>6, <1>8, <2>1, <2>3, <2>4, EnvoiAuPremier
<1>9. ASSUME l.genre = "pret" PROVE TypeMoteur' /\ moteur'.delais = moteur.delais /\ Designe'
  <2>1. Courant \in DOMAIN esclaves
    BY <1>1, <1>2 DEF InvMoteur, Designe, TypeMoteur
  <2> QED BY <1>1, <1>2, <1>3, <1>6, <1>9, <2>1, EnvoiType DEF InvMoteur
<1> QED BY <1>7, <1>8, <1>9 DEF InvMoteur

LEMMA UneReconnaissance ==
  ASSUME InvMoteur, reconnaitre
  PROVE  InvMoteur'
<1>1. TypeMoteur /\ Designe /\ moteur.etape = "page" /\ Courant # 0 /\ Envoyer(Courant)
      /\ UNCHANGED <<lignes, resultats>>
  BY DEF InvMoteur, reconnaitre, A
<1>2. Courant \in DOMAIN esclaves /\ lignes' \in Seq(LignesLues)
  BY <1>1 DEF Designe, TypeMoteur
<1>3. TypeMoteur' /\ Designe' /\ moteur'.delais = moteur.delais
  BY <1>1, <1>2, EnvoiType
<1>4. ASSUME SeulLePremier PROVE SeulLePremier'
  <2>1. Courant = 1 /\ PremierTenu(esclaves[1])
    BY <1>1, <1>2, <1>4 DEF SeulLePremier, TypeMoteur
  <2>2. \A l : ~Attendue(l)
    BY <1>1 DEF Attendue
  <2>3. esclaves[1].etat # "charge" /\ esclaves[1].entree = <<>> /\ esclaves[1].sortie = <<>>
        /\ \/ lignes = <<>> /\ (esclaves[1].lu => moteur.mort)
           \/ esclaves[1].lu /\ Len(lignes) = 1 /\ lignes[1].genre = "fin"
    BY <1>1, <2>1, <2>2 DEF PremierTenu
  <2>4. Len(lignes) = 1 => DOMAIN lignes = {1} /\ lignes # <<>>
    <3>1. DOMAIN lignes = 1..Len(lignes) /\ (lignes = <<>> <=> Len(lignes) = 0)
      BY <1>1, EnFile DEF TypeMoteur
    <3> QED BY <3>1
  <2>5. lignes = <<>> => DOMAIN lignes = {}
    OBVIOUS
  <2>6. \/ ~esclaves[1].lu /\ lignes' = <<>>
        \/ esclaves[1].lu /\ (lignes' = <<>> => moteur.mort)
           /\ \A i \in DOMAIN lignes' : lignes'[i].genre = "fin"
    BY <1>1, <2>3, <2>4, <2>5
  <2> QED BY <1>1, <1>2, <1>4, <2>1, <2>3, <2>6, EnvoiAuPremier
<1> QED BY <1>3, <1>4 DEF InvMoteur

LEMMA UnResultatRecu ==
  ASSUME InvMoteur, recevoir_reponse
  PROVE  InvMoteur'
<1> DEFINE l == Head(lignes)
           y == esclaves[1]
           s == [[moteur EXCEPT !.page = moteur.page + 1] EXCEPT !.etape = "page"]
           b == moteur.mort \/ l = Fin
<1>1. TypeMoteur /\ moteur \in EtatsDuMoteur
  BY DEF InvMoteur, TypeMoteur, EtatsDuMoteur
<1>2. moteur.etape = "reponse" /\ lignes # <<>> /\ lignes' = Tail(lignes) /\ UNCHANGED esclaves
  BY DEF recevoir_reponse, A
<1>3. /\ lignes' \in Seq(LignesLues) /\ l = lignes[1] /\ l \in LignesLues
      /\ Len(lignes') = Len(lignes) - 1 /\ Len(lignes) \in Nat \ {0}
      /\ DOMAIN lignes = 1..Len(lignes) /\ DOMAIN lignes' = 1..(Len(lignes) - 1)
      /\ \A i \in DOMAIN lignes' : lignes'[i] = lignes[i + 1]
      /\ Len(lignes) = 1 => lignes' = <<>>
  BY <1>1, <1>2, UneLigneDeMoins
<1>4. (l = Fin <=> l.genre = "fin") /\ (l.genre = "reponse" => l.page \in Nat)
  BY <1>3, GenreDesLignes
<1>5. s \in EtatsDuMoteur /\ s.etape = "page" /\ s.processus = moteur.processus
      /\ s.mort = moteur.mort /\ s.delais = moteur.delais
      /\ \A c \in BOOLEAN : LET t == [s EXCEPT !.mort = c] IN
           /\ t \in EtatsDuMoteur /\ t.etape = "page"
           /\ t.processus = moteur.processus /\ t.mort = c /\ t.delais = moteur.delais
  BY <1>1, Suites
<1>6. b \in BOOLEAN
  BY <1>1 DEF EtatsDuMoteur
<1>7. \/ /\ l.genre = "reponse" /\ resultats' = [resultats EXCEPT ![moteur.page] = Oceriser(l.page)]
         /\ moteur' = s
      \/ resultats' = [resultats EXCEPT ![moteur.page] = Echec] /\ moteur' = [s EXCEPT !.mort = s.mort \/ l = Fin]
  BY DEF recevoir_reponse, Echouer, Suivante
<1> HIDE DEF l, s
<1>8. /\ moteur' \in EtatsDuMoteur /\ moteur'.etape = "page" /\ moteur'.processus = moteur.processus
      /\ moteur'.delais = moteur.delais /\ (l.genre = "fin" => moteur'.mort)
  <2>1. l.genre = "reponse" => l.genre # "fin"
    OBVIOUS
  <2>2. (moteur' = s /\ l.genre = "reponse") \/ moteur' = [s EXCEPT !.mort = b]
    BY <1>5, <1>7
  <2>3. l.genre = "fin" => b
    BY <1>4
  <2> HIDE DEF b
  <2> QED BY <1>5, <1>6, <2>1, <2>2, <2>3
<1>9. resultats' \in [PagesDuFichier -> [statut : {"ocerisee", "echec", "attente", "natif"}, texte : Nat]]
  <2>1. CASE resultats' = [resultats EXCEPT ![moteur.page] = Echec]
    BY <1>1, <2>1, PageEchouee
  <2>2. CASE l.genre = "reponse" /\ resultats' = [resultats EXCEPT ![moteur.page] = Oceriser(l.page)]
    <3>1. Oceriser(l.page) \in [statut : {"ocerisee", "echec", "attente", "natif"}, texte : Nat]
      BY <1>4, <2>2 DEF Oceriser
    <3> QED BY <1>1, <2>2, <3>1 DEF TypeMoteur
  <2> QED BY <1>7, <2>1, <2>2
<1>10. TypeMoteur' /\ Designe'
  BY <1>1, <1>2, <1>3, <1>8, <1>9 DEF TypeMoteur, EtatsDuMoteur, PagesDuFichier, InvMoteur, Designe, Courant
<1>11. ASSUME SeulLePremier PROVE SeulLePremier'
  <2>1. Courant = 1 /\ PremierTenu(y) /\ esclaves # <<>>
    BY <1>1, <1>2, <1>11 DEF SeulLePremier, Courant, EtatsDuMoteur
  <2>2. /\ y.entree = <<>> /\ y.sortie = <<>> /\ y.etat # "charge"
        /\ l.genre = "reponse" => l.page = moteur.page
        /\ \/ ~y.lu /\ Len(lignes) = 1
           \/ y.lu /\ Len(lignes) = 1 /\ l.genre = "fin"
           \/ y.lu /\ Len(lignes) = 2 /\ lignes[2].genre = "fin"
    BY <1>2, <1>3, <2>1 DEF PremierTenu, Attendue
  <2>3. \/ lignes' = <<>> /\ (y.lu => moteur'.mort)
        \/ y.lu /\ Len(lignes') = 1 /\ lignes'[1].genre = "fin"
    BY <1>3, <1>8, <2>2
  <2>4. PremierTenu(y)'
    BY <1>2, <1>8, <2>1, <2>2, <2>3 DEF PremierTenu
  <2>5. \A p \in PagesDuFichier : resultats'[p].statut = "ocerisee" => resultats'[p].texte = p
    <3>1. CASE resultats' = [resultats EXCEPT ![moteur.page] = Echec]
      BY <1>1, <1>11, <3>1, PageEchouee DEF SeulLePremier
    <3>2. CASE l.genre = "reponse" /\ resultats' = [resultats EXCEPT ![moteur.page] = Oceriser(l.page)]
      <4>1. /\ Oceriser(l.page) \in [statut : {"ocerisee", "echec", "attente", "natif"}, texte : Nat]
            /\ Oceriser(l.page).texte = moteur.page
        BY <1>4, <2>2, <3>2 DEF Oceriser
      <4> QED BY <1>1, <1>11, <3>2, <4>1, UnResultat DEF SeulLePremier
    <3> QED BY <1>7, <3>1, <3>2
  <2> QED BY <1>2, <1>8, <1>11, <2>1, <2>4, <2>5 DEF SeulLePremier, Courant, PagesDuFichier
<1> QED BY <1>8, <1>10, <1>11 DEF InvMoteur

LEMMA UnDelai ==
  ASSUME InvMoteur, delai_depasse
  PROVE  InvMoteur'
<1> DEFINE e == moteur.delais \cup {moteur.etape}
           m == [moteur EXCEPT !.delais = e]
<1>1. TypeMoteur /\ moteur \in EtatsDuMoteur
  BY DEF InvMoteur, TypeMoteur, EtatsDuMoteur
<1>2. /\ moteur.etape \in {"amorcage", "reponse"} /\ lignes = <<>> /\ moteur' = Fermer(m)
      /\ UNCHANGED <<esclaves, lignes, resultats>>
  BY DEF delai_depasse
<1>3. e \in SUBSET {"amorcage", "reponse"}
  BY <1>1, <1>2 DEF EtatsDuMoteur
<1>4. m \in EtatsDuMoteur /\ m.mort = moteur.mort /\ m.delais = e
  <2> HIDE DEF e
  <2> QED BY <1>1, <1>3 DEF EtatsDuMoteur
<1> HIDE DEF m
<1>5. /\ moteur' \in EtatsDuMoteur /\ moteur'.processus = 0 /\ moteur'.etape = "fermeture"
      /\ moteur'.mort = moteur.mort /\ moteur'.delais = e
  <2>1. /\ Fermer(m) \in EtatsDuMoteur
        /\ Fermer(m).processus = 0 /\ Fermer(m).etape = "fermeture"
        /\ Fermer(m).mort = m.mort /\ Fermer(m).delais = m.delais
    BY <1>4, Suites
  <2> QED BY <1>2, <1>4, <2>1
<1>6. TypeMoteur' /\ Designe'
  BY <1>1, <1>2, <1>5 DEF TypeMoteur, EtatsDuMoteur, PagesDuFichier, Designe, Courant
<1>7. ASSUME SeulLePremier, moteur.etape = "reponse" PROVE SeulLePremier'
  <2>1. /\ Courant = 1 /\ PremierTenu(esclaves[1]) /\ Len(esclaves) = 1 /\ esclaves # <<>>
        /\ DOMAIN esclaves = {1} /\ esclaves[1] \in EsclavesDuMoteur
    <3>1. Courant = 1
      BY <1>1, <1>7 DEF SeulLePremier, Courant, EtatsDuMoteur
    <3>2. PremierTenu(esclaves[1]) /\ Len(esclaves) = 1
      BY <1>7, <3>1 DEF SeulLePremier
    <3>3. esclaves \in Seq(EsclavesDuMoteur)
      BY <1>1 DEF TypeMoteur
    <3>4. DOMAIN esclaves = 1..1 /\ esclaves # <<>>
      BY <3>2, <3>3, EnFile
    <3>5. esclaves[1] \in EsclavesDuMoteur
      BY <3>3, <3>4
    <3> QED BY <3>1, <3>2, <3>4, <3>5
  <2>2. ~moteur.mort => Abandon'
    <3>1. esclaves[1].sortie \in Seq(LignesLues)
      BY <2>1 DEF EsclavesDuMoteur
    <3>2. \A i \in DOMAIN esclaves[1].sortie : esclaves[1].sortie[i].genre = "reponse"
      BY <1>2, <1>7, <2>1, <3>1 DEF PremierTenu, Attendue
    <3>3. esclaves[1].etat # "charge" /\ (esclaves[1].lu => moteur.mort)
      BY <1>2, <1>7, <2>1 DEF PremierTenu
    <3> QED BY <1>2, <2>1, <3>2, <3>3 DEF Abandon
  <2> QED BY <1>2, <1>5, <1>7, <2>1, <2>2 DEF SeulLePremier, Courant, PagesDuFichier
<1> QED BY <1>2, <1>5, <1>6, <1>7 DEF InvMoteur

LEMMA UnPasDuMoteur ==
  ASSUME InvMoteur, [NextMoteur]_varsMoteur
  PROVE  InvMoteur'
<1>1. CASE UNCHANGED varsMoteur
  BY <1>1 DEF varsMoteur, InvMoteur, TypeMoteur, Designe, SeulLePremier, Abandon, PremierTenu, Attendue,
              Courant, PagesDuFichier
<1>2. CASE NextMoteur
  BY <1>2, LesEsclaves, PageFaite, UnDemarrage, UneReception, UneReconnaissance, UnResultatRecu, UnDelai
     DEF NextMoteur
<1> QED BY <1>1, <1>2

(* A text is published for the page it was read on, for any number of       *)
(* pages and of slaves: only the first slave of a file answers for a page,  *)
(* because its end gives the engine up before another says it is ready.     *)
THEOREM TexteDeLaPageProuve == Spec => []TexteDeLaPage
<1>1. Init => InvMoteur
  BY DebutMoteur DEF Init
<1>2. InvMoteur /\ [Next]_varsTaches => InvMoteur'
  <2>1. [Next]_varsTaches => [NextMoteur]_varsMoteur
    BY DEF Next, varsTaches
  <2> QED BY <2>1, UnPasDuMoteur
<1>3. InvMoteur => TexteDeLaPage
  BY DEF InvMoteur, SeulLePremier, TexteDeLaPage
<1> QED BY <1>1, <1>2, <1>3, PTL DEF Spec

----------------------------------------------------------------------------
(* The search of records.                                                   *)

Filtres == [libelle : Libelles \cup {SansValeur}, cote : Mesures \cup {SansValeur}, aValider : BOOLEAN]
TypeRecherche ==
  /\ demande \in [etape : {"repos", "sources", "facettes"}, texte : BOOLEAN, filtres : Filtres, date : Nat]
  /\ reprises \in Nat /\ demande.date <= reprises

Valeurs(axe) == IF axe = "libelle" THEN Libelles ELSE Mesures
Fouillees == IF demande.texte THEN Lexicales \cup ParDocuments ELSE FichesTrouvables

(* The facets shown are those of the search that ended, and of the records  *)
(* as they are unless one changed since.                                    *)
FacettesAJour ==
  facettes # SansValeur =>
    /\ facettes.date \in Nat /\ facettes.date <= reprises
    /\ \A axe \in {"libelle", "cote"} : DOMAIN facettes[axe] = Valeurs(axe)
    /\ demande.etape = "repos" /\ facettes.date = reprises =>
         \A axe \in {"libelle", "cote"} : facettes[axe] = Compter(axe, Valeurs(axe), base_facette(axe))

(* Until the search is made, what was announced is what it will find; then  *)
(* what it found stays.                                                     *)
SuiteAnnoncee ==
  suivie # SansValeur /\ demande.etape = "sources" /\ suivie.date = reprises =>
    suivie.nombre = Cardinality(Retenues(Fouillees, {}))

InvRecherche ==
  /\ TypeRecherche
  /\ FacettesAJour
  /\ suivie # SansValeur => suivie.date \in Nat /\ suivie.date <= reprises
  /\ SuiteAnnoncee
  /\ FacetteTenue

LEMMA DebutRecherche == InitRecherche => InvRecherche
BY DEF InitRecherche, InvRecherche, TypeRecherche, Filtres, SansFiltre, FacettesAJour, SuiteAnnoncee,
       FacetteTenue

LEMMA LeMoindre ==
  ASSUME NEW a \in Nat, NEW b \in Nat
  PROVE  Min({a, b}) = IF a <= b THEN a ELSE b
BY DEF Min

LEMMA PartiesRetenues ==
  ASSUME NEW S \in SUBSET FichesTrouvables, NEW t \in Classements(Retenues(S, {}))
  PROVE  /\ t \subseteq Retenues(S, {}) /\ IsFiniteSet(t) /\ IsFiniteSet(Retenues(S, {}))
         /\ Cardinality(Retenues(S, {})) \in Nat /\ Cardinality(t) \in Nat
         /\ Cardinality(Retenues(S, {})) <= Profondeur => t = Retenues(S, {})
         /\ Cardinality(Retenues(S, {})) > Profondeur => Cardinality(t) = Profondeur
<1> DEFINE R == Retenues(S, {})
<1>1. R \subseteq FichesTrouvables
  BY DEF Retenues
<1>2. IsFiniteSet(R) /\ Cardinality(R) \in Nat
  BY <1>1, HypRecherche, FS_Subset, FS_CardinalityType
<1>3. t \subseteq R /\ Cardinality(t) = Min({Cardinality(R), Profondeur})
  BY DEF Classements, kSubset
<1>4. Cardinality(t) = IF Cardinality(R) <= Profondeur THEN Cardinality(R) ELSE Profondeur
  BY <1>2, <1>3, LeMoindre, HypRecherche
<1>5. IsFiniteSet(t) /\ (Cardinality(t) = Cardinality(R) => t = R)
  BY <1>2, <1>3, FS_Subset
<1> HIDE DEF R
<1>6. Cardinality(t) \in Nat
  BY <1>2, <1>4, HypRecherche
<1> QED BY <1>2, <1>3, <1>4, <1>5, <1>6, HypRecherche DEF R

LEMMA UneRecherche ==
  ASSUME InvRecherche, rechercher_fiches
  PROVE  InvRecherche'
<1> DEFINE R == Retenues(Fouillees, {})
           n == Cardinality(R)
<1>1. /\ demande.etape = "sources" /\ demande' = [[demande EXCEPT !.etape = "facettes"] EXCEPT !.date = reprises]
      /\ UNCHANGED <<fonds, facettes, suivie, reprises>>
      /\ trouvees' \in IF demande.texte THEN fusionner_rrf ELSE liste_par_defaut
  BY DEF rechercher_fiches
<1>2. /\ TypeRecherche' /\ demande'.etape = "facettes" /\ demande'.date = reprises
  <2> DEFINE d1 == [demande EXCEPT !.etape = "facettes"]
  <2>1. /\ d1 \in [etape : {"repos", "sources", "facettes"}, texte : BOOLEAN, filtres : Filtres, date : Nat]
        /\ d1.etape = "facettes" /\ reprises \in Nat
    BY DEF InvRecherche, TypeRecherche
  <2>2. demande' = [d1 EXCEPT !.date = reprises]
    BY <1>1
  <2> HIDE DEF d1
  <2> QED BY <1>1, <2>1, <2>2 DEF TypeRecherche
<1>3. FacettesAJour'
  BY <1>1, <1>2 DEF InvRecherche, FacettesAJour
<1>4. n \in Nat /\ IsFiniteSet(R)
  <2>1. R \subseteq FichesTrouvables
    BY DEF Retenues, Fouillees, Lexicales, ParDocuments
  <2> QED BY <2>1, HypRecherche, FS_Subset, FS_CardinalityType
<1>5. IF n <= Profondeur THEN Cardinality(trouvees') = n ELSE Cardinality(trouvees') \in Profondeur..n
  <2>1. CASE ~demande.texte
    <3>1. Fouillees = FichesTrouvables /\ trouvees' \in Classements(Retenues(FichesTrouvables, {}))
      BY <1>1, <2>1 DEF Fouillees, liste_par_defaut
    <3> QED BY <1>4, <3>1, PartiesRetenues, HypRecherche
  <2>2. CASE demande.texte
    <3> DEFINE L == Retenues(Lexicales, {})
               P == Retenues(ParDocuments, {})
    <3>1. PICK s \in Classements(L), t \in Classements(P) : trouvees' = s \cup t
      BY <1>1, <2>2 DEF fusionner_rrf, source_lexicale, source_texte_pdf
    <3>2. R = L \cup P
      BY <2>2 DEF Fouillees, Retenues
    <3>3. Lexicales \in SUBSET FichesTrouvables /\ ParDocuments \in SUBSET FichesTrouvables
      BY DEF Lexicales, ParDocuments
    <3>4. /\ s \subseteq L /\ IsFiniteSet(s) /\ Cardinality(L) \in Nat /\ Cardinality(s) \in Nat
          /\ Cardinality(L) <= Profondeur => s = L
          /\ Cardinality(L) > Profondeur => Cardinality(s) = Profondeur
      BY <3>3, PartiesRetenues
    <3>5. /\ t \subseteq P /\ IsFiniteSet(t) /\ Cardinality(P) \in Nat /\ Cardinality(t) \in Nat
          /\ Cardinality(P) <= Profondeur => t = P
          /\ Cardinality(P) > Profondeur => Cardinality(t) = Profondeur
      BY <3>3, PartiesRetenues
    <3> HIDE DEF L, P, R, n
    <3>6. Cardinality(L) <= n /\ Cardinality(P) <= n
      BY <1>4, <3>2, FS_Subset DEF n
    <3>7. /\ Cardinality(s \cup t) \in Nat /\ Cardinality(s \cup t) <= n
          /\ Cardinality(s) <= Cardinality(s \cup t) /\ Cardinality(t) <= Cardinality(s \cup t)
      <4>1. s \cup t \subseteq R
        BY <3>2, <3>4, <3>5
      <4>2. IsFiniteSet(s \cup t)
        BY <3>4, <3>5, FS_Union
      <4> QED BY <1>4, <4>1, <4>2, FS_Subset, FS_CardinalityType DEF n
    <3>8. CASE Cardinality(L) <= Profondeur /\ Cardinality(P) <= Profondeur
      <4>1. trouvees' = R
        BY <3>1, <3>2, <3>4, <3>5, <3>8
      <4> QED BY <1>4, <4>1, HypRecherche DEF n
    <3>9. CASE ~(Cardinality(L) <= Profondeur /\ Cardinality(P) <= Profondeur)
      <4>1. n > Profondeur
        BY <1>4, <3>4, <3>5, <3>6, <3>9, HypRecherche
      <4>2. Cardinality(s \cup t) >= Profondeur
        BY <3>4, <3>5, <3>7, <3>9, HypRecherche
      <4> QED BY <1>4, <3>1, <3>7, <4>1, <4>2, HypRecherche
    <3> QED BY <3>8, <3>9
  <2> QED BY <2>1, <2>2 DEF InvRecherche, TypeRecherche
<1>6. FacetteTenue'
  <2> SUFFICES ASSUME suivie # SansValeur, suivie.date = reprises
               PROVE  IF suivie.nombre <= Profondeur THEN Cardinality(trouvees') = suivie.nombre
                      ELSE Cardinality(trouvees') \in Profondeur..suivie.nombre
    BY <1>1, <1>2 DEF FacetteTenue
  <2>1. suivie.nombre = n
    BY <1>1 DEF InvRecherche, SuiteAnnoncee
  <2> HIDE DEF n
  <2> QED BY <1>5, <2>1
<1> QED BY <1>1, <1>2, <1>3, <1>6 DEF InvRecherche, SuiteAnnoncee

LEMMA UnComptage ==
  ASSUME InvRecherche, compter_facettes
  PROVE  InvRecherche'
<1>1. /\ demande.etape = "facettes" /\ demande' = [demande EXCEPT !.etape = "repos"]
      /\ UNCHANGED <<fonds, trouvees, suivie, reprises>>
  BY DEF compter_facettes
<1>2. /\ TypeRecherche' /\ demande'.etape = "repos" /\ demande'.date = demande.date
      /\ demande'.texte = demande.texte /\ demande'.filtres = demande.filtres
  BY <1>1 DEF InvRecherche, TypeRecherche, Filtres
<1>3. /\ facettes'.date = reprises
      /\ facettes'.libelle = Compter("libelle", Libelles, base_facette("libelle"))
      /\ facettes'.cote = Compter("cote", Mesures, base_facette("cote"))
  BY DEF compter_facettes
<1>4. \A axe, V, S : Compter(axe, V, S)' = Compter(axe, V, S)
  BY <1>1 DEF Compter
<1>5. \A axe : base_facette(axe)' = base_facette(axe)
  BY <1>1, <1>2 DEF base_facette, Retenues, fragment_filtres, Lexicales, ParDocuments
<1>6. FacettesAJour'
  <2>1. \A axe \in {"libelle", "cote"} : facettes'[axe] = Compter(axe, Valeurs(axe), base_facette(axe))'
    <3>1. \A axe \in {"libelle", "cote"} : facettes'[axe] = Compter(axe, Valeurs(axe), base_facette(axe))
      BY <1>3 DEF Valeurs
    <3>2. \A axe : Compter(axe, Valeurs(axe), base_facette(axe))' = Compter(axe, Valeurs(axe), base_facette(axe))
      BY <1>1, <1>5 DEF Compter, Valeurs
    <3> QED BY <3>1, <3>2
  <2>2. \A axe \in {"libelle", "cote"} : DOMAIN facettes'[axe] = Valeurs(axe)
    BY <1>3 DEF Valeurs, Compter
  <2> QED BY <1>1, <1>3, <2>1, <2>2 DEF FacettesAJour, InvRecherche, TypeRecherche, Valeurs
<1> QED BY <1>1, <1>2, <1>6 DEF InvRecherche, SuiteAnnoncee, FacetteTenue

LEMMA UneDemande ==
  ASSUME InvRecherche, NEW texte \in BOOLEAN, NEW filtres \in Filtres, NEW s,
         Demander(texte, filtres, s), s # SansValeur => s.date \in Nat /\ s.date <= reprises,
         s # SansValeur /\ s.date = reprises => s.nombre = Cardinality(Retenues(Fouillees, {})')
  PROVE  InvRecherche'
<1>1. /\ demande' = [etape |-> "sources", texte |-> texte, filtres |-> filtres, date |-> reprises]
      /\ suivie' = s /\ UNCHANGED <<fonds, trouvees, facettes, reprises>>
  BY DEF Demander
<1>2. TypeRecherche' /\ demande'.etape = "sources"
  BY <1>1 DEF InvRecherche, TypeRecherche
<1>3. FacettesAJour' /\ FacetteTenue'
  BY <1>1, <1>2 DEF InvRecherche, FacettesAJour, FacetteTenue
<1>4. SuiteAnnoncee'
  BY <1>1 DEF SuiteAnnoncee
<1> QED BY <1>1, <1>2, <1>3, <1>4 DEF InvRecherche

LEMMA UneSuite ==
  ASSUME InvRecherche, NEW axe \in {"libelle", "cote"}, NEW v, suivre_facette(axe, v)
  PROVE  InvRecherche'
<1> DEFINE filtres == [demande.filtres EXCEPT ![axe] = v]
           s == [nombre |-> facettes[axe][v], date |-> facettes.date]
<1>1. /\ facettes # SansValeur /\ v \in DOMAIN facettes[axe] /\ Demander(demande.texte, filtres, s)
      /\ demande.etape = "repos"
  BY DEF suivre_facette, Demander
<1>2. facettes.date \in Nat /\ facettes.date <= reprises
  BY <1>1 DEF InvRecherche, FacettesAJour
<1>3. v \in Valeurs(axe) /\ v # SansValeur
  BY <1>1, HypRecherche DEF InvRecherche, FacettesAJour, Valeurs
<1>4. demande.filtres \in Filtres /\ demande.texte \in BOOLEAN
  BY DEF InvRecherche, TypeRecherche
<1>5. filtres \in Filtres
  BY <1>3, <1>4 DEF Filtres, Valeurs
<1>6. \A f : fragment_filtres(f, filtres, {}) <=> fragment_filtres(f, demande.filtres, {axe}) /\ fonds[f][axe] = v
  <2>1. CASE axe = "libelle"
    BY <1>3, <1>4, <2>1 DEF fragment_filtres, Filtres
  <2>2. CASE axe = "cote"
    BY <1>3, <1>4, <2>2 DEF fragment_filtres, Filtres
  <2> QED BY <2>1, <2>2
<1> HIDE DEF filtres
<1>7. Retenues(Fouillees, {})' = {f \in base_facette(axe) : fonds[f][axe] = v}
  <2>1. fonds' = fonds /\ demande'.filtres = filtres /\ demande'.texte = demande.texte
    BY <1>1 DEF Demander
  <2>2. Fouillees' = Fouillees /\ base_facette(axe) = Retenues(Fouillees, {axe})
    BY <2>1 DEF Fouillees, base_facette, Lexicales, ParDocuments
  <2>3. \A f : fragment_filtres(f, demande.filtres, {})' <=> fragment_filtres(f, filtres, {})
    BY <2>1 DEF fragment_filtres
  <2>4. Retenues(Fouillees, {})' = {f \in Fouillees : fragment_filtres(f, filtres, {})}
    BY <2>2, <2>3 DEF Retenues
  <2> QED BY <1>6, <2>2, <2>4 DEF Retenues
<1>8. facettes.date = reprises => facettes[axe][v] = Cardinality({f \in base_facette(axe) : fonds[f][axe] = v})
  BY <1>1, <1>3 DEF InvRecherche, FacettesAJour, Compter
<1>9. s.date = facettes.date /\ s.nombre = facettes[axe][v]
  OBVIOUS
<1> HIDE DEF s
<1> QED BY <1>1, <1>2, <1>4, <1>5, <1>7, <1>8, <1>9, UneDemande

(* A record changes: nothing announced before holds of it any more.         *)
LEMMA UneRepriseDeFiche ==
  ASSUME InvRecherche, NEW f, NEW fiche, Reprendre(f, fiche)
  PROVE  InvRecherche'
<1>1. reprises' = reprises + 1 /\ UNCHANGED <<demande, trouvees, facettes, suivie>>
  BY DEF Reprendre
<1>2. TypeRecherche' /\ reprises \in Nat
  BY <1>1 DEF InvRecherche, TypeRecherche
<1>3. FacettesAJour'
  BY <1>1, <1>2 DEF InvRecherche, FacettesAJour, Valeurs
<1>4. SuiteAnnoncee'
  BY <1>1, <1>2 DEF InvRecherche, SuiteAnnoncee
<1> QED BY <1>1, <1>2, <1>3, <1>4 DEF InvRecherche, FacetteTenue

LEMMA UnPasDeRecherche ==
  ASSUME InvRecherche, [NextRecherche]_varsRecherche
  PROVE  InvRecherche'
<1>1. CASE UNCHANGED varsRecherche
  <2>1. UNCHANGED <<fonds, demande, trouvees, facettes, suivie, reprises>>
    BY <1>1 DEF varsRecherche
  <2>2. TypeRecherche' /\ FacetteTenue'
    BY <2>1 DEF InvRecherche, TypeRecherche, FacetteTenue
  <2>3. \A axe, S : Retenues(S, {axe})' = Retenues(S, {axe}) /\ Retenues(S, {})' = Retenues(S, {})
    BY <2>1 DEF Retenues, fragment_filtres
  <2>4. /\ Fouillees' = Fouillees
        /\ \A axe : base_facette(axe)' = base_facette(axe)
    BY <2>1 DEF Fouillees, base_facette, Lexicales, ParDocuments, Retenues, fragment_filtres
  <2>5. \A axe, V, S : Compter(axe, V, S)' = Compter(axe, V, S)
    BY <2>1 DEF Compter
  <2>6. \A axe : Compter(axe, Valeurs(axe), base_facette(axe))' = Compter(axe, Valeurs(axe), base_facette(axe))
    BY <2>1, <2>4 DEF Compter, Valeurs
  <2>7. FacettesAJour'
    BY <2>1, <2>6 DEF InvRecherche, FacettesAJour, Valeurs
  <2>8. Retenues(Fouillees, {})' = Retenues(Fouillees, {})
    BY <2>1, <2>4 DEF Retenues, fragment_filtres
  <2>9. SuiteAnnoncee'
    BY <2>1, <2>8 DEF InvRecherche, SuiteAnnoncee
  <2> QED BY <2>1, <2>2, <2>7, <2>9 DEF InvRecherche
<1>2. ASSUME NEW texte \in BOOLEAN, NEW aValider \in BOOLEAN, nouvelle_recherche(texte, aValider)
      PROVE  InvRecherche'
  <2>1. [SansFiltre EXCEPT !.aValider = aValider] \in Filtres
    BY DEF SansFiltre, Filtres
  <2> QED BY <1>2, <2>1, UneDemande DEF nouvelle_recherche
<1>3. CASE NextRecherche
  BY <1>2, <1>3, UneRecherche, UnComptage, UneSuite, UneRepriseDeFiche
     DEF NextRecherche, valider_fiche, corriger_libelle
<1> QED BY <1>1, <1>3

(* A facet announces what following it finds, for any records, values and   *)
(* depth: what it counted is what the search then looks among, and the      *)
(* depth of a source takes only from those who announced more.              *)
THEOREM FacetteTenueProuvee == Spec => []FacetteTenue
<1>1. Init => InvRecherche
  <2>1. InitRecherche => InvRecherche
    BY DebutRecherche
  <2> QED BY <2>1 DEF Init, FondsVide
<1>2. InvRecherche /\ [Next]_varsTaches => InvRecherche'
  <2>1. [Next]_varsTaches => [NextRecherche]_varsRecherche
    BY DEF Next, varsTaches
  <2> QED BY <2>1, UnPasDeRecherche
<1>3. InvRecherche => FacetteTenue
  BY DEF InvRecherche
<1> QED BY <1>1, <1>2, <1>3, PTL DEF Spec

----------------------------------------------------------------------------
(* The doors: the files of a send.                                          *)

Cles == {CleInsensible(c) : c \in Chemins}
Traces == [cle : Cles, de : Nat \cup {Absent}]

TypeEnvoi ==
  envoi \in [etape : {"attend", "refuse", "ecrit", "erreur", "rendu"}, fichiers : Seq(Chemins),
             ecrits : Nat, disque : Seq(Traces)]

(* Each file written so far is at the place of its own name.                *)
ALaPlace(choix, ecrits, disque) ==
  /\ analyser_collisions(choix) = {}
  /\ ecrits <= Len(choix)
  /\ Len(disque) = ecrits
  /\ \A i \in 1..ecrits : disque[i] = [cle |-> CleInsensible(choix[i]), de |-> i]

InvEnvoi ==
  /\ TypeEnvoi
  /\ envoi.etape \in {"ecrit", "rendu"} => ALaPlace(envoi.fichiers, envoi.ecrits, envoi.disque)
  /\ envoi.etape = "rendu" => envoi.ecrits = Len(envoi.fichiers)

LEMMA DebutEnvoi == InitEntrees => InvEnvoi
BY DEF InitEntrees, RienEnvoye, InvEnvoi, TypeEnvoi

(* Without collisions a file takes no other's place.                        *)
LEMMA PlaceLibre ==
  ASSUME NEW choix \in Seq(Chemins), NEW ecrits \in Nat, NEW disque \in Seq(Traces),
         ALaPlace(choix, ecrits, disque), ecrits < Len(choix)
  PROVE  /\ Place(disque, ecrits + 1, choix) \in Seq(Traces)
         /\ ALaPlace(choix, ecrits + 1, Place(disque, ecrits + 1, choix))
<1> DEFINE i == ecrits + 1
           c == CleInsensible(choix[i])
           avant == [k \in DOMAIN disque |->
                       IF disque[k].cle = c THEN [cle |-> c, de |-> Absent] ELSE disque[k]]
           t == [cle |-> c, de |-> i]
<1>1. /\ i \in DOMAIN choix /\ c \in Cles /\ t \in Traces /\ [cle |-> c, de |-> Absent] \in Traces
      /\ DOMAIN disque = 1..ecrits
  BY EnFile DEF Cles, Traces, ALaPlace
<1>2. \A k \in 1..ecrits : disque[k] = [cle |-> CleInsensible(choix[k]), de |-> k]
  BY DEF ALaPlace
<1>3. \A k \in 1..ecrits : CleInsensible(choix[k]) # c
  <2> SUFFICES ASSUME NEW k \in 1..ecrits, CleInsensible(choix[k]) = c PROVE FALSE
    OBVIOUS
  <2>1. k < i /\ k \in DOMAIN choix
    OBVIOUS
  <2>2. <<k, i>> \in analyser_collisions(choix)
    BY <1>1, <2>1 DEF analyser_collisions
  <2> QED BY <2>2 DEF ALaPlace
<1>4. \A k \in 1..ecrits : avant[k] = disque[k]
  BY <1>1, <1>2, <1>3
<1>5. avant \in Seq(Traces) /\ Len(avant) = ecrits
  <2>1. \A k \in 1..ecrits : disque[k] \in Traces
    BY <1>1
  <2>2. avant \in [1..ecrits -> Traces]
    BY <1>1, <2>1
  <2> HIDE DEF avant
  <2>3. \A f \in [1..ecrits -> Traces] : f \in Seq(Traces) /\ Len(f) = ecrits
    OBVIOUS
  <2> QED BY <2>2, <2>3
<1>6. Place(disque, i, choix) = Append(avant, t)
  BY DEF Place
<1> HIDE DEF avant, t
<1>7. /\ Append(avant, t) \in Seq(Traces) /\ Len(Append(avant, t)) = i /\ Append(avant, t)[i] = t
      /\ \A k \in 1..ecrits : Append(avant, t)[k] = avant[k]
  BY <1>1, <1>5, EnFile
<1>8. \A k \in 1..i : Append(avant, t)[k] = [cle |-> CleInsensible(choix[k]), de |-> k]
  <2> SUFFICES ASSUME NEW k \in 1..i
               PROVE  Append(avant, t)[k] = [cle |-> CleInsensible(choix[k]), de |-> k]
    OBVIOUS
  <2>1. CASE k = i
    BY <1>7, <2>1 DEF t
  <2>2. CASE k \in 1..ecrits
    <3>1. Append(avant, t)[k] = avant[k] /\ avant[k] = disque[k]
      BY <1>4, <1>7, <2>2
    <3> QED BY <1>2, <2>2, <3>1
  <2>3. k = i \/ k \in 1..ecrits
    OBVIOUS
  <2> QED BY <2>1, <2>2, <2>3
<1>9. analyser_collisions(choix) = {} /\ i <= Len(choix)
  BY DEF ALaPlace
<1> DEFINE place == Append(avant, t)
<1>10. place = Place(disque, i, choix) /\ place \in Seq(Traces)
  BY <1>6, <1>7
<1>11. Len(place) = i /\ \A k \in 1..i : place[k] = [cle |-> CleInsensible(choix[k]), de |-> k]
  BY <1>7, <1>8
<1> HIDE DEF place
<1>12. ALaPlace(choix, i, place)
  BY <1>9, <1>11 DEF ALaPlace
<1> QED BY <1>10, <1>12

LEMMA SansTrace ==
  ASSUME NEW choix \in Seq(Chemins), NEW e
  PROVE  /\ <<>> \in Seq(Traces)
         /\ [RienEnvoye EXCEPT !.etape = e, !.fichiers = choix]
              = [etape |-> e, fichiers |-> choix, ecrits |-> 0, disque |-> <<>>]
<1>1. <<>> \in Seq(Traces)
  OBVIOUS
<1> DEFINE vide == <<>>
<1> HIDE DEF vide
<1> DEFINE y == [etape |-> "attend", fichiers |-> vide, ecrits |-> 0, disque |-> vide]
           x1 == [y EXCEPT !.etape = e]
           x == [x1 EXCEPT !.fichiers = choix]
<1>2. [RienEnvoye EXCEPT !.etape = e, !.fichiers = choix] = x
  BY DEF RienEnvoye, vide
<1>3. x1 = [etape |-> e, fichiers |-> vide, ecrits |-> 0, disque |-> vide]
  OBVIOUS
<1> HIDE DEF x1
<1>4. x = [etape |-> e, fichiers |-> choix, ecrits |-> 0, disque |-> vide]
  BY <1>3
<1> HIDE DEF x
<1> QED BY <1>1, <1>2, <1>4 DEF vide

LEMMA UneEcriture ==
  ASSUME InvEnvoi, NextEnvoi \/ UNCHANGED envoi
  PROVE  InvEnvoi'
<1> USE DEF InvEnvoi, TypeEnvoi
<1>1. CASE upload_import
  <2>1. PICK choix \in UNION {[1..n -> Chemins] : n \in 1..MaxEnvois} :
          envoi' = IF analyser_collisions(choix) # {}
                     THEN [RienEnvoye EXCEPT !.etape = "refuse", !.fichiers = choix]
                     ELSE [RienEnvoye EXCEPT !.etape = "ecrit", !.fichiers = choix]
    BY <1>1 DEF upload_import, SuiteEnvoi
  <2>2. choix \in Seq(Chemins)
    OBVIOUS
  <2>3. CASE analyser_collisions(choix) # {}
    <3>1. envoi' = [etape |-> "refuse", fichiers |-> choix, ecrits |-> 0, disque |-> <<>>]
      BY <2>1, <2>2, <2>3, SansTrace
    <3> QED BY <2>2, <3>1, SansTrace
  <2>4. CASE analyser_collisions(choix) = {}
    <3>1. envoi' = [etape |-> "ecrit", fichiers |-> choix, ecrits |-> 0, disque |-> <<>>]
      BY <2>1, <2>2, <2>4, SansTrace
    <3>2. ALaPlace(choix, 0, <<>>)
      BY <2>2, <2>4 DEF ALaPlace
    <3> QED BY <2>2, <3>1, <3>2, SansTrace
  <2> QED BY <2>3, <2>4
<1>2. CASE ecrire_fichier
  <2> DEFINE i == envoi.ecrits + 1
             e == [envoi EXCEPT !.ecrits = i, !.disque = Place(envoi.disque, i, envoi.fichiers)]
  <2>1. /\ envoi.etape = "ecrit" /\ envoi.ecrits < Len(envoi.fichiers)
        /\ \/ envoi' = [RienEnvoye EXCEPT !.etape = "erreur", !.fichiers = envoi.fichiers]
           \/ envoi' = e
    BY <1>2 DEF ecrire_fichier, SuiteEnvoi
  <2>2. CASE envoi' = [RienEnvoye EXCEPT !.etape = "erreur", !.fichiers = envoi.fichiers]
    <3>1. envoi' = [etape |-> "erreur", fichiers |-> envoi.fichiers, ecrits |-> 0, disque |-> <<>>]
      BY <2>2, SansTrace
    <3> QED BY <3>1, SansTrace
  <2>3. CASE envoi' = e
    <3>1. /\ Place(envoi.disque, i, envoi.fichiers) \in Seq(Traces)
          /\ ALaPlace(envoi.fichiers, i, Place(envoi.disque, i, envoi.fichiers))
      BY <2>1, PlaceLibre
    <3>2. envoi' = [etape |-> "ecrit", fichiers |-> envoi.fichiers, ecrits |-> i,
                    disque |-> Place(envoi.disque, i, envoi.fichiers)]
      BY <2>1, <2>3
    <3>3. i \in Nat
      OBVIOUS
    <3> HIDE DEF i
    <3> QED BY <3>1, <3>2, <3>3
  <2> QED BY <2>1, <2>2, <2>3
<1>3. CASE interrompre_envoi
  <2>1. envoi' = [RienEnvoye EXCEPT !.etape = "erreur", !.fichiers = envoi.fichiers]
    BY <1>3 DEF interrompre_envoi, SuiteEnvoi
  <2>2. envoi' = [etape |-> "erreur", fichiers |-> envoi.fichiers, ecrits |-> 0, disque |-> <<>>]
    BY <2>1, SansTrace
  <2> QED BY <2>2, SansTrace
<1>4. CASE rendre_envoi
  <2>1. envoi.etape = "ecrit" /\ envoi.ecrits = Len(envoi.fichiers)
        /\ envoi' = [envoi EXCEPT !.etape = "rendu"]
    BY <1>4 DEF rendre_envoi, SuiteEnvoi
  <2>2. /\ envoi'.etape = "rendu" /\ envoi'.fichiers = envoi.fichiers /\ envoi'.ecrits = envoi.ecrits
        /\ envoi'.disque = envoi.disque
        /\ envoi' \in [etape : {"rendu"}, fichiers : Seq(Chemins), ecrits : Nat, disque : Seq(Traces)]
    BY <2>1
  <2> QED BY <2>1, <2>2
<1>5. CASE UNCHANGED envoi
  BY <1>5
<1> QED BY <1>1, <1>2, <1>3, <1>4, <1>5 DEF NextEnvoi

LEMMA EnvoiTenu == InvEnvoi => EnvoiEntier
<1> SUFFICES ASSUME InvEnvoi, envoi.etape = "rendu", NEW i \in DOMAIN envoi.fichiers
             PROVE  \E k \in DOMAIN envoi.disque :
                      envoi.disque[k] = [cle |-> CleInsensible(envoi.fichiers[i]), de |-> i]
  BY DEF EnvoiEntier
<1>1. i \in 1..envoi.ecrits /\ i \in DOMAIN envoi.disque
  BY EnFile DEF InvEnvoi, TypeEnvoi, ALaPlace
<1> QED BY <1>1 DEF InvEnvoi, ALaPlace

----------------------------------------------------------------------------
(* The doors: the import the web process executes.                          *)

StatutsImport == {"completed", "needs_review", "failed", "upload_incomplete"}
Imports == [statut : StatutsImport, attente : BOOLEAN]
StatutsJob == StatutsImport \cup {"pending", "running", "cancelled"}
Jobs == [statut : StatutsJob, durabilite : {"process_memory"}]
EtapesFil == {"repos", "debut", "travail", "envoi", "publie", "resultat", "annulation",
              "exception", "rendu", "arrete"}

TypeImport ==
  /\ fil \in [mode : {Absent, "attendu", "memoire"}, etape : EtapesFil,
              reponse : {Absent, "erreur", "erreur_base"} \cup StatutsImport]
  /\ imp \in {Absent} \cup Imports
  /\ job \in {Absent} \cup Jobs
  /\ lecture \in [Lecteurs -> [etape : {"attend", "lu", "repondu"}, record : {Absent} \cup Imports,
                               reponse : {Absent, "404"} \cup StatutsJob]]

(* What the thread has written when it stands at each of its steps.         *)
EcritALEtape ==
  /\ fil.etape = "repos" => job = Absent
  /\ fil.etape \in {"repos", "debut", "travail"} => imp = Absent
  /\ fil.etape = "envoi" => imp = [statut |-> "needs_review", attente |-> TRUE]
  /\ fil.etape \in {"publie", "resultat"} => imp # Absent

(* A job ends completed after its import was published so, and stays so.    *)
JobTermine ==
  job # Absent /\ job.statut = "completed" =>
    /\ fil.etape \in {"rendu", "arrete"}
    /\ imp # Absent /\ imp.statut = "completed"

(* A row without doubt that a reader holds is the last one.                 *)
RecordActuel ==
  \A l \in Lecteurs : lecture[l].record # Absent /\ lecture[l].record.attente = FALSE =>
    lecture[l].record = imp

ErreurFinale == fil.reponse = "erreur" => fil.etape \in {"rendu", "arrete"} /\ ~PublicationIncertaine

InvImport == TypeImport /\ EcritALEtape /\ JobTermine /\ RecordActuel /\ AnnonceVraie /\ ErreurFinale

LEMMA AbsentDistinct == Absent \notin Imports /\ Absent # "completed" /\ Absent # "erreur"
BY HypEntrees DEF Imports, StatutsImport

LEMMA DebutImport == InitEntrees => InvImport
BY AbsentDistinct DEF InitEntrees, FilAbsent, PasLu, InvImport, TypeImport, EcritALEtape, JobTermine,
  RecordActuel, AnnonceVraie, ErreurFinale, EtapesFil

(* Only a job not completed is written by the thread, and it keeps what it  *)
(* was created with.                                                        *)
LEMMA LigneEcrite ==
  ASSUME NEW s \in StatutsJob, job \in {Absent} \cup Jobs, update_job(s)
  PROVE  /\ job' \in {Absent} \cup Jobs
         /\ job = Absent => job' = Absent
         /\ job' = job \/ (job' \in Jobs /\ job'.statut = s /\ job # Absent)
BY DEF update_job, Jobs

(* The steps that write no row of imports and leave the readers alone.      *)
LEMMA SansPublication ==
  ASSUME InvImport, UNCHANGED <<imp, lecture>>,
         job' \in {Absent} \cup Jobs,
         \/ job' = job
         \/ job # Absent /\ job.statut # "completed"
         \/ job = Absent /\ fil.etape = "repos",
         fil' \in [mode : {Absent, "attendu", "memoire"}, etape : EtapesFil,
                   reponse : {Absent, "erreur", "erreur_base"} \cup StatutsImport],
         EcritALEtape', JobTermine',
         fil'.reponse = "erreur" =>
           fil'.etape \in {"rendu", "arrete"} /\ (fil.reponse = "erreur" \/ ~PublicationIncertaine)
  PROVE  InvImport'
<1>1. TypeImport'
  BY DEF InvImport, TypeImport
<1>2. RecordActuel'
  BY DEF InvImport, RecordActuel
<1>3. AnnonceVraie'
  <2> SUFFICES ASSUME NEW l \in Lecteurs, lecture[l].reponse = "completed"
               PROVE  imp # Absent /\ imp.statut = "completed" /\ (job' # Absent => job'.statut = "completed")
    BY DEF AnnonceVraie
  <2>1. imp # Absent /\ imp.statut = "completed" /\ (job # Absent => job.statut = "completed")
    BY DEF InvImport, AnnonceVraie
  <2>2. job' = job
    BY <2>1 DEF InvImport, EcritALEtape
  <2> QED BY <2>1, <2>2
<1>4. ErreurFinale'
  BY DEF InvImport, ErreurFinale, PublicationIncertaine
<1> QED BY <1>1, <1>2, <1>3, <1>4 DEF InvImport

(* The thread's step to an étape that promises nothing.                     *)
LEMMA UnPasDuFil ==
  ASSUME InvImport, UNCHANGED <<imp, lecture, job>>, NEW e \in EtapesFil,
         fil' = [fil EXCEPT !.etape = e],
         fil.etape \notin {"rendu", "arrete"} \/ e \in {"rendu", "arrete"},
         e \in {"publie", "resultat"} => imp # Absent,
         e \notin {"repos", "debut", "travail", "envoi"}
  PROVE  InvImport'
<1>1. /\ fil' \in [mode : {Absent, "attendu", "memoire"}, etape : EtapesFil,
                   reponse : {Absent, "erreur", "erreur_base"} \cup StatutsImport]
      /\ fil'.etape = e /\ fil'.reponse = fil.reponse
  BY DEF InvImport, TypeImport
<1>2. EcritALEtape'
  BY <1>1 DEF EcritALEtape
<1>3. JobTermine'
  BY <1>1 DEF InvImport, JobTermine
<1>4. fil.reponse = "erreur" => e \in {"rendu", "arrete"}
  BY DEF InvImport, ErreurFinale
<1>5. fil'.reponse = "erreur" =>
        fil'.etape \in {"rendu", "arrete"} /\ (fil.reponse = "erreur" \/ ~PublicationIncertaine)
  BY <1>1, <1>4
<1>6. job' \in {Absent} \cup Jobs
  BY DEF InvImport, TypeImport
<1> QED BY <1>1, <1>2, <1>3, <1>5, <1>6, SansPublication

(* A thread that has not answered yet has answered no error.                *)
LEMMA PasEncore ==
  InvImport /\ fil.etape \notin {"rendu", "arrete"} => fil.reponse # "erreur"
BY DEF InvImport, ErreurFinale

(* The thread ends by writing its job.                                      *)
LEMMA JobEcrit ==
  ASSUME InvImport, fil.etape \in {"resultat", "annulation", "exception"}, NEW s \in StatutsJob,
         update_job(s), UNCHANGED <<imp, lecture>>, fil' = [fil EXCEPT !.etape = "rendu"],
         s = "completed" => imp # Absent /\ imp.statut = "completed"
  PROVE  InvImport'
<1>1. /\ fil' \in [mode : {Absent, "attendu", "memoire"}, etape : EtapesFil,
                   reponse : {Absent, "erreur", "erreur_base"} \cup StatutsImport]
      /\ fil'.etape = "rendu" /\ fil'.reponse = fil.reponse
  BY DEF InvImport, TypeImport, EtapesFil
<1>2. /\ job' \in {Absent} \cup Jobs /\ (job = Absent => job' = Absent)
      /\ job' = job \/ (job' \in Jobs /\ job'.statut = s /\ job # Absent)
  BY LigneEcrite DEF InvImport, TypeImport
<1>3. job # Absent => job.statut # "completed"
  BY DEF InvImport, JobTermine
<1>4. EcritALEtape'
  BY <1>1 DEF EcritALEtape
<1>5. JobTermine'
  BY <1>1, <1>2, <1>3 DEF JobTermine
<1>6. job' = job \/ (job # Absent /\ job.statut # "completed")
  BY <1>2, <1>3
<1>7. fil'.reponse # "erreur"
  BY <1>1, PasEncore
<1> QED BY <1>1, <1>2, <1>4, <1>5, <1>6, <1>7, SansPublication

LEMMA UnPasImport ==
  ASSUME InvImport, NextImport \/ UNCHANGED <<job, fil, imp, lecture>>
  PROVE  InvImport'
<1> DEFINE Fils == [mode : {Absent, "attendu", "memoire"}, etape : EtapesFil,
                    reponse : {Absent, "erreur", "erreur_base"} \cup StatutsImport]
<1>a. fil \in Fils /\ job \in {Absent} \cup Jobs /\ imp \in {Absent} \cup Imports
  BY DEF InvImport, TypeImport
<1>1. CASE confirm_import
  <2>1. /\ fil = FilAbsent /\ job = Absent /\ imp = Absent /\ UNCHANGED <<imp, lecture>>
        /\ fil' \in Fils /\ fil'.etape = "debut" /\ fil'.reponse = Absent
        /\ job' = Absent \/ job' = [statut |-> "pending", durabilite |-> "process_memory"]
    BY <1>1 DEF confirm_import, FilAbsent, InvImport, EcritALEtape, EtapesFil
  <2>2. job' \in {Absent} \cup Jobs /\ (job' # Absent => job'.statut = "pending")
    BY <2>1 DEF Jobs, StatutsJob
  <2>3. EcritALEtape' /\ JobTermine'
    BY <2>1, <2>2 DEF EcritALEtape, JobTermine
  <2>4. fil.etape = "repos" /\ fil'.reponse # "erreur"
    BY <2>1, AbsentDistinct DEF FilAbsent
  <2> QED BY <2>1, <2>2, <2>3, <2>4, SansPublication
<1>2. CASE debuter_import
  <2>1. /\ fil.etape = "debut" /\ fil' = [fil EXCEPT !.etape = "travail"] /\ UNCHANGED <<imp, lecture>>
        /\ update_job("running")
    BY <1>2 DEF debuter_import, Importer
  <2>2. fil' \in Fils /\ fil'.etape = "travail" /\ fil'.reponse = fil.reponse
    BY <1>a, <2>1 DEF EtapesFil
  <2>3. /\ job' \in {Absent} \cup Jobs /\ (job = Absent => job' = Absent)
        /\ job' = job \/ (job' \in Jobs /\ job'.statut = "running" /\ job # Absent)
    BY <1>a, <2>1, LigneEcrite DEF StatutsJob
  <2>4. job # Absent => job.statut # "completed"
    BY <2>1 DEF InvImport, JobTermine
  <2>5. EcritALEtape' /\ JobTermine'
    BY <2>1, <2>2, <2>3, <2>4 DEF InvImport, EcritALEtape, JobTermine
  <2>6. fil'.reponse # "erreur"
    BY <2>1, <2>2, PasEncore
  <2> QED BY <2>1, <2>2, <2>3, <2>4, <2>5, <2>6, SansPublication
<1>3. ASSUME UNCHANGED <<job, lecture>>, NEW e \in {"envoi", "publie"},
             fil.etape \in {"travail", "envoi"}, fil' = [fil EXCEPT !.etape = e],
             imp' \in Imports, e = "envoi" => imp' = [statut |-> "needs_review", attente |-> TRUE]
      PROVE  InvImport'
  <2>1. fil' \in Fils /\ fil'.etape = e /\ fil'.reponse = fil.reponse
    BY <1>a, <1>3 DEF EtapesFil
  <2>2. imp = Absent \/ imp = [statut |-> "needs_review", attente |-> TRUE]
    BY <1>3 DEF InvImport, EcritALEtape
  <2>3. TypeImport'
    BY <1>3, <2>1 DEF InvImport, TypeImport
  <2>4. EcritALEtape'
    BY <1>3, <2>1, AbsentDistinct DEF EcritALEtape
  <2>5. JobTermine'
    BY <1>3 DEF InvImport, JobTermine
  <2>6. RecordActuel'
    <3> SUFFICES ASSUME NEW l \in Lecteurs, lecture[l].record # Absent, lecture[l].record.attente = FALSE
                 PROVE  FALSE
      BY <1>3 DEF RecordActuel
    <3>1. lecture[l].record = imp
      BY DEF InvImport, RecordActuel
    <3> QED BY <2>2, <3>1
  <2>7. AnnonceVraie'
    BY <1>3, <2>2 DEF InvImport, AnnonceVraie
  <2>8. fil'.reponse # "erreur"
    BY <1>3, <2>1, PasEncore
  <2> QED BY <2>3, <2>4, <2>5, <2>6, <2>7, <2>8 DEF InvImport, ErreurFinale
<1>4. CASE persister_intention
  BY <1>3, <1>4 DEF persister_intention, Importer, Imports, StatutsImport
<1>5. CASE publier_import
  <2>1. /\ fil.etape \in {"travail", "envoi"} /\ UNCHANGED <<job, lecture>>
        /\ fil' = [fil EXCEPT !.etape = "publie"]
    BY <1>5 DEF publier_import, Importer
  <2>2. \/ \E s \in {"completed", "needs_review", "failed"} : imp' = [statut |-> s, attente |-> FALSE]
        \/ imp' \in [statut : {"needs_review", "upload_incomplete"}, attente : {FALSE}]
        \/ imp' = [statut |-> "needs_review", attente |-> TRUE]
    BY <1>5 DEF publier_import
  <2>3. imp' \in Imports
    <3> USE DEF Imports, StatutsImport
    <3>1. CASE \E s \in {"completed", "needs_review", "failed"} : imp' = [statut |-> s, attente |-> FALSE]
      BY <3>1
    <3>2. CASE imp' \in [statut : {"needs_review", "upload_incomplete"}, attente : {FALSE}]
      BY <3>2
    <3>3. CASE imp' = [statut |-> "needs_review", attente |-> TRUE]
      BY <3>3
    <3> QED BY <2>2, <3>1, <3>2, <3>3
  <2> QED BY <1>3, <2>1, <2>3
<1>6. CASE rendre_import
  <2>1. /\ fil.etape = "publie" /\ UNCHANGED <<job, imp, lecture>> /\ imp \in Imports
        /\ fil' = [fil EXCEPT !.etape = "rendu", !.reponse = imp.statut]
    BY <1>6, <1>a DEF rendre_import, InvImport, EcritALEtape
  <2>2. imp.statut \in StatutsImport /\ imp.statut # "erreur"
    BY <2>1 DEF Imports, StatutsImport
  <2>3. fil' \in Fils /\ fil'.etape = "rendu" /\ fil'.reponse # "erreur"
    BY <1>a, <2>1, <2>2 DEF EtapesFil
  <2>4. EcritALEtape' /\ JobTermine'
    BY <2>1, <2>3 DEF InvImport, EcritALEtape, JobTermine
  <2> QED BY <1>a, <2>1, <2>3, <2>4, SansPublication
<1>7. CASE ecrire_resultat
  <2>1. /\ fil.etape = "publie" /\ UNCHANGED <<job, imp, lecture>> /\ imp # Absent
        /\ \E e \in {"annulation", "resultat"} : fil' = [fil EXCEPT !.etape = e]
    BY <1>7 DEF ecrire_resultat, Importer, InvImport, EcritALEtape
  <2> QED BY <2>1, UnPasDuFil DEF EtapesFil
<1>8. CASE terminer_fil
  <2>1. /\ fil.etape = "resultat" /\ update_job(imp.statut) /\ UNCHANGED <<imp, lecture>>
        /\ fil' = [fil EXCEPT !.etape = "rendu"] /\ imp \in Imports
    BY <1>8, <1>a DEF terminer_fil, Importer, InvImport, EcritALEtape
  <2>2. imp # Absent /\ imp.statut \in StatutsJob
    BY <2>1, AbsentDistinct DEF Imports, StatutsJob
  <2> QED BY <2>1, <2>2, JobEcrit
<1>9. CASE echouer_import
  <2>1. /\ fil.etape \in {"debut", "travail", "envoi", "publie"} /\ UNCHANGED <<job, imp, lecture>>
        /\ fil' = [fil EXCEPT !.etape = "exception"]
    BY <1>9 DEF echouer_import, Importer
  <2> QED BY <2>1, UnPasDuFil DEF EtapesFil
<1>10. CASE annuler_import
  <2>1. /\ fil.etape \in {"travail", "envoi"} /\ UNCHANGED <<job, imp, lecture>>
        /\ fil' = [fil EXCEPT !.etape = "annulation"]
    BY <1>10 DEF annuler_import, Importer
  <2> QED BY <2>1, UnPasDuFil DEF EtapesFil
<1>11. CASE execute_import_background
  <2>1. /\ fil.etape \in {"annulation", "exception"} /\ UNCHANGED <<imp, lecture>>
        /\ fil' = [fil EXCEPT !.etape = "rendu"]
        /\ \E s \in {"cancelled", "needs_review", "failed"} : update_job(s)
    BY <1>11 DEF execute_import_background, Importer
  <2> QED BY <2>1, JobEcrit DEF StatutsJob, StatutsImport
<1>12. CASE repondre_echec
  <2>1. /\ fil.etape = "exception" /\ UNCHANGED <<job, imp, lecture>>
        /\ \E r \in {"needs_review", "erreur", "erreur_base"} :
             /\ fil' = [fil EXCEPT !.etape = "rendu", !.reponse = r]
             /\ r = "erreur" => ~PublicationIncertaine
    BY <1>12 DEF repondre_echec, reponse_intention_incertaine
  <2>2. /\ fil' \in Fils /\ fil'.etape = "rendu"
        /\ fil'.reponse = "erreur" => ~PublicationIncertaine
    BY <1>a, <2>1 DEF EtapesFil, StatutsImport
  <2>3. EcritALEtape' /\ JobTermine'
    BY <2>1, <2>2 DEF InvImport, EcritALEtape, JobTermine
  <2> QED BY <1>a, <2>1, <2>2, <2>3, SansPublication
<1>13. ASSUME NEW s \in {"cancelled", "pending"}, job # Absent, job.statut \in {"pending", "running"},
              job' = [job EXCEPT !.statut = s], UNCHANGED <<fil, imp, lecture>>
       PROVE  InvImport'
  <2>1. job' \in Jobs /\ job'.statut = s
    BY <1>a, <1>13 DEF Jobs, StatutsJob
  <2>2. EcritALEtape' /\ JobTermine'
    BY <1>13, <2>1 DEF InvImport, EcritALEtape, JobTermine
  <2>3. fil'.reponse = "erreur" => fil'.etape \in {"rendu", "arrete"}
    BY <1>13 DEF InvImport, ErreurFinale
  <2> QED BY <1>13, <1>a, <2>1, <2>2, <2>3, SansPublication
<1>14. CASE cancel_import_job
  BY <1>13, <1>14 DEF cancel_import_job
<1>15. CASE reconcilier_orphelin
  BY <1>13, <1>15 DEF reconcilier_orphelin
<1>16. CASE recover_stale_jobs
  <2>1. /\ UNCHANGED <<imp, lecture>> /\ fil' = [fil EXCEPT !.etape = "arrete"]
        /\ \/ job' = job
           \/ job # Absent /\ job.statut \in {"pending", "running"} /\ job' = [job EXCEPT !.statut = "failed"]
    BY <1>16 DEF recover_stale_jobs
  <2>2. fil' \in Fils /\ fil'.etape = "arrete" /\ fil'.reponse = fil.reponse
    BY <1>a, <2>1 DEF EtapesFil
  <2>3. job' \in {Absent} \cup Jobs
    BY <1>a, <2>1 DEF Jobs, StatutsJob, StatutsImport
  <2>4. EcritALEtape' /\ JobTermine'
    BY <1>a, <2>1, <2>2 DEF InvImport, EcritALEtape, JobTermine, Jobs
  <2> QED BY <2>1, <2>2, <2>3, <2>4, SansPublication
<1>17. CASE \E l \in Lecteurs : lire_record(l)
  <2>1. PICK l \in Lecteurs :
          /\ UNCHANGED <<job, fil, imp>>
          /\ lecture' = [lecture EXCEPT ![l] = [etape |-> "lu", record |-> imp, reponse |-> Absent]]
    BY <1>17 DEF lire_record
  <2>2. TypeImport'
    BY <2>1 DEF InvImport, TypeImport
  <2>3. RecordActuel'
    BY <2>1 DEF InvImport, TypeImport, RecordActuel
  <2>4. AnnonceVraie'
    BY <2>1, AbsentDistinct DEF InvImport, TypeImport, AnnonceVraie
  <2> QED BY <2>1, <2>2, <2>3, <2>4
         DEF InvImport, EcritALEtape, JobTermine, ErreurFinale, PublicationIncertaine
<1>18. CASE \E l \in Lecteurs : repondre_lecture(l)
  <2>1. PICK l \in Lecteurs :
          /\ UNCHANGED <<job, fil, imp>>
          /\ lecture' = [lecture EXCEPT ![l] =
               [etape |-> "repondu", record |-> Absent, reponse |-> EtatAnnonce(lecture[l].record, job)]]
    BY <1>18 DEF repondre_lecture
  <2> DEFINE record == lecture[l].record
             reponse == EtatAnnonce(record, job)
  <2>2. record \in {Absent} \cup Imports
    BY DEF InvImport, TypeImport
  <2>3. reponse \in {Absent, "404"} \cup StatutsJob
    BY <1>a, <2>2 DEF EtatAnnonce, Imports, Jobs, StatutsJob, StatutsImport
  <2>4. ASSUME reponse = "completed"
        PROVE  imp # Absent /\ imp.statut = "completed" /\ (job # Absent => job.statut = "completed")
    <3>1. CASE record # Absent /\ record.attente = FALSE
      <4>1. record = imp
        BY <3>1 DEF InvImport, RecordActuel
      <4> QED BY <2>4, <3>1, <4>1 DEF EtatAnnonce
    <3>2. CASE record = Absent
      <4>1. job # Absent /\ job.statut = "completed"
        BY <2>4, <3>2 DEF EtatAnnonce
      <4> QED BY <4>1 DEF InvImport, JobTermine
    <3>3. CASE record # Absent /\ record.attente = TRUE
      BY <2>4, <3>3 DEF EtatAnnonce
    <3> QED BY <2>2, <3>1, <3>2, <3>3 DEF Imports
  <2> HIDE DEF reponse
  <2>5. TypeImport'
    BY <2>1, <2>3 DEF InvImport, TypeImport, reponse
  <2>6. RecordActuel'
    BY <2>1 DEF InvImport, TypeImport, RecordActuel
  <2>7. lecture' = [lecture EXCEPT ![l] =
          [etape |-> "repondu", record |-> Absent, reponse |-> reponse]]
    BY <2>1 DEF reponse
  <2>8. AnnonceVraie'
    BY <2>1, <2>4, <2>7 DEF InvImport, TypeImport, AnnonceVraie
  <2> QED BY <2>1, <2>5, <2>6, <2>8
         DEF InvImport, EcritALEtape, JobTermine, ErreurFinale, PublicationIncertaine
<1>19. CASE UNCHANGED <<job, fil, imp, lecture>>
  BY <1>19 DEF InvImport, TypeImport, EcritALEtape, JobTermine, RecordActuel, AnnonceVraie,
    ErreurFinale, PublicationIncertaine
<1> QED BY <1>1, <1>2, <1>4, <1>5, <1>6, <1>7, <1>8, <1>9, <1>10, <1>11, <1>12, <1>14, <1>15, <1>16,
          <1>17, <1>18, <1>19 DEF NextImport

----------------------------------------------------------------------------
(* The doors: the requests of a client.                                     *)

TypeLimite ==
  /\ requetes \in [instant : Nat, dates : Seq(Nat), memoire : SUBSET Nat, servies : SUBSET Nat,
                   redis : BOOLEAN]
  /\ requetes.memoire \subseteq 1..Len(requetes.dates)
  /\ requetes.servies \subseteq 1..Len(requetes.dates)
  /\ \A r \in 1..Len(requetes.dates) : requetes.dates[r] <= requetes.instant

(* A request let through is remembered as long as the limit looks back.     *)
ServieRetenue ==
  \A r \in requetes.servies :
    requetes.dates[r] + Fenetre > requetes.instant => r \in requetes.memoire

ServiesAutourDe(t) ==
  {r \in requetes.servies : requetes.dates[r] <= t /\ requetes.dates[r] + Fenetre > t}

(* No window ever holds more than the limit, those to come included.        *)
FenetresTenues == \A t \in Nat : Cardinality(ServiesAutourDe(t)) <= Limite

InvLimite == TypeLimite /\ ServieRetenue /\ FenetresTenues

LEMMA SousEnsemble ==
  ASSUME NEW n \in Nat, NEW S, S \subseteq 1..n
  PROVE  IsFiniteSet(S) /\ Cardinality(S) \in Nat
<1>1. IsFiniteSet(1..n)
  BY FS_Interval
<1> QED BY <1>1, FS_Subset, FS_CardinalityType

LEMMA DebutLimite == InitEntrees => InvLimite
<1> SUFFICES ASSUME InitEntrees PROVE InvLimite
  OBVIOUS
<1>1. PICK b \in BOOLEAN :
        requetes = [instant |-> 0, dates |-> <<>>, memoire |-> {}, servies |-> {}, redis |-> b]
  BY DEF InitEntrees
<1>2. TypeLimite /\ ServieRetenue
  BY <1>1 DEF TypeLimite, ServieRetenue
<1>3. FenetresTenues
  <2> SUFFICES ASSUME NEW t \in Nat PROVE Cardinality(ServiesAutourDe(t)) <= Limite
    BY DEF FenetresTenues
  <2>1. ServiesAutourDe(t) = {}
    BY <1>1 DEF ServiesAutourDe
  <2> QED BY <2>1, FS_EmptySet, HypEntrees
<1> QED BY <1>2, <1>3 DEF InvLimite

(* A request let through keeps every window within the limit.               *)
LEMMA UneRequete ==
  ASSUME InvLimite, check_rate_limit
  PROVE  InvLimite'
<1> DEFINE d == requetes.dates
           T == requetes.instant
           n == Len(d)
           connues == Recentes(requetes.memoire)
           accepte == Cardinality(connues) < Limite
           garde == requetes.redis \/ accepte
           d1 == IF garde THEN Append(d, T) ELSE d
           m1 == Retenir(connues, n + 1, accepte)
           s1 == IF accepte THEN requetes.servies \cup {n + 1} ELSE requetes.servies
<1>1. /\ d \in Seq(Nat) /\ T \in Nat /\ n \in Nat /\ DOMAIN d = 1..n
      /\ requetes.memoire \subseteq 1..n /\ requetes.servies \subseteq 1..n
      /\ \A r \in 1..n : d[r] <= T /\ d[r] \in Nat
  BY EnFile DEF InvLimite, TypeLimite
<1>2. /\ requetes'.instant = T /\ requetes'.dates = d1 /\ requetes'.memoire = m1
      /\ requetes'.servies = s1 /\ requetes'.redis = requetes.redis
      /\ requetes' \in [instant : Nat, dates : {d1}, memoire : {m1}, servies : {s1}, redis : BOOLEAN]
  BY DEF check_rate_limit, InvLimite, TypeLimite
<1>3. /\ Append(d, T) \in Seq(Nat) /\ Len(Append(d, T)) = n + 1 /\ Append(d, T)[n + 1] = T
      /\ \A r \in 1..n : Append(d, T)[r] = d[r]
  BY <1>1, EnFile
<1>4. connues \subseteq 1..n
  BY <1>1 DEF Recentes
<1>5. /\ d1 \in Seq(Nat) /\ \A r \in 1..n : d1[r] = d[r]
      /\ garde => Len(d1) = n + 1 /\ d1[n + 1] = T
      /\ ~garde => Len(d1) = n
  BY <1>1, <1>3
<1>6. /\ m1 \subseteq 1..Len(d1) /\ connues \subseteq m1 /\ (accepte => n + 1 \in m1)
  BY <1>1, <1>4, <1>5 DEF Retenir
<1>7. s1 \subseteq 1..Len(d1)
  BY <1>1, <1>5
<1>8. \A r \in 1..Len(d1) : d1[r] <= T
  BY <1>1, <1>5
<1> HIDE DEF d1, m1, s1
<1>9. TypeLimite'
  <2>1. Len(d1) \in Nat
    BY <1>5
  <2>2. m1 \in SUBSET Nat /\ s1 \in SUBSET Nat
    BY <1>6, <1>7, <2>1
  <2> QED BY <1>2, <1>5, <1>6, <1>7, <1>8, <2>2 DEF TypeLimite
<1>10. ServieRetenue'
  <2> SUFFICES ASSUME NEW r \in s1, d1[r] + Fenetre > T PROVE r \in m1
    BY <1>2 DEF ServieRetenue
  <2>1. CASE accepte /\ r = n + 1
    BY <1>6, <2>1
  <2>2. CASE r \in requetes.servies
    <3>1. r \in 1..n /\ d1[r] = d[r]
      BY <1>1, <1>5, <2>2
    <3>2. r \in requetes.memoire
      BY <2>2, <3>1 DEF InvLimite, ServieRetenue
    <3>3. r \in connues
      BY <3>1, <3>2 DEF Recentes
    <3> QED BY <1>6, <3>3
  <2> QED BY <2>1, <2>2 DEF s1
<1>11. FenetresTenues'
  <2> SUFFICES ASSUME NEW t \in Nat PROVE Cardinality(ServiesAutourDe(t)') <= Limite
    BY DEF FenetresTenues
  <2> DEFINE avant == ServiesAutourDe(t)
             apres == {r \in s1 : d1[r] <= t /\ d1[r] + Fenetre > t}
  <2>1. ServiesAutourDe(t)' = apres
    BY <1>2 DEF ServiesAutourDe
  <2>2. \A r \in requetes.servies : d1[r] = d[r]
    BY <1>1, <1>5
  <2>3. Cardinality(avant) <= Limite
    BY DEF InvLimite, FenetresTenues
  <2>4. CASE ~accepte \/ t < T
    <3>1. apres = avant
      <4>1. s1 = requetes.servies \/ (s1 = requetes.servies \cup {n + 1} /\ d1[n + 1] = T /\ t < T)
        BY <1>5, <2>4 DEF s1
      <4> QED BY <1>1, <2>2, <4>1 DEF ServiesAutourDe
    <3> QED BY <2>1, <2>3, <3>1
  <2>5. CASE accepte /\ ~(t < T)
    <3>1. apres \subseteq connues \cup {n + 1}
      <4> SUFFICES ASSUME NEW r \in apres, r # n + 1 PROVE r \in connues
        OBVIOUS
      <4>a. r \in requetes.servies
        BY DEF s1
      <4>b. d1[r] = d[r]
        BY <2>2, <4>a
      <4>c. d[r] \in Nat
        BY <1>1, <4>a
      <4>1. r \in requetes.servies /\ d1[r] = d[r] /\ d[r] \in Nat
        BY <4>a, <4>b, <4>c
      <4>2. d[r] + Fenetre > T
        BY <1>1, <2>5, <4>1, HypEntrees
      <4>3. r \in requetes.memoire
        BY <4>1, <4>2 DEF InvLimite, ServieRetenue
      <4> QED BY <4>2, <4>3 DEF Recentes
    <3>2. IsFiniteSet(connues) /\ Cardinality(connues) \in Nat
      BY <1>1, <1>4, SousEnsemble
    <3>3. n + 1 \notin connues
      BY <1>1, <1>4
    <3>4. IsFiniteSet(connues \cup {n + 1}) /\ Cardinality(connues \cup {n + 1}) = Cardinality(connues) + 1
      BY <3>2, <3>3, FS_AddElement
    <3>5. Cardinality(apres) <= Cardinality(connues) + 1 /\ Cardinality(apres) \in Nat
      BY <3>1, <3>4, FS_Subset, FS_CardinalityType
    <3> QED BY <2>1, <2>5, <3>2, <3>5, HypEntrees
  <2> QED BY <2>4, <2>5
<1> QED BY <1>9, <1>10, <1>11 DEF InvLimite

LEMMA UneSeconde ==
  ASSUME InvLimite, passer_seconde
  PROVE  InvLimite'
<1>1. requetes' = [requetes EXCEPT !.instant = requetes.instant + 1]
  BY DEF passer_seconde
<1>2. /\ requetes'.instant = requetes.instant + 1 /\ requetes'.dates = requetes.dates
      /\ requetes'.memoire = requetes.memoire /\ requetes'.servies = requetes.servies
      /\ requetes' \in [instant : Nat, dates : Seq(Nat), memoire : SUBSET Nat, servies : SUBSET Nat,
                        redis : BOOLEAN]
      /\ requetes.instant \in Nat
  BY <1>1 DEF InvLimite, TypeLimite
<1>3. \A r \in 1..Len(requetes.dates) : requetes.dates[r] \in Nat /\ requetes.dates[r] <= requetes.instant
  BY EnFile DEF InvLimite, TypeLimite
<1>4. TypeLimite'
  BY <1>2, <1>3 DEF InvLimite, TypeLimite
<1>5. ServieRetenue'
  BY <1>2, <1>3, HypEntrees DEF InvLimite, TypeLimite, ServieRetenue
<1>6. FenetresTenues'
  BY <1>2 DEF InvLimite, FenetresTenues, ServiesAutourDe
<1> QED BY <1>4, <1>5, <1>6 DEF InvLimite

LEMMA LimiteInchangee == InvLimite /\ UNCHANGED requetes => InvLimite'
BY DEF InvLimite, TypeLimite, ServieRetenue, FenetresTenues, ServiesAutourDe

LEMMA LimiteToujours == InvLimite => LimiteTenue
BY HypEntrees DEF InvLimite, FenetresTenues, ServiesAutourDe, LimiteTenue

(* The three doors, whatever the other tasks do.                            *)

InvEntrees == InvEnvoi /\ InvImport /\ InvLimite

LEMMA UnPasDEntrees ==
  ASSUME InvEntrees, [NextEntrees]_varsEntrees
  PROVE  InvEntrees'
<1>1. CASE NextEnvoi
  <2>1. UNCHANGED <<job, fil, imp, lecture, requetes>>
    BY <1>1 DEF NextEnvoi, upload_import, ecrire_fichier, interrompre_envoi, rendre_envoi, SuiteEnvoi
  <2> QED BY <1>1, <2>1, UneEcriture, UnPasImport, LimiteInchangee DEF InvEntrees
<1>2. CASE NextImport
  <2>1. UNCHANGED <<envoi, requetes>>
    BY <1>2 DEF NextImport, confirm_import, debuter_import, persister_intention, publier_import,
      rendre_import, ecrire_resultat, terminer_fil, echouer_import, annuler_import,
      execute_import_background, repondre_echec, cancel_import_job, recover_stale_jobs,
      reconcilier_orphelin, lire_record, repondre_lecture, Importer
  <2> QED BY <1>2, <2>1, UneEcriture, UnPasImport, LimiteInchangee DEF InvEntrees
<1>3. CASE check_rate_limit
  <2>1. UNCHANGED <<envoi, job, fil, imp, lecture>>
    BY <1>3 DEF check_rate_limit
  <2> QED BY <1>3, <2>1, UneEcriture, UnPasImport, UneRequete DEF InvEntrees
<1>4. CASE passer_seconde
  <2>1. UNCHANGED <<envoi, job, fil, imp, lecture>>
    BY <1>4 DEF passer_seconde
  <2> QED BY <1>4, <2>1, UneEcriture, UnPasImport, UneSeconde DEF InvEntrees
<1>5. CASE UNCHANGED varsEntrees
  <2>1. UNCHANGED <<envoi, job, fil, imp, lecture, requetes>>
    BY <1>5 DEF varsEntrees
  <2> QED BY <2>1, UneEcriture, UnPasImport, LimiteInchangee DEF InvEntrees
<1> QED BY <1>1, <1>2, <1>3, <1>4, <1>5 DEF NextEntrees

(* What the web process answers at its doors is true: an accepted send is   *)
(* whole, an import told completed is published and nothing contradicts it, *)
(* an error without a doubt leaves nothing uncertain behind and no window   *)
(* of requests exceeds the limit.                                           *)
THEOREM EntreeHonneteProuvee == Spec => []EntreeHonnete
<1>1. Init => InvEntrees
  BY DebutEnvoi, DebutImport, DebutLimite DEF Init, InvEntrees
<1>2. InvEntrees /\ [Next]_varsTaches => InvEntrees'
  <2>1. [Next]_varsTaches => [NextEntrees]_varsEntrees
    BY DEF Next, varsTaches
  <2> QED BY <2>1, UnPasDEntrees
<1>3. InvEntrees => EntreeHonnete
  BY EnvoiTenu, LimiteToujours
  DEF InvEntrees, InvImport, ErreurFinale, ErreurSansDoute, EntreeHonnete
<1> QED BY <1>1, <1>2, <1>3, PTL DEF Spec

----------------------------------------------------------------------------
(* The scans.                                                              *)

LiensPossibles == [paire : Paires, type : {"doublon_exact", "doublon_probable"}]
Entrees ==
  [lien : LiensPossibles, nombre : {0} \cup {Cardinality(F) : F \in SUBSET FichesVues},
   empreinte : {0} \cup Empreintes]
Nombres == Nat \cup {Cardinality(L) : L \in SUBSET Entrees}
Balayages ==
  [etape : {"attend", "titres", "ecrit", "fini"}, applique : BOOLEAN, liste : SUBSET Entrees,
   ecrits : SUBSET LiensPossibles, crees : Nombres, exacts : SUBSET Paires]

TypeBalayages == balayage \in [Analystes -> Balayages] /\ liens \in SUBSET LiensPossibles

(* A pair that shared a document is in the list, written, or in the table,  *)
(* and in the table once the scan has ended.                                *)
Exact(p) == Lien("doublon_exact", p)
PaireSuivie(o, p) ==
  LET b == balayage[o] IN
  \/ Exact(p) \in liens
  \/ b.etape # "fini" /\ (Exact(p) \in b.ecrits \/ \E k \in b.liste : k.lien = Exact(p))
PairesSuivies ==
  \A o \in Analystes : balayage[o].applique => \A p \in balayage[o].exacts : PaireSuivie(o, p)

(* A row not committed is of one scan, which counts it.                     *)
EcritsComptes ==
  \A o \in Analystes :
    LET b == balayage[o] IN
    /\ IsFiniteSet(b.ecrits) /\ b.ecrits \cap liens = {}
    /\ b.etape # "ecrit" => b.ecrits = {}
    /\ b.etape \in {"titres", "ecrit"} => b.crees = Cardinality(b.ecrits)
EcritsSepares ==
  \A o, q \in Analystes : o # q => balayage[o].ecrits \cap balayage[q].ecrits = {}

InvBalayages ==
  TypeBalayages /\ PairesSuivies /\ EcritsComptes /\ EcritsSepares /\ IsFiniteSet(liens) /\ LiensComptes

LEMMA AucunBalayage ==
  /\ PasDeBalayage \in Balayages /\ PasDeBalayage.etape = "attend" /\ ~PasDeBalayage.applique
  /\ PasDeBalayage.liste = {} /\ PasDeBalayage.ecrits = {} /\ PasDeBalayage.crees = 0
  /\ PasDeBalayage.exacts = {}
BY DEF PasDeBalayage, Balayages, Nombres

LEMMA DebutBalayages == InitAnalyses => InvBalayages
<1> SUFFICES ASSUME InitAnalyses PROVE InvBalayages
  OBVIOUS
<1>1. \A o \in Analystes : balayage[o] = PasDeBalayage
  BY DEF InitAnalyses
<1>2. TypeBalayages
  <2>1. PasDeBalayage \in Balayages
    BY DEF PasDeBalayage, Balayages, Nombres
  <2> QED BY <2>1 DEF InitAnalyses, TypeBalayages
<1>3. Cardinality({}) = 0 /\ IsFiniteSet({})
  BY FS_EmptySet
<1>4. PairesSuivies /\ EcritsComptes /\ EcritsSepares /\ IsFiniteSet(liens)
  BY <1>1, <1>3 DEF InitAnalyses, PasDeBalayage, PairesSuivies, EcritsComptes, EcritsSepares
<1>5. LiensComptes
  <2>1. [l \in {} |-> l] \in [liens -> Analystes] /\ \A o \in Analystes : Annonces(o) = 0
    BY <1>1 DEF InitAnalyses, PasDeBalayage, Annonces
  <2>2. \A o \in Analystes : {l \in liens : [m \in {} |-> m][l] = o} = {}
    BY DEF InitAnalyses
  <2> QED BY <1>3, <2>1, <2>2 DEF LiensComptes
<1> QED BY <1>2, <1>4, <1>5 DEF InvBalayages

(* The pairs of the groups are exact links, and all of them are listed.     *)
LEMMA EntreesLues ==
  /\ doublons_exacts \in SUBSET Entrees
  /\ doublons_probables \in SUBSET Entrees
  /\ \A k \in doublons_exacts : k.lien = Exact(k.lien.paire) /\ k.lien.paire \in Paires
<1>1. ASSUME NEW type \in {"doublon_exact", "doublon_probable"}, NEW paires \in SUBSET Paires,
             NEW n \in {0} \cup {Cardinality(F) : F \in SUBSET FichesVues},
             NEW e \in {0} \cup Empreintes
      PROVE  /\ LiensDe(type, paires, n, e) \in SUBSET Entrees
             /\ \A k \in LiensDe(type, paires, n, e) : k.lien = Lien(type, k.lien.paire) /\ k.lien.paire \in Paires
  BY DEF LiensDe, Lien, Entrees, LiensPossibles
<1>2. ASSUME NEW e \in Empreintes
      PROVE  Cardinality(Partageuses(e)) \in {Cardinality(F) : F \in SUBSET FichesVues}
  <2>1. Partageuses(e) \in SUBSET FichesVues
    BY DEF Partageuses
  <2> QED BY <2>1
<1>3. doublons_probables \in SUBSET Entrees
  <2>1. {p \in Paires : titres[p[1]] = titres[p[2]]} \in SUBSET Paires
    OBVIOUS
  <2> QED BY <1>1, <2>1 DEF doublons_probables
<1>4. ASSUME NEW k \in doublons_exacts
      PROVE  k \in Entrees /\ k.lien = Exact(k.lien.paire) /\ k.lien.paire \in Paires
  <2>1. PICK e \in Empreintes :
          k \in LiensDe("doublon_exact", {p \in Paires : {p[1], p[2]} \subseteq Partageuses(e)},
                        Cardinality(Partageuses(e)), e)
    BY DEF doublons_exacts
  <2>2. {p \in Paires : {p[1], p[2]} \subseteq Partageuses(e)} \in SUBSET Paires
    OBVIOUS
  <2> QED BY <1>1, <1>2, <2>1, <2>2 DEF Exact
<1> QED BY <1>3, <1>4

(* A step of one scan that writes nothing in the table and does not end an  *)
(* applied scan leaves the count alone.                                     *)
LEMMA CompteInchange ==
  ASSUME LiensComptes, liens' = liens, \A o \in Analystes : Annonces(o)' = Annonces(o)
  PROVE  LiensComptes'
BY DEF LiensComptes

LEMMA BalayagesInchanges == InvBalayages /\ UNCHANGED <<liens, balayage>> => InvBalayages'
<1> SUFFICES ASSUME InvBalayages, UNCHANGED <<liens, balayage>> PROVE InvBalayages'
  OBVIOUS
<1>1. LiensComptes'
  BY CompteInchange DEF InvBalayages, Annonces
<1> QED BY <1>1
  DEF InvBalayages, TypeBalayages, PairesSuivies, PaireSuivie, EcritsComptes, EcritsSepares

(* A scan that does not write: what it reads, counts or loses.              *)
LEMMA SansEcriture ==
  ASSUME InvBalayages, NEW o \in Analystes, NEW b \in Balayages,
         liens' = liens, balayage' = [balayage EXCEPT ![o] = b],
         ~(balayage[o].etape = "fini" /\ balayage[o].applique),
         ~(b.etape = "fini" /\ b.applique),
         b.ecrits = {}, b.etape \in {"titres", "ecrit"} => b.crees = 0,
         b.applique => \A p \in b.exacts : PaireSuivie(o, p)'
  PROVE  InvBalayages'
<1>1. balayage'[o] = b /\ \A q \in Analystes \ {o} : balayage'[q] = balayage[q]
  BY DEF InvBalayages, TypeBalayages
<1>2. TypeBalayages'
  BY DEF InvBalayages, TypeBalayages
<1>3. PairesSuivies'
  BY <1>1 DEF InvBalayages, PairesSuivies, PaireSuivie
<1>4. EcritsComptes'
  BY <1>1, FS_EmptySet DEF InvBalayages, EcritsComptes
<1>5. EcritsSepares'
  BY <1>1 DEF InvBalayages, EcritsSepares
<1>6. LiensComptes'
  BY <1>1, CompteInchange DEF InvBalayages, Annonces
<1> QED BY <1>2, <1>3, <1>4, <1>5, <1>6 DEF InvBalayages

LEMMA LectureDesGroupes ==
  ASSUME InvBalayages, NEW o \in Analystes, NEW applique \in BOOLEAN, route_scan(o, applique)
  PROVE  InvBalayages'
<1> DEFINE paires == {k.lien.paire : k \in doublons_exacts}
           b == [PasDeBalayage EXCEPT !.etape = "titres", !.applique = applique,
                   !.liste = doublons_exacts, !.exacts = paires]
<1>1. balayage' = [balayage EXCEPT ![o] = b] /\ liens' = liens /\ balayage[o].etape = "attend"
  BY DEF route_scan, Balayer
<1>2. paires \in SUBSET Paires /\ doublons_exacts \in SUBSET Entrees
  BY EntreesLues
<1>3. /\ b \in Balayages /\ b.etape = "titres" /\ b.applique = applique /\ b.liste = doublons_exacts
      /\ b.ecrits = {} /\ b.crees = 0 /\ b.exacts = paires
  <2> HIDE DEF paires
  <2> QED BY <1>2, AucunBalayage DEF Balayages
<1>4. balayage'[o] = b
  BY <1>1 DEF InvBalayages, TypeBalayages
<1>5. ASSUME NEW p \in b.exacts PROVE PaireSuivie(o, p)'
  <2>1. PICK k \in doublons_exacts : p = k.lien.paire
    BY <1>3
  <2>2. k \in b.liste /\ k.lien = Exact(p) /\ b.etape # "fini"
    BY <1>3, <2>1, EntreesLues
  <2> QED BY <1>4, <2>2 DEF PaireSuivie, Exact, Lien
<1> HIDE DEF b
<1> QED BY <1>1, <1>2, <1>3, <1>5, SansEcriture

LEMMA LectureDesTitres ==
  ASSUME InvBalayages, NEW o \in Analystes, lire_probables(o)
  PROVE  InvBalayages'
<1> DEFINE a == balayage[o]
           b == [a EXCEPT !.etape = "ecrit", !.liste = @ \cup doublons_probables]
<1>1. balayage' = [balayage EXCEPT ![o] = b] /\ liens' = liens /\ a.etape = "titres"
  BY DEF lire_probables, Balayer
<1>2. /\ a \in Balayages /\ a.ecrits = {} /\ IsFiniteSet({}) /\ Cardinality({}) = 0
  BY <1>1, FS_EmptySet DEF InvBalayages, TypeBalayages, EcritsComptes
<1>3. /\ b \in Balayages /\ b.etape = "ecrit" /\ b.applique = a.applique
      /\ b.liste = a.liste \cup doublons_probables
      /\ b.ecrits = {} /\ b.crees = a.crees /\ b.exacts = a.exacts
  <2> HIDE DEF a
  <2> QED BY <1>2, EntreesLues DEF Balayages
<1>4. balayage'[o] = b
  BY <1>1 DEF InvBalayages, TypeBalayages
<1>5. ASSUME b.applique, NEW p \in b.exacts PROVE PaireSuivie(o, p)'
  <2>1. PaireSuivie(o, p)
    BY <1>3, <1>5 DEF InvBalayages, PairesSuivies
  <2> QED BY <1>1, <1>2, <1>3, <1>4, <2>1 DEF PaireSuivie, Exact, Lien
<1>6. a.crees = 0
  BY <1>1, <1>2 DEF InvBalayages, EcritsComptes
<1> HIDE DEF b
<1> QED BY <1>1, <1>2, <1>3, <1>4, <1>5, <1>6, SansEcriture

LEMMA Comptage ==
  ASSUME InvBalayages, NEW o \in Analystes, compter_liens(o)
  PROVE  InvBalayages'
<1> DEFINE L == {k \in balayage[o].liste : ~Visible(o, k.lien)}
           b == [PasDeBalayage EXCEPT !.etape = "fini", !.crees = Cardinality(L)]
<1>1. balayage' = [balayage EXCEPT ![o] = b] /\ liens' = liens /\ balayage[o].etape = "ecrit"
  BY DEF compter_liens, Balayer
<1>2. L \in SUBSET Entrees
  BY DEF InvBalayages, TypeBalayages, Balayages
<1> HIDE DEF L
<1>3. Cardinality(L) \in Nombres
  BY <1>2 DEF Nombres
<1>4. b \in Balayages /\ b.etape = "fini" /\ ~b.applique /\ b.ecrits = {} /\ b.exacts = {}
  BY <1>3, AucunBalayage DEF Balayages
<1> HIDE DEF b
<1> QED BY <1>1, <1>3, <1>4, SansEcriture

LEMMA Perte ==
  ASSUME InvBalayages, NEW o \in Analystes, perdre_balayage(o)
  PROVE  InvBalayages'
<1>1. /\ balayage' = [balayage EXCEPT ![o] = PasDeBalayage] /\ liens' = liens
      /\ balayage[o].etape \in {"titres", "ecrit"}
  BY DEF perdre_balayage, Balayer
<1> QED BY <1>1, AucunBalayage, SansEcriture

(* The insertion of a row: of the list, it comes in the hands of the scan,  *)
(* unless it is there or in the table already.                              *)
LEMMA Insertion ==
  ASSUME InvBalayages, NEW o \in Analystes, inserer_lien(o)
  PROVE  InvBalayages'
<1> DEFINE a == balayage[o]
<1>1. PICK k \in a.liste :
        \/ Visible(o, k.lien) /\ Balayer(o, [a EXCEPT !.liste = @ \ {k}])
        \/ /\ ~Visible(o, k.lien) /\ ~Ailleurs(o, k.lien)
           /\ Balayer(o, [a EXCEPT !.liste = @ \ {k}, !.ecrits = @ \cup {k.lien}, !.crees = @ + 1])
  BY DEF inserer_lien
<1>2. /\ a \in Balayages /\ a.etape = "ecrit" /\ a.applique /\ liens' = liens
      /\ IsFiniteSet(a.ecrits) /\ a.crees = Cardinality(a.ecrits) /\ a.ecrits \cap liens = {}
      /\ k.lien \in LiensPossibles
  BY DEF inserer_lien, InvBalayages, TypeBalayages, EcritsComptes, Balayages, Entrees
<1> DEFINE pris == ~Visible(o, k.lien)
           ecrits == IF pris THEN a.ecrits \cup {k.lien} ELSE a.ecrits
           crees == IF pris THEN a.crees + 1 ELSE a.crees
           b == IF pris
                THEN [a EXCEPT !.liste = @ \ {k}, !.ecrits = @ \cup {k.lien}, !.crees = @ + 1]
                ELSE [a EXCEPT !.liste = @ \ {k}]
<1>3. /\ IsFiniteSet(ecrits) /\ crees = Cardinality(ecrits) /\ crees \in Nat
      /\ ecrits \cap liens = {} /\ ecrits \in SUBSET LiensPossibles
      /\ a.ecrits \subseteq ecrits /\ k.lien \in ecrits \cup liens
  <2>1. Cardinality(a.ecrits) \in Nat
    BY <1>2, FS_CardinalityType
  <2>2. CASE pris
    <3>1. k.lien \notin a.ecrits /\ k.lien \notin liens
      BY <2>2 DEF Visible
    <3>2. IsFiniteSet(a.ecrits \cup {k.lien}) /\ Cardinality(a.ecrits \cup {k.lien}) = Cardinality(a.ecrits) + 1
      BY <1>2, <3>1, FS_AddElement
    <3>3. a.ecrits \in SUBSET LiensPossibles
      BY <1>2 DEF Balayages
    <3> HIDE DEF a
    <3> QED BY <1>2, <2>1, <2>2, <3>1, <3>2, <3>3
  <2>3. CASE ~pris
    <3>1. k.lien \in liens \cup a.ecrits /\ a.ecrits \in SUBSET LiensPossibles
      BY <1>2, <2>3 DEF Visible, Balayages
    <3> QED BY <1>2, <2>1, <2>3, <3>1
  <2> QED BY <2>2, <2>3
<1>4. balayage' = [balayage EXCEPT ![o] = b]
  BY <1>1 DEF Balayer
<1>5. ASSUME pris PROVE \A q \in Analystes \ {o} : k.lien \notin balayage[q].ecrits
  BY <1>1, <1>5 DEF Ailleurs
<1>6. /\ b \in Balayages /\ b.etape = "ecrit" /\ b.applique /\ b.ecrits = ecrits /\ b.crees = crees
      /\ b.liste = a.liste \ {k} /\ b.exacts = a.exacts
  <2>1. CASE pris
    <3>1. a.ecrits \cup {k.lien} \in SUBSET LiensPossibles /\ a.crees + 1 \in Nombres
      BY <1>3, <2>1 DEF Nombres
    <3> HIDE DEF a, pris
    <3> QED BY <1>2, <2>1, <3>1 DEF Balayages
  <2>2. CASE ~pris
    <3> HIDE DEF a, pris
    <3> QED BY <1>2, <2>2 DEF Balayages
  <2> QED BY <2>1, <2>2
<1>8. \A l \in ecrits : l \in a.ecrits \/ (pris /\ l = k.lien)
  OBVIOUS
<1> HIDE DEF b, pris, ecrits, crees
<1>9. balayage'[o] = b /\ \A q \in Analystes \ {o} : balayage'[q] = balayage[q]
  BY <1>4 DEF InvBalayages, TypeBalayages
<1>10. TypeBalayages'
  BY <1>2, <1>4, <1>6 DEF InvBalayages, TypeBalayages
<1>11. PairesSuivies'
  <2>1. ASSUME NEW p \in a.exacts PROVE PaireSuivie(o, p)'
    <3>1. PaireSuivie(o, p)
      BY <1>2, <2>1 DEF InvBalayages, PairesSuivies
    <3>2. CASE Exact(p) = k.lien
      BY <1>2, <1>3, <1>6, <1>9, <3>2 DEF PaireSuivie, Exact, Lien
    <3>3. CASE Exact(p) # k.lien
      BY <1>2, <1>3, <1>6, <1>9, <3>1, <3>3 DEF PaireSuivie, Exact, Lien
    <3> QED BY <3>2, <3>3
  <2>2. ASSUME NEW q \in Analystes \ {o}, balayage[q].applique, NEW p \in balayage[q].exacts
        PROVE  PaireSuivie(q, p)'
    BY <1>2, <1>9, <2>2 DEF InvBalayages, PairesSuivies, PaireSuivie, Exact, Lien
  <2> QED BY <1>6, <1>9, <2>1, <2>2 DEF PairesSuivies
<1>12. EcritsComptes'
  BY <1>2, <1>3, <1>6, <1>9 DEF InvBalayages, EcritsComptes
<1>13. EcritsSepares'
  <2>1. \A q \in Analystes \ {o} : ecrits \cap balayage[q].ecrits = {}
    BY <1>5, <1>8 DEF InvBalayages, EcritsSepares
  <2> QED BY <1>6, <1>9, <2>1 DEF InvBalayages, EcritsSepares
<1>14. LiensComptes'
  BY <1>2, <1>6, <1>9, CompteInchange DEF InvBalayages, Annonces
<1> QED BY <1>2, <1>10, <1>11, <1>12, <1>13, <1>14 DEF InvBalayages

(* The commit: the rows of the scan are now those it created.               *)
LEMMA Validation ==
  ASSUME InvBalayages, NEW o \in Analystes, valider_liens(o)
  PROVE  InvBalayages'
<1> DEFINE a == balayage[o]
           b == [a EXCEPT !.etape = "fini", !.ecrits = {}]
<1>1. /\ a \in Balayages /\ a.etape = "ecrit" /\ a.applique /\ a.liste = {}
      /\ liens' = liens \cup a.ecrits /\ balayage' = [balayage EXCEPT ![o] = b]
      /\ IsFiniteSet(a.ecrits) /\ a.crees = Cardinality(a.ecrits) /\ a.ecrits \cap liens = {}
  BY DEF valider_liens, Balayer, InvBalayages, TypeBalayages, EcritsComptes
<1>2. /\ b \in Balayages /\ b.etape = "fini" /\ b.applique /\ b.liste = {} /\ b.ecrits = {}
      /\ b.crees = a.crees /\ b.exacts = a.exacts
  <2> HIDE DEF a
  <2> QED BY <1>1 DEF Balayages
<1>3. a.ecrits \in SUBSET LiensPossibles
  BY <1>1 DEF Balayages
<1> HIDE DEF b
<1>4. balayage'[o] = b /\ \A q \in Analystes \ {o} : balayage'[q] = balayage[q]
  BY <1>1 DEF InvBalayages, TypeBalayages
<1>5. TypeBalayages'
  BY <1>1, <1>2, <1>3 DEF InvBalayages, TypeBalayages
<1>6. PairesSuivies'
  <2>1. ASSUME NEW p \in a.exacts PROVE PaireSuivie(o, p)'
    <3>1. PaireSuivie(o, p)
      BY <1>1, <2>1 DEF InvBalayages, PairesSuivies
    <3> QED BY <1>1, <3>1 DEF PaireSuivie, Exact, Lien
  <2>2. ASSUME NEW q \in Analystes \ {o}, balayage[q].applique, NEW p \in balayage[q].exacts
        PROVE  PaireSuivie(q, p)'
    BY <1>1, <1>4, <2>2 DEF InvBalayages, PairesSuivies, PaireSuivie, Exact, Lien
  <2> QED BY <1>2, <1>4, <2>1, <2>2 DEF PairesSuivies
<1>7. EcritsComptes'
  <2>1. \A q \in Analystes \ {o} : balayage[q].ecrits \cap a.ecrits = {}
    BY DEF InvBalayages, EcritsSepares
  <2>2. \A q \in Analystes \ {o} : balayage[q].ecrits \cap liens' = {}
    BY <1>1, <2>1 DEF InvBalayages, EcritsComptes
  <2>3. IsFiniteSet({}) /\ b.ecrits \cap liens' = {}
    BY <1>2, FS_EmptySet
  <2>4. \A q \in Analystes \ {o} :
          /\ IsFiniteSet(balayage[q].ecrits)
          /\ balayage[q].etape # "ecrit" => balayage[q].ecrits = {}
          /\ balayage[q].etape \in {"titres", "ecrit"} => balayage[q].crees = Cardinality(balayage[q].ecrits)
    BY DEF InvBalayages, EcritsComptes
  <2> HIDE DEF a
  <2> QED BY <1>2, <1>4, <2>2, <2>3, <2>4 DEF EcritsComptes
<1>8. EcritsSepares'
  BY <1>2, <1>4 DEF InvBalayages, EcritsSepares
<1>9. IsFiniteSet(liens')
  BY <1>1, FS_Union DEF InvBalayages
<1>10. LiensComptes'
  <2>1. PICK c \in [liens -> Analystes] :
          \A q \in Analystes : Cardinality({l \in liens : c[l] = q}) = Annonces(q)
    BY DEF InvBalayages, LiensComptes
  <2> DEFINE d == [l \in liens' |-> IF l \in liens THEN c[l] ELSE o]
  <2>2. d \in [liens' -> Analystes] /\ \A l \in liens : d[l] = c[l]
    BY <1>1
  <2>3. \A l \in a.ecrits : d[l] = o
    BY <1>1
  <2> HIDE DEF d, a
  <2>4. ASSUME NEW q \in Analystes \ {o} PROVE Cardinality({l \in liens' : d[l] = q}) = Annonces(q)'
    <3>1. {l \in liens' : d[l] = q} = {l \in liens : c[l] = q}
      BY <1>1, <2>2, <2>3
    <3> QED BY <1>4, <2>1, <3>1 DEF Annonces
  <2>5. Cardinality({l \in liens' : d[l] = o}) = Annonces(o)'
    <3>1. Cardinality({l \in liens : c[l] = o}) = 0
      BY <1>1, <2>1 DEF Annonces, a
    <3>2. IsFiniteSet({l \in liens : c[l] = o})
      BY FS_Subset DEF InvBalayages
    <3>3. {l \in liens : c[l] = o} = {}
      BY <3>1, <3>2, FS_EmptySet
    <3>4. {l \in liens' : d[l] = o} = a.ecrits
      BY <1>1, <2>2, <2>3, <3>3
    <3> QED BY <1>1, <1>2, <1>4, <3>4 DEF Annonces
  <2> QED BY <2>2, <2>4, <2>5 DEF LiensComptes
<1> QED BY <1>5, <1>6, <1>7, <1>8, <1>9, <1>10 DEF InvBalayages

LEMMA UnPasDeBalayage ==
  ASSUME InvBalayages, [NextAnalyses]_varsAnalyses
  PROVE  InvBalayages'
<1>1. CASE UNCHANGED <<liens, balayage>>
  BY <1>1, BalayagesInchanges
<1>2. ASSUME NEW o \in Analystes,
             \/ \E applique \in BOOLEAN : route_scan(o, applique)
             \/ lire_probables(o) \/ compter_liens(o) \/ inserer_lien(o)
             \/ valider_liens(o) \/ perdre_balayage(o)
      PROVE  InvBalayages'
  BY <1>2, LectureDesGroupes, LectureDesTitres, Comptage, Insertion, Validation, Perte
<1>3. joindre_piece \/ changer_voile \/ evaluer_extraction \/ (\E v \in VoilesLues : lire_candidat(v))
      => UNCHANGED <<liens, balayage>>
  BY DEF joindre_piece, changer_voile, evaluer_extraction, lire_candidat, Evaluer
<1> QED BY <1>1, <1>2, <1>3 DEF NextAnalyses, varsAnalyses

LEMMA BandeauTenu == InvBalayages => BandeauComplet
<1> SUFFICES ASSUME InvBalayages, NEW o \in Analystes, balayage[o].etape = "fini", balayage[o].applique,
                    NEW p \in balayage[o].exacts
             PROVE  Bandeau(p[1], p[2]) = "doublon_exact" /\ Bandeau(p[2], p[1]) = "doublon_exact"
  BY DEF BandeauComplet
<1>1. Exact(p) \in liens
  BY DEF InvBalayages, PairesSuivies, PaireSuivie
<1>2. Exact(p).paire = p /\ Exact(p).type = "doublon_exact"
  BY DEF Exact, Lien
<1>3. ASSUME NEW f, NEW g, {f, g} = {p[1], p[2]} PROVE Bandeau(f, g) = "doublon_exact"
  <2> DEFINE K == {k \in liens_dune_fiche(f) : g \in {k.paire[1], k.paire[2]}}
  <2>1. f \in {p[1], p[2]} /\ g \in {p[1], p[2]}
    BY <1>3
  <2>2. Exact(p) \in K
    BY <1>1, <1>2, <2>1 DEF liens_dune_fiche
  <2>3. "doublon_exact" \in {l.type : l \in K}
    <3> HIDE DEF K
    <3> QED BY <1>2, <2>2
  <2> QED BY <2>3 DEF Bandeau
<1> QED BY <1>3

----------------------------------------------------------------------------
(* Comparisons and confidence.                                             *)

TypeVoiles ==
  /\ voiles \in [VoilesLues -> VoileLue]
  /\ evaluation \in [etape : {"attend", "lu", "fini"}, candidat : VoilesLues \cup {Inconnu},
                     vue : VoileLue \cup {Inconnu}]
InvVoiles == TypeVoiles /\ EvaluationDUnModele

LEMMA DebutVoiles == InitAnalyses => InvVoiles
BY DEF InitAnalyses, InvVoiles, TypeVoiles, VoileLue, PasDEvaluation, EvaluationDUnModele

(* A score needs samples.                                                   *)
LEMMA ScoreFonde ==
  ASSUME NEW candidat, NEW population, NEW verdict \in evaluer_population(candidat, population),
         verdict \in {"a_examiner", "compatible"}
  PROVE  population # {}
<1> SUFFICES ASSUME population = {} PROVE FALSE
  OBVIOUS
<1>1. Cardinality(population) < MinEchantillons
  BY FS_EmptySet, HypAnalyses
<1>2. evaluer_population(candidat, population) = {"donnees_insuffisantes"}
  BY <1>1 DEF evaluer_population
<1> QED BY <1>2

LEMMA UneEvaluation ==
  ASSUME InvVoiles, evaluer_extraction
  PROVE  InvVoiles'
<1> DEFINE lues == charger_population(evaluation.vue.modele, evaluation.vue.type, evaluation.candidat)
<1>1. PICK verdict \in evaluer_population(evaluation.vue, lues) :
        evaluees' = [modele |-> evaluation.vue.modele, type |-> evaluation.vue.type, verdict |-> verdict,
                     population |-> {voiles[w] : w \in lues}]
  BY DEF evaluer_extraction
<1>2. evaluation' = [PasDEvaluation EXCEPT !.etape = "fini"] /\ voiles' = voiles
  BY DEF evaluer_extraction, Evaluer
<1>3. TypeVoiles'
  BY <1>2 DEF InvVoiles, TypeVoiles, PasDEvaluation
<1>4. \A w \in lues : /\ voiles[w].plausible /\ voiles[w].modele = evaluation.vue.modele
                     /\ voiles[w].type = evaluation.vue.type
  BY DEF charger_population
<1> HIDE DEF lues
<1>5. /\ evaluees'.verdict = verdict /\ evaluees'.population = {voiles[w] : w \in lues}
      /\ evaluees'.modele = evaluation.vue.modele /\ evaluees'.type = evaluation.vue.type
  BY <1>1
<1>6. ASSUME verdict \in {"a_examiner", "compatible"} PROVE {voiles[w] : w \in lues} # {}
  <2>1. lues # {}
    BY <1>6, ScoreFonde
  <2> QED BY <2>1
<1>7. EvaluationDUnModele'
  BY <1>4, <1>5, <1>6 DEF EvaluationDUnModele
<1> QED BY <1>3, <1>7 DEF InvVoiles

LEMMA UnPasDeVoiles ==
  ASSUME InvVoiles, [NextAnalyses]_varsAnalyses
  PROVE  InvVoiles'
<1>1. CASE UNCHANGED <<voiles, evaluation, evaluees>>
  BY <1>1 DEF InvVoiles, TypeVoiles, EvaluationDUnModele
<1>2. CASE changer_voile
  BY <1>2 DEF changer_voile, InvVoiles, TypeVoiles, EvaluationDUnModele
<1>3. CASE \E v \in VoilesLues : lire_candidat(v)
  BY <1>3 DEF lire_candidat, Evaluer, InvVoiles, TypeVoiles, EvaluationDUnModele
<1>4. CASE evaluer_extraction
  BY <1>4, UneEvaluation
<1>5. ASSUME NEW o \in Analystes,
             \/ \E applique \in BOOLEAN : route_scan(o, applique)
             \/ lire_probables(o) \/ compter_liens(o) \/ inserer_lien(o)
             \/ valider_liens(o) \/ perdre_balayage(o)
      PROVE  UNCHANGED <<voiles, evaluation, evaluees>>
  BY <1>5 DEF route_scan, lire_probables, compter_liens, inserer_lien, valider_liens, perdre_balayage, Balayer
<1>6. joindre_piece => UNCHANGED <<voiles, evaluation, evaluees>>
  BY DEF joindre_piece
<1> QED BY <1>1, <1>2, <1>3, <1>4, <1>5, <1>6 DEF NextAnalyses, varsAnalyses

(* Two sails compared the other way round.                                  *)
LEMMA ComparaisonSymetrique ==
  ASSUME NEW a \in VoileLue, NEW b \in VoileLue
  PROVE  LET c == comparer_extractions(a, b) inverse == comparer_extractions(b, a) IN
         /\ inverse.avertissements = c.avertissements
         /\ Communes(inverse.etats) = Communes(c.etats)
<1> DEFINE e == [d \in Dimensions |-> EtatDeLaDimension(a, b, d)]
           f == [d \in Dimensions |-> EtatDeLaDimension(b, a, d)]
<1>1. \A d \in Dimensions : e[d] = "comparable" <=> f[d] = "comparable"
  BY DEF EtatDeLaDimension
<1>2. Communes(e) = Communes(f)
  BY <1>1 DEF Communes
<1>3. /\ {a.modele, b.modele} = {b.modele, a.modele} /\ {a.type, b.type} = {b.type, a.type}
      /\ MemeModele(a, b) <=> MemeModele(b, a)
      /\ MemeType(a, b) <=> MemeType(b, a)
  BY DEF MemeModele, MemeType
<1> HIDE DEF e, f
<1>4. Avertissements(a, b, Communes(e)) = Avertissements(b, a, Communes(f))
  BY <1>2, <1>3 DEF Avertissements
<1> QED BY <1>2, <1>4 DEF comparer_extractions, e, f

LEMMA CandidatsTenus == InvVoiles => CandidatsComparables
<1> SUFFICES ASSUME InvVoiles, NEW v \in VoilesLues, NEW w \in VoilesLues, v # w
             PROVE  LET c == comparer_extractions(voiles[v], voiles[w])
                        inverse == comparer_extractions(voiles[w], voiles[v])
                        population == charger_population(voiles[v].modele, voiles[v].type, v)
                    IN /\ w \in candidats_comparaison(v) <=> c.comparable
                       /\ inverse.avertissements = c.avertissements
                       /\ Communes(inverse.etats) = Communes(c.etats)
                       /\ c.avertissements = {} =>
                            c.comparable /\ voiles[v].plausible /\ voiles[w].plausible
                       /\ w \in population /\ voiles[v].modele # Inconnu /\ voiles[v].type # Inconnu
                            => c.comparable
  BY DEF CandidatsComparables
<1> DEFINE a == voiles[v]
           b == voiles[w]
           c == comparer_extractions(a, b)
<1>1. a \in VoileLue /\ b \in VoileLue
  BY DEF InvVoiles, TypeVoiles
<1>2. c.comparable <=> MemeModele(a, b) /\ MemeType(a, b)
  BY DEF comparer_extractions
<1>3. w \in candidats_comparaison(v) <=> MemeModele(a, b) /\ MemeType(a, b)
  BY DEF candidats_comparaison, MemeModele, MemeType
<1>4. ASSUME c.avertissements = {}
      PROVE  MemeModele(a, b) /\ MemeType(a, b) /\ a.plausible /\ b.plausible
  <2>1. PICK communes : Avertissements(a, b, communes) = {}
    BY <1>4 DEF comparer_extractions
  <2> QED BY <2>1 DEF Avertissements, MemeModele
<1>5. ASSUME w \in charger_population(a.modele, a.type, v), a.modele # Inconnu, a.type # Inconnu
      PROVE  MemeModele(a, b) /\ MemeType(a, b)
  BY <1>5 DEF charger_population, MemeModele, MemeType
<1> QED BY <1>1, <1>2, <1>3, <1>4, <1>5, ComparaisonSymetrique

----------------------------------------------------------------------------

(* What the archive says of its records by comparing them is what they      *)
(* held: every link is counted by the one scan that created it, whatever    *)
(* scans run together or are lost; both records of a pair that shared a     *)
(* document show it once the scan has ended; the comparison of two sails,   *)
(* the candidates and the population of a score agree.                      *)
THEOREM AnalyseTenueProuvee == Spec => []AnalyseTenue
<1>1. Init => InvBalayages /\ InvVoiles
  BY DebutBalayages, DebutVoiles DEF Init
<1>2. (InvBalayages /\ InvVoiles) /\ [Next]_varsTaches => (InvBalayages /\ InvVoiles)'
  <2>1. [Next]_varsTaches => [NextAnalyses]_varsAnalyses
    BY DEF Next, varsTaches
  <2> QED BY <2>1, UnPasDeBalayage, UnPasDeVoiles
<1>3. InvBalayages /\ InvVoiles => AnalyseTenue
  BY BandeauTenu, CandidatsTenus DEF InvBalayages, InvVoiles, AnalyseTenue
<1> QED BY <1>1, <1>2, <1>3, PTL DEF Spec
=============================================================================
