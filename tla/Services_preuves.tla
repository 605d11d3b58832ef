---------------------------- MODULE Services_preuves ----------------------------
(***************************************************************************)
(* Proofs about what surrounds the queue, for any records, operators,      *)
(* deposits, requests, labels, connections and bounds.  Each part has      *)
(* variables of its own: its invariant is inductive for its own steps, and *)
(* the steps of the others leave it alone.                                 *)
(***************************************************************************)
EXTENDS Services, FiniteSetTheorems, WellFoundedInduction, TLAPS

----------------------------------------------------------------------------
(* Records and requests.                                                    *)

Lus == Valeurs \cup {Aucun}
Lignes ==
  [statut : Statuts, revision : Nat, trace : Lus, corrige : BOOLEAN, canonique : Lus, assume : BOOLEAN]
Ecrans == [fiche : Fiches, revision : Nat, trace : Lus]
Ops == Decisions \cup {"lot", "reconcilier", "ecrire"}
Requetes ==
  [op : Ops, fiche : Fiches, revision : Nat, statut : Statuts, valeur : Lus, ecart : BOOLEAN,
   vu : Lus, demande : Demandes \cup {Aucun}]
LignesDemande ==
  [par : Operateurs, type : TypesDemande, fiche : Fiches, valeur : Lus, statut : StatutsDemande,
   revision : Nat, vu : Lus, decideur : Postes \cup {Aucun}, ouverte : BOOLEAN]

TypeDossiers ==
  /\ fiche \in [Fiches -> Lignes]
  /\ verrou \in [Fiches -> Postes \cup {Aucun}]
  /\ ecran \in [Postes -> Ecrans \cup {Aucun}]
  /\ requete \in [Postes -> Requetes \cup {Aucun}]
  /\ demande \in [Demandes -> LignesDemande \cup {Aucun}]
  /\ verrouDemande \in [Demandes -> Postes \cup {Aucun}]

(* A value read at a revision is the value of the record while the revision *)
(* lasts.                                                                   *)
JusteA(f, revision, vu) ==
  /\ revision <= fiche[f].revision
  /\ revision = fiche[f].revision => vu = fiche[f].trace

DesDemandes == {"modification", "suppression"}

(* What a request found when it was opened, and what that status allows it. *)
Fondee(r) ==
  /\ JusteA(r.fiche, r.revision, r.vu)
  /\ r.revision = fiche[r.fiche].revision => r.statut = fiche[r.fiche].statut
  /\ r.op \in {"valider", "lot", "rejeter", "valide_dans_lot"} => r.statut = "a_valider"
  /\ r.op \in {"corriger", "modification"} => r.statut \in {"a_valider", "rejete"}
  /\ r.op = "suppression" => r.statut # "supprimee"
  /\ r.op = "rouvrir" => r.statut # "a_valider"
  /\ IF r.op \in DesDemandes THEN r.demande \in Demandes ELSE r.demande = Aucun

(* The rows that the transaction of p keeps.                                *)
Tient(p) ==
  LET r == requete[p] IN
  /\ r.op \in {"valide_dans_lot", "ecrire"} =>
       verrou[r.fiche] = p /\ fiche[r.fiche].revision = r.revision
  /\ r.op = "ecrire" => fiche[r.fiche].corrige = r.ecart
  /\ r.op \in DesDemandes =>
       /\ verrouDemande[r.demande] = p /\ EnAttente(r.demande)
       /\ AutoApprobation \/ demande[r.demande].par # p

EcranJuste(p) == ecran[p] # Aucun => JusteA(ecran[p].fiche, ecran[p].revision, ecran[p].trace)
DemandeJuste(d) == demande[d] # Aucun => JusteA(demande[d].fiche, demande[d].revision, demande[d].vu)

InvDossiers ==
  /\ TypeDossiers
  /\ \A p \in Postes : EcranJuste(p)
  /\ \A d \in Demandes : DemandeJuste(d)
  /\ \A p \in Postes : requete[p] # Aucun => Fondee(requete[p]) /\ Tient(p)

(* What changes in a record changes under a new revision.                   *)
Evolue ==
  \A f \in Fiches :
    \/ fiche[f].revision < fiche'[f].revision
    \/ /\ fiche'[f].revision = fiche[f].revision /\ fiche'[f].trace = fiche[f].trace
       /\ fiche'[f].statut = fiche[f].statut /\ fiche'[f].corrige = fiche[f].corrige

LEMMA JusteEncore ==
  ASSUME TypeDossiers, TypeDossiers', Evolue, NEW f \in Fiches, NEW n \in Nat, NEW v, JusteA(f, n, v)
  PROVE  JusteA(f, n, v)'
<1>1. fiche[f] \in Lignes /\ fiche'[f] \in Lignes
  BY DEF TypeDossiers
<1> QED BY <1>1 DEF Evolue, JusteA, Lignes

LEMMA FondeeEncore ==
  ASSUME TypeDossiers, TypeDossiers', Evolue, NEW r \in Requetes, Fondee(r)
  PROVE  Fondee(r)'
<1>1. r.fiche \in Fiches /\ r.revision \in Nat /\ JusteA(r.fiche, r.revision, r.vu)
  BY DEF Requetes, Fondee
<1>2. JusteA(r.fiche, r.revision, r.vu)'
  BY <1>1, JusteEncore
<1>3. fiche[r.fiche] \in Lignes /\ fiche'[r.fiche] \in Lignes
  BY <1>1 DEF TypeDossiers
<1>4. r.revision = fiche'[r.fiche].revision => r.statut = fiche'[r.fiche].statut
  BY <1>1, <1>3 DEF Evolue, Fondee, JusteA, Lignes
<1> QED BY <1>2, <1>4 DEF Fondee

(* What a step that may change a record leaves of what p relies on.         *)
LEMMA EcranEncore ==
  ASSUME InvDossiers, TypeDossiers', Evolue, NEW p \in Postes, ecran'[p] = ecran[p]
  PROVE  EcranJuste(p)'
<1> SUFFICES ASSUME ecran[p] # Aucun
             PROVE  JusteA(ecran[p].fiche, ecran[p].revision, ecran[p].trace)'
  BY DEF EcranJuste
<1>1. ecran[p] \in Ecrans /\ JusteA(ecran[p].fiche, ecran[p].revision, ecran[p].trace)
  BY DEF InvDossiers, TypeDossiers, EcranJuste
<1> DEFINE f == ecran[p].fiche
           n == ecran[p].revision
           v == ecran[p].trace
<1>2. f \in Fiches /\ n \in Nat /\ JusteA(f, n, v)
  BY <1>1 DEF Ecrans
<1>3. JusteA(f, n, v) => /\ n <= fiche'[f].revision
                         /\ n = fiche'[f].revision => v = fiche'[f].trace
  <2> HIDE DEF f, n, v
  <2> QED BY <1>2, JusteEncore DEF JusteA, InvDossiers
<1> QED BY <1>2, <1>3 DEF JusteA

LEMMA DemandeEncore ==
  ASSUME InvDossiers, TypeDossiers', Evolue, NEW d \in Demandes, demande[d] # Aucun,
         demande'[d].fiche = demande[d].fiche, demande'[d].revision = demande[d].revision,
         demande'[d].vu = demande[d].vu
  PROVE  DemandeJuste(d)'
<1>1. demande[d] \in LignesDemande /\ JusteA(demande[d].fiche, demande[d].revision, demande[d].vu)
  BY DEF InvDossiers, TypeDossiers, DemandeJuste
<1> DEFINE f == demande[d].fiche
           n == demande[d].revision
           v == demande[d].vu
<1>2. f \in Fiches /\ n \in Nat /\ JusteA(f, n, v)
  BY <1>1 DEF LignesDemande
<1>3. JusteA(f, n, v) => /\ n <= fiche'[f].revision
                         /\ n = fiche'[f].revision => v = fiche'[f].trace
  <2> HIDE DEF f, n, v
  <2> QED BY <1>2, JusteEncore DEF JusteA, InvDossiers
<1> QED BY <1>2, <1>3 DEF JusteA, DemandeJuste

(* A request keeps what it relies on as long as its rows are kept for it.   *)
LEMMA RequeteEncore ==
  ASSUME InvDossiers, TypeDossiers', Evolue, NEW q \in Postes, requete'[q] = requete[q], requete[q] # Aucun,
         \A f \in Fiches : verrou[f] = q =>
            verrou'[f] = q /\ fiche'[f].revision = fiche[f].revision /\ fiche'[f].corrige = fiche[f].corrige,
         \A d \in Demandes : verrouDemande[d] = q /\ EnAttente(d) =>
            verrouDemande'[d] = q /\ demande'[d] = demande[d]
  PROVE  Fondee(requete[q])' /\ Tient(q)'
<1> DEFINE r == requete[q]
<1>1. r \in Requetes /\ Fondee(r) /\ Tient(q) /\ r.fiche \in Fiches
  BY DEF InvDossiers, TypeDossiers, Requetes
<1>2. /\ JusteA(r.fiche, r.revision, r.vu)'
      /\ r.revision = fiche'[r.fiche].revision => r.statut = fiche'[r.fiche].statut
  <2> DEFINE x == r
  <2>1. x \in Requetes /\ Fondee(x)
    BY <1>1
  <2>2. \A y \in Requetes : Fondee(y) => Fondee(y)'
    BY FondeeEncore DEF InvDossiers
  <2> QED BY <2>1, <2>2 DEF Fondee, JusteA
<1>3. Fondee(requete[q])'
  BY <1>1, <1>2 DEF Fondee, JusteA
<1>4. Tient(q)'
  BY <1>1 DEF Tient, Fondee, EnAttente, Existe
<1> QED BY <1>3, <1>4

LEMMA AucunPoste == Aucun \notin Postes
BY AucunEstApart DEF Postes, Operateurs

(* A request is opened, on what its author read.                            *)
LEMMA UneOuverture ==
  ASSUME InvDossiers, NEW p \in Postes, NEW r \in Requetes, Fondee(r), UNCHANGED <<fiche, demande>>,
         requete' = [requete EXCEPT ![p] = r],
         ecran' = ecran \/ ecran' = [ecran EXCEPT ![p] = Aucun],
         verrou' \in [Fiches -> Postes \cup {Aucun}], verrouDemande' \in [Demandes -> Postes \cup {Aucun}],
         \A f \in Fiches : verrou'[f] = verrou[f] \/ verrou[f] \in {Aucun, p},
         \A d \in Demandes : verrouDemande'[d] = verrouDemande[d] \/ verrouDemande[d] = Aucun,
         r.op \in {"valide_dans_lot", "ecrire"} =>
            verrou'[r.fiche] = p /\ fiche[r.fiche].revision = r.revision,
         r.op = "ecrire" => fiche[r.fiche].corrige = r.ecart,
         r.op \in DesDemandes =>
            /\ verrouDemande'[r.demande] = p /\ EnAttente(r.demande)
            /\ AutoApprobation \/ demande[r.demande].par # p
  PROVE  InvDossiers'
<1>1. TypeDossiers'
  BY DEF InvDossiers, TypeDossiers
<1>2. Evolue
  BY DEF Evolue
<1>3. ASSUME NEW q \in Postes PROVE EcranJuste(q)'
  <2>1. ecran'[q] = ecran[q] \/ ecran'[q] = Aucun
    BY DEF InvDossiers, TypeDossiers
  <2> QED BY <1>1, <1>2, <2>1, EcranEncore DEF EcranJuste
<1>4. ASSUME NEW d \in Demandes PROVE DemandeJuste(d)'
  BY DEF InvDossiers, DemandeJuste, JusteA
<1>5. ASSUME NEW q \in Postes, requete'[q] # Aucun PROVE Fondee(requete[q])' /\ Tient(q)'
  <2>1. CASE q = p
    <3>1. requete'[p] = r
      BY DEF InvDossiers, TypeDossiers
    <3>2. Fondee(requete[p])'
      BY <3>1 DEF Fondee, JusteA
    <3>3. Tient(p)'
      BY <3>1 DEF Tient, EnAttente, Existe
    <3> QED BY <2>1, <3>2, <3>3
  <2>2. CASE q # p
    <3>1. requete'[q] = requete[q] /\ requete[q] # Aucun
      BY <1>5, <2>2 DEF InvDossiers, TypeDossiers
    <3>2. \A f \in Fiches : verrou[f] = q => verrou'[f] = q
      BY <2>2, AucunPoste
    <3>3. \A d \in Demandes : verrouDemande[d] = q => verrouDemande'[d] = q
      BY <2>2, AucunPoste
    <3> QED BY <1>1, <1>2, <3>1, <3>2, <3>3, RequeteEncore
  <2> QED BY <2>1, <2>2
<1> QED BY <1>1, <1>3, <1>4, <1>5 DEF InvDossiers

(* A request ends: it gives its rows back, and what it writes is its own.   *)
LEMMA UneFin ==
  ASSUME InvDossiers, NEW p \in Postes, Rendre(p), UNCHANGED ecran,
         fiche' \in [Fiches -> Lignes], Evolue,
         \A f \in Fiches : \/ verrou[f] \in {Aucun, p}
                           \/ fiche'[f].revision = fiche[f].revision /\ fiche'[f].corrige = fiche[f].corrige,
         verrouDemande' \in [Demandes -> Postes \cup {Aucun}],
         demande' \in [Demandes -> LignesDemande \cup {Aucun}],
         \A d \in Demandes : verrouDemande'[d] = verrouDemande[d] \/ verrouDemande[d] = p,
         \A d \in Demandes : \/ demande'[d] = demande[d]
                             \/ /\ verrouDemande[d] = p /\ demande[d] # Aucun
                                /\ demande'[d].fiche = demande[d].fiche
                                /\ demande'[d].revision = demande[d].revision
                                /\ demande'[d].vu = demande[d].vu
  PROVE  InvDossiers'
<1>1. /\ verrou' = [f \in Fiches |-> IF verrou[f] = p THEN Aucun ELSE verrou[f]]
      /\ requete' = [requete EXCEPT ![p] = Aucun]
  BY DEF Rendre
<1>2. TypeDossiers'
  BY <1>1 DEF InvDossiers, TypeDossiers
<1>3. ASSUME NEW q \in Postes PROVE EcranJuste(q)'
  BY <1>2, EcranEncore
<1>4. ASSUME NEW d \in Demandes PROVE DemandeJuste(d)'
  <2>1. CASE demande'[d] = Aucun
    BY <2>1 DEF DemandeJuste
  <2>2. CASE demande'[d] # Aucun
    <3>1. /\ demande[d] # Aucun /\ demande'[d].fiche = demande[d].fiche
          /\ demande'[d].revision = demande[d].revision /\ demande'[d].vu = demande[d].vu
      BY <2>2
    <3> QED BY <1>2, <3>1, DemandeEncore
  <2> QED BY <2>1, <2>2
<1>5. ASSUME NEW q \in Postes, requete'[q] # Aucun PROVE Fondee(requete[q])' /\ Tient(q)'
  <2>1. q # p /\ requete'[q] = requete[q] /\ requete[q] # Aucun
    BY <1>1, <1>5 DEF InvDossiers, TypeDossiers
  <2>2. \A f \in Fiches : verrou[f] = q =>
           verrou'[f] = q /\ fiche'[f].revision = fiche[f].revision /\ fiche'[f].corrige = fiche[f].corrige
    BY <1>1, <2>1, AucunPoste
  <2>3. \A d \in Demandes : verrouDemande[d] = q => verrouDemande'[d] = q /\ demande'[d] = demande[d]
    BY <2>1
  <2> QED BY <1>2, <2>1, <2>2, <2>3, RequeteEncore
<1> QED BY <1>2, <1>3, <1>4, <1>5 DEF InvDossiers

(* A request for a decision is made, or settled while nobody decides it.    *)
LEMMA UneDemande ==
  ASSUME InvDossiers, UNCHANGED <<fiche, verrou, requete, verrouDemande>>,
         ecran' \in [Postes -> Ecrans \cup {Aucun}],
         \A q \in Postes : ecran'[q] = ecran[q] \/ ecran'[q] = Aucun,
         demande' \in [Demandes -> LignesDemande \cup {Aucun}],
         \A d \in Demandes : demande'[d] = demande[d] \/ verrouDemande[d] = Aucun \/ ~EnAttente(d),
         \A d \in Demandes : \/ demande'[d] = Aucun
                             \/ JusteA(demande'[d].fiche, demande'[d].revision, demande'[d].vu)
  PROVE  InvDossiers'
<1>1. TypeDossiers' /\ Evolue
  BY DEF InvDossiers, TypeDossiers, Evolue
<1>2. ASSUME NEW q \in Postes PROVE EcranJuste(q)'
  BY <1>1, EcranEncore DEF EcranJuste
<1>3. ASSUME NEW d \in Demandes PROVE DemandeJuste(d)'
  BY DEF DemandeJuste, JusteA
<1>4. ASSUME NEW q \in Postes, requete'[q] # Aucun PROVE Fondee(requete[q])' /\ Tient(q)'
  <2>1. \A d \in Demandes : verrouDemande[d] = q /\ EnAttente(d) => demande'[d] = demande[d]
    BY AucunPoste
  <2> QED BY <1>1, <1>4, <2>1, RequeteEncore
<1> QED BY <1>1, <1>2, <1>3, <1>4 DEF InvDossiers

(* What is on the screen is read at one instant.                            *)
LEMMA UnEcran ==
  ASSUME InvDossiers, NEW p \in Operateurs, NEW f \in Fiches, etat_fiche(p, f), UNCHANGED varsDemandes
  PROVE  InvDossiers'
<1> DEFINE e == [fiche |-> f, revision |-> fiche[f].revision, trace |-> fiche[f].trace]
<1>1. ecran' = [ecran EXCEPT ![p] = e] /\ UNCHANGED <<fiche, verrou, requete, demande, verrouDemande>>
  BY DEF etat_fiche, varsDemandes
<1>2. p \in Postes /\ e \in Ecrans
  BY DEF Postes, InvDossiers, TypeDossiers, Lignes, Ecrans
<1>3. TypeDossiers' /\ Evolue
  BY <1>1, <1>2 DEF InvDossiers, TypeDossiers, Evolue
<1>4. ASSUME NEW q \in Postes PROVE EcranJuste(q)'
  <2>1. CASE q = p
    <3>1. ecran'[q] = e
      BY <1>1, <2>1 DEF InvDossiers, TypeDossiers
    <3>2. fiche[f].revision \in Nat
      BY DEF InvDossiers, TypeDossiers, Lignes
    <3> QED BY <1>1, <3>1, <3>2 DEF EcranJuste, JusteA
  <2>2. CASE q # p
    <3>1. ecran'[q] = ecran[q]
      BY <1>1, <2>2 DEF InvDossiers, TypeDossiers
    <3> QED BY <1>3, <3>1, EcranEncore
  <2> QED BY <2>1, <2>2
<1>5. ASSUME NEW d \in Demandes PROVE DemandeJuste(d)'
  BY <1>1 DEF InvDossiers, DemandeJuste, JusteA
<1>6. ASSUME NEW q \in Postes, requete'[q] # Aucun PROVE Fondee(requete[q])' /\ Tient(q)'
  BY <1>1, <1>3, <1>6, RequeteEncore
<1> QED BY <1>3, <1>4, <1>5, <1>6 DEF InvDossiers

(* A record takes its next revision.                                        *)
LEMMA UneRevision ==
  ASSUME TypeDossiers, NEW r \in Requetes, NEW s \in Statuts, NEW t \in Lus, NEW c \in BOOLEAN,
         NEW k \in Lus, NEW a \in BOOLEAN, Reviser(r, s, t, c, k, a)
  PROVE  /\ fiche' \in [Fiches -> Lignes] /\ Evolue /\ r.fiche \in Fiches
         /\ \A f \in Fiches \ {r.fiche} : fiche'[f] = fiche[f]
         /\ Archive!Reviser(r.fiche, s, t, c)
<1> DEFINE f == r.fiche
           x == [statut |-> s, revision |-> fiche[f].revision + 1, trace |-> t,
                 corrige |-> c, canonique |-> k, assume |-> a]
<1>1. f \in Fiches /\ fiche \in [Fiches -> Lignes] /\ fiche[f].revision \in Nat
  BY DEF TypeDossiers, Requetes, Lignes
<1>2. fiche' = [fiche EXCEPT ![f] = x]
  BY DEF Reviser
<1>3. x \in Lignes
  BY <1>1 DEF Lignes
<1>4. fiche' \in [Fiches -> Lignes] /\ fiche'[f] = x /\ \A g \in Fiches \ {f} : fiche'[g] = fiche[g]
  BY <1>1, <1>2, <1>3
<1>5. fiche[f].revision < x.revision
  BY <1>1
<1>6. Evolue
  BY <1>4, <1>5 DEF Evolue
<1>7. /\ x.statut = s /\ x.revision = fiche[f].revision + 1 /\ x.trace = t /\ x.corrige = c
  OBVIOUS
<1> HIDE DEF x, f
<1>8. Archive!Reviser(f, s, t, c)
  BY <1>1, <1>2, <1>4, <1>7 DEF Archive!Reviser
<1> QED BY <1>1, <1>4, <1>6, <1>8 DEF f

ALireJuste == \A p \in Postes : Applique(p) => fiche[requete[p].fiche].trace = requete[p].vu
UneSeule ==
  \A p \in Postes :
    Applique(p) /\ requete[p].demande # Aucun =>
      /\ EnAttente(requete[p].demande)
      /\ AutoApprobation \/ demande[requete[p].demande].par # p
PasDossiers == InvDossiers' /\ ALireJuste /\ UneSeule /\ [Archive!Next]_(Archive!vars)

(* A step that gives no record a new revision.                              *)
LEMMA SansRevision ==
  ASSUME InvDossiers, InvDossiers',
         \A f \in Fiches : /\ fiche'[f].revision = fiche[f].revision /\ fiche'[f].trace = fiche[f].trace
                           /\ fiche'[f].statut = fiche[f].statut /\ fiche'[f].corrige = fiche[f].corrige
  PROVE  PasDossiers
<1>1. ASSUME NEW p \in Postes, Applique(p) PROVE FALSE
  <2>1. requete[p].fiche \in Fiches
    BY <1>1 DEF InvDossiers, TypeDossiers, Requetes, Applique
  <2> QED BY <1>1, <2>1 DEF Applique
<1>2. UNCHANGED Archive!vars
  BY DEF Archive!vars
<1> QED BY <1>1, <1>2 DEF PasDossiers, ALireJuste, UneSeule

(* A request that holds the revision it was founded on writes, and ends.    *)
LEMMA UneEcritureDeFiche ==
  ASSUME InvDossiers, NEW p \in Postes, requete[p] # Aucun,
         NEW s \in Statuts, NEW t \in Lus, NEW c \in BOOLEAN, NEW k \in Lus, NEW a \in BOOLEAN,
         Reviser(requete[p], s, t, c, k, a), Rendre(p), UNCHANGED ecran,
         verrou[requete[p].fiche] \in {Aucun, p},
         requete[p].revision = fiche[requete[p].fiche].revision,
         \/ UNCHANGED varsDemandes
         \/ /\ requete[p].op \in DesDemandes
            /\ demande' = [demande EXCEPT ![requete[p].demande].statut = "executee",
                                          ![requete[p].demande].decideur = p]
            /\ verrouDemande' = [verrouDemande EXCEPT ![requete[p].demande] = Aucun],
         LET x == fiche[requete[p].fiche] IN
         \/ x.statut = "a_valider" /\ s \in {"valide", "rejete"} /\ t = x.trace /\ c = x.corrige
         \/ x.statut # "supprimee" /\ s = "supprimee" /\ t = x.trace /\ c = x.corrige
         \/ /\ s = "a_valider" /\ t = x.trace /\ (c => x.corrige)
            /\ x.statut # "a_valider" \/ c # x.corrige
         \/ x.statut \in {"a_valider", "rejete"} /\ s = x.statut /\ c = TRUE
         \/ x.statut # "valide" /\ ~x.corrige /\ s = "a_valider" /\ c = FALSE
  PROVE  PasDossiers
<1> DEFINE r == requete[p]
           d == r.demande
<1>1. /\ r \in Requetes /\ Fondee(r) /\ Tient(p) /\ TypeDossiers
  BY DEF InvDossiers, TypeDossiers
<1>2. /\ fiche' \in [Fiches -> Lignes] /\ Evolue /\ r.fiche \in Fiches
      /\ \A f \in Fiches \ {r.fiche} : fiche'[f] = fiche[f]
      /\ Archive!Reviser(r.fiche, s, t, c)
  BY <1>1, UneRevision
<1>3. Archive!Next
  <2> PICK f \in Fiches : f = r.fiche
    BY <1>2
  <2>1. Archive!Reviser(f, s, t, c)
    BY <1>2 DEF Archive!Reviser
  <2>2. \/ /\ fiche[f].statut = "a_valider" /\ s \in {"valide", "rejete"}
           /\ t = fiche[f].trace /\ c = fiche[f].corrige
        \/ /\ fiche[f].statut # "supprimee" /\ s = "supprimee"
           /\ t = fiche[f].trace /\ c = fiche[f].corrige
        \/ /\ s = "a_valider" /\ t = fiche[f].trace /\ (c => fiche[f].corrige)
           /\ fiche[f].statut # "a_valider" \/ c # fiche[f].corrige
        \/ fiche[f].statut \in {"a_valider", "rejete"} /\ s = fiche[f].statut /\ c = TRUE
        \/ fiche[f].statut # "valide" /\ ~fiche[f].corrige /\ s = "a_valider" /\ c = FALSE
    OBVIOUS
  <2>3. /\ [g \in Fiches |-> fiche[g].statut][f] = fiche[f].statut
        /\ [g \in Fiches |-> fiche[g].trace][f] = fiche[f].trace
        /\ [g \in Fiches |-> fiche[g].corrige][f] = fiche[f].corrige
    OBVIOUS
  <2>4. CASE /\ fiche[f].statut = "a_valider" /\ s \in {"valide", "rejete"}
             /\ t = fiche[f].trace /\ c = fiche[f].corrige
    <3>1. Archive!Trancher(f)
      BY <2>1, <2>3, <2>4 DEF Archive!Trancher, Archive!Reviser
    <3> QED BY <3>1 DEF Archive!Next
  <2>5. CASE /\ fiche[f].statut # "supprimee" /\ s = "supprimee"
             /\ t = fiche[f].trace /\ c = fiche[f].corrige
    <3>1. Archive!Supprimer(f)
      BY <2>1, <2>3, <2>5 DEF Archive!Supprimer, Archive!Reviser
    <3> QED BY <3>1 DEF Archive!Next
  <2>6. CASE /\ s = "a_valider" /\ t = fiche[f].trace /\ (c => fiche[f].corrige)
             /\ fiche[f].statut # "a_valider" \/ c # fiche[f].corrige
    <3>1. Archive!Rouvrir(f)
      BY <2>1, <2>3, <2>6 DEF Archive!Rouvrir, Archive!Reviser
    <3> QED BY <3>1 DEF Archive!Next
  <2>7. CASE fiche[f].statut \in {"a_valider", "rejete"} /\ s = fiche[f].statut /\ c = TRUE
    <3>1. Archive!Corriger(f)
      BY <2>1, <2>3, <2>7 DEF Archive!Corriger, Archive!Reviser, Lus
    <3> QED BY <3>1 DEF Archive!Next
  <2>8. CASE fiche[f].statut # "valide" /\ ~fiche[f].corrige /\ s = "a_valider" /\ c = FALSE
    <3>1. Archive!Remplacer(f)
      BY <2>1, <2>3, <2>8 DEF Archive!Remplacer, Archive!Reviser, Lus
    <3> QED BY <3>1 DEF Archive!Next
  <2> QED BY <2>2, <2>4, <2>5, <2>6, <2>7, <2>8
<1>4. \A q \in Postes : Applique(q) => q = p
  BY DEF Applique, Rendre, InvDossiers, TypeDossiers
<1>5. ALireJuste
  <2>1. fiche[r.fiche].trace = r.vu
    BY <1>1 DEF Fondee, JusteA
  <2> QED BY <1>4, <2>1 DEF ALireJuste
<1>6. UneSeule
  <2>1. d # Aucun => EnAttente(d) /\ (AutoApprobation \/ demande[d].par # p)
    BY <1>1 DEF Fondee, Tient
  <2> QED BY <1>4, <2>1 DEF UneSeule
<1>7. InvDossiers'
  <2>1. \A f \in Fiches : \/ verrou[f] \in {Aucun, p}
                          \/ fiche'[f].revision = fiche[f].revision /\ fiche'[f].corrige = fiche[f].corrige
    BY <1>2
  <2>2. CASE UNCHANGED varsDemandes
    BY <1>2, <2>1, <2>2, UneFin DEF varsDemandes, InvDossiers, TypeDossiers
  <2>3. CASE /\ r.op \in DesDemandes
             /\ demande' = [demande EXCEPT ![d].statut = "executee", ![d].decideur = p]
             /\ verrouDemande' = [verrouDemande EXCEPT ![d] = Aucun]
    <3> DEFINE y1 == [demande[d] EXCEPT !.statut = "executee"]
               y == [y1 EXCEPT !.decideur = p]
    <3>1. d \in Demandes /\ verrouDemande[d] = p /\ demande[d] \in LignesDemande /\ demande[d] # Aucun
      BY <1>1, <2>3 DEF Fondee, Tient, EnAttente, Existe, TypeDossiers
    <3>2. y1 \in LignesDemande /\ y1.fiche = demande[d].fiche /\ y1.revision = demande[d].revision
          /\ y1.vu = demande[d].vu
      BY <3>1 DEF LignesDemande, StatutsDemande
    <3>3. demande' = [[demande EXCEPT ![d] = y1] EXCEPT ![d].decideur = p]
      BY <2>3
    <3> HIDE DEF y1
    <3>4. y \in LignesDemande /\ y.fiche = y1.fiche /\ y.revision = y1.revision /\ y.vu = y1.vu
      BY <3>2 DEF LignesDemande
    <3>5. demande' = [demande EXCEPT ![d] = y]
      BY <3>1, <3>3 DEF TypeDossiers
    <3> HIDE DEF y
    <3>6. demande' \in [Demandes -> LignesDemande \cup {Aucun}]
      BY <1>1, <3>1, <3>4, <3>5 DEF TypeDossiers
    <3>7. verrouDemande' \in [Demandes -> Postes \cup {Aucun}]
          /\ \A e \in Demandes : verrouDemande'[e] = verrouDemande[e] \/ verrouDemande[e] = p
      BY <1>1, <2>3, <3>1 DEF TypeDossiers
    <3>8. \A e \in Demandes : \/ demande'[e] = demande[e]
                              \/ /\ verrouDemande[e] = p /\ demande[e] # Aucun
                                 /\ demande'[e].fiche = demande[e].fiche
                                 /\ demande'[e].revision = demande[e].revision
                                 /\ demande'[e].vu = demande[e].vu
      BY <1>1, <3>1, <3>2, <3>4, <3>5 DEF TypeDossiers
    <3> QED BY <1>2, <2>1, <3>6, <3>7, <3>8, UneFin
  <2> QED BY <2>2, <2>3
<1> QED BY <1>3, <1>5, <1>6, <1>7 DEF PasDossiers

(* The steps, one after the other.                                          *)

LEMMA LignesLues ==
  ASSUME TypeDossiers, NEW f \in Fiches
  PROVE  /\ fiche[f] \in Lignes /\ fiche[f].revision \in Nat /\ fiche[f].trace \in Lus
         /\ fiche[f].statut \in Statuts /\ fiche[f].corrige \in BOOLEAN /\ fiche[f].canonique \in Lus
         /\ fiche[f].assume \in BOOLEAN
BY DEF TypeDossiers, Lignes

LEMMA UneRequeteOuverte ==
  ASSUME InvDossiers, NEW p \in Postes, NEW r \in Requetes, Fondee(r), UNCHANGED <<fiche, verrou>>,
         UNCHANGED varsDemandes, requete' = [requete EXCEPT ![p] = r],
         ecran' = ecran \/ ecran' = [ecran EXCEPT ![p] = Aucun],
         r.op \notin DesDemandes \cup {"valide_dans_lot", "ecrire"}
  PROVE  PasDossiers
<1>1. /\ verrou' \in [Fiches -> Postes \cup {Aucun}] /\ verrouDemande' \in [Demandes -> Postes \cup {Aucun}]
      /\ UNCHANGED <<fiche, demande, verrouDemande>>
  BY DEF varsDemandes, InvDossiers, TypeDossiers
<1>2. InvDossiers'
  BY <1>1, UneOuverture
<1> QED BY <1>2, SansRevision

LEMMA UneLecture ==
  ASSUME InvDossiers, NEW p \in Postes, PretADecider(p), NEW op \in Ops, NEW v \in Lus, NEW e \in BOOLEAN,
         Ouvrir(p, op, v, e), UNCHANGED varsDemandes,
         op \in {"valider", "lot", "rejeter"} => fiche[ecran[p].fiche].statut = "a_valider",
         op = "corriger" => fiche[ecran[p].fiche].statut \notin {"valide", "supprimee"},
         op = "rouvrir" => fiche[ecran[p].fiche].statut # "a_valider",
         op \notin DesDemandes \cup {"valide_dans_lot", "ecrire"}
  PROVE  PasDossiers
<1> DEFINE f == ecran[p].fiche
           r == [op |-> op, fiche |-> f, revision |-> ecran[p].revision, statut |-> fiche[f].statut,
                 valeur |-> v, ecart |-> e, vu |-> ecran[p].trace, demande |-> Aucun]
<1>1. ecran[p] \in Ecrans /\ JusteA(f, ecran[p].revision, ecran[p].trace)
  BY DEF PretADecider, InvDossiers, TypeDossiers, EcranJuste
<1>2. f \in Fiches /\ ecran[p].revision \in Nat /\ ecran[p].trace \in Lus /\ fiche[f].statut \in Statuts
  BY <1>1, LignesLues DEF Ecrans, InvDossiers
<1>3. r \in Requetes
  BY <1>2 DEF Requetes
<1>4. Fondee(r)
  BY <1>1, <1>2 DEF Fondee, JusteA, Statuts, DesDemandes
<1>5. /\ requete' = [requete EXCEPT ![p] = r] /\ ecran' = [ecran EXCEPT ![p] = Aucun]
      /\ UNCHANGED <<fiche, verrou>> /\ r.op = op
  BY DEF Ouvrir
<1> HIDE DEF r
<1> QED BY <1>3, <1>4, <1>5, UneRequeteOuverte

LEMMA LectureDesEcrans ==
  ASSUME InvDossiers, UNCHANGED varsDemandes, NEW p \in Operateurs,
         \/ \E f \in Fiches : etat_fiche(p, f) \/ fichier_validation(p, f)
         \/ \E v \in Valeurs : lire_correction(p, v)
         \/ \E b \in BOOLEAN : lire_validation(p, b) \/ lire_dans_lot(p, b) \/ lire_reouverture(p, b)
         \/ lire_rejet(p)
  PROVE  PasDossiers
<1>0. p \in Postes
  BY DEF Postes
<1>1. CASE \E f \in Fiches : etat_fiche(p, f) \/ fichier_validation(p, f)
  <2>1. PICK f \in Fiches : etat_fiche(p, f)
    BY <1>1 DEF fichier_validation
  <2> QED BY <2>1, UnEcran, SansRevision DEF etat_fiche
<1>2. CASE \E v \in Valeurs : lire_correction(p, v)
  <2> PICK v \in Valeurs : lire_correction(p, v)
    BY <1>2
  <2>1. /\ PretADecider(p) /\ Ouvrir(p, "corriger", v, FALSE) /\ v \in Lus
        /\ fiche[ecran[p].fiche].statut \notin {"valide", "supprimee"}
    BY DEF lire_correction, Lus
  <2> QED BY <1>0, <2>1, UneLecture DEF Ops, Decisions, DesDemandes
<1>3. ASSUME NEW op \in {"valider", "lot"}, PretADecider(p), fiche[ecran[p].fiche].statut = "a_valider",
             Ouvrir(p, op, Aucun, Divergente(ecran[p].fiche))
      PROVE  PasDossiers
  <2>1. Divergente(ecran[p].fiche) \in BOOLEAN /\ Aucun \in Lus
    BY DEF Divergente, Lus
  <2>2. PICK e \in BOOLEAN : e = Divergente(ecran[p].fiche)
    BY <2>1
  <2>3. Ouvrir(p, op, Aucun, e)
    BY <1>3, <2>2 DEF Ouvrir
  <2> QED BY <1>0, <1>3, <2>1, <2>3, UneLecture DEF Ops, Decisions, DesDemandes
<1>4. CASE \E b \in BOOLEAN : lire_validation(p, b) \/ lire_dans_lot(p, b)
  BY <1>3, <1>4 DEF lire_validation, lire_dans_lot
<1>5. CASE \E b \in BOOLEAN : lire_reouverture(p, b)
  <2>1. PretADecider(p) /\ Aucun \in Lus
    BY <1>5 DEF lire_reouverture, Lus
  <2>2. CASE lire_reouverture(p, TRUE)
    <3>1. Ouvrir(p, "effacer", Aucun, FALSE)
      BY <2>2 DEF lire_reouverture
    <3> QED BY <1>0, <2>1, <3>1, UneLecture DEF Ops, Decisions, DesDemandes
  <2>3. CASE lire_reouverture(p, FALSE)
    <3>1. Ouvrir(p, "rouvrir", Aucun, FALSE) /\ fiche[ecran[p].fiche].statut # "a_valider"
      BY <2>3 DEF lire_reouverture
    <3> QED BY <1>0, <2>1, <3>1, UneLecture DEF Ops, Decisions, DesDemandes
  <2> QED BY <1>5, <2>2, <2>3 DEF lire_reouverture
<1>6. CASE lire_rejet(p)
  <2>1. PretADecider(p) /\ Aucun \in Lus /\ fiche[ecran[p].fiche].statut = "a_valider"
        /\ Ouvrir(p, "rejeter", Aucun, FALSE)
    BY <1>6 DEF lire_rejet, Lus
  <2> QED BY <1>0, <2>1, UneLecture DEF Ops, Decisions, DesDemandes
<1> QED BY <1>1, <1>2, <1>4, <1>5, <1>6

LEMMA LectureSansEcran ==
  ASSUME InvDossiers, UNCHANGED varsDemandes, NEW p \in Postes, NEW f \in Fiches,
         lire_corrections(p, f) \/ \E v \in Valeurs : LireExistante(p, f, v)
  PROVE  PasDossiers
<1>0. TypeDossiers
  BY DEF InvDossiers
<1>1. CASE lire_corrections(p, f)
  <2> DEFINE r == [op |-> "reconcilier", fiche |-> f, revision |-> fiche[f].revision,
                   statut |-> fiche[f].statut, valeur |-> fiche[f].trace,
                   ecart |-> FALSE, vu |-> fiche[f].trace, demande |-> Aucun]
  <2>1. r \in Requetes /\ r.op = "reconcilier"
    BY <1>0, LignesLues DEF Requetes, Ops
  <2>2. Fondee(r)
    BY <1>0, LignesLues DEF Fondee, JusteA, DesDemandes
  <2>3. requete' = [requete EXCEPT ![p] = r] /\ UNCHANGED <<fiche, verrou, ecran>>
    BY <1>1 DEF lire_corrections
  <2> HIDE DEF r
  <2> QED BY <2>1, <2>2, <2>3, UneRequeteOuverte DEF DesDemandes
<1>2. CASE \E v \in Valeurs : LireExistante(p, f, v)
  <2> PICK v \in Valeurs : LireExistante(p, f, v)
    BY <1>2
  <2> DEFINE r == [op |-> "ecrire", fiche |-> f, revision |-> fiche[f].revision,
                   statut |-> fiche[f].statut, valeur |-> v,
                   ecart |-> fiche[f].corrige, vu |-> fiche[f].trace, demande |-> Aucun]
  <2>1. r \in Requetes
    BY <1>0, LignesLues DEF Requetes, Ops, Lus
  <2>2. Fondee(r)
    BY <1>0, LignesLues DEF Fondee, JusteA, DesDemandes
  <2>3. /\ requete' = [requete EXCEPT ![p] = r] /\ UNCHANGED <<fiche, ecran, demande, verrouDemande>>
        /\ verrou[f] = Aucun /\ verrou' = [verrou EXCEPT ![f] = p]
    BY DEF LireExistante, varsDemandes
  <2>4. /\ r.op = "ecrire" /\ r.fiche = f /\ r.revision = fiche[f].revision /\ r.ecart = fiche[f].corrige
    OBVIOUS
  <2> HIDE DEF r
  <2>5. /\ verrou' \in [Fiches -> Postes \cup {Aucun}] /\ verrou'[f] = p
        /\ \A g \in Fiches : verrou'[g] = verrou[g] \/ verrou[g] = Aucun
        /\ verrouDemande' \in [Demandes -> Postes \cup {Aucun}]
    BY <1>0, <2>3 DEF TypeDossiers
  <2>6. InvDossiers'
    BY <2>1, <2>2, <2>3, <2>4, <2>5, UneOuverture DEF DesDemandes
  <2> QED BY <2>3, <2>6, SansRevision
<1> QED BY <1>1, <1>2

(* An operator's request writes.                                            *)
LEMMA EcritureDesEcrans ==
  ASSUME InvDossiers, UNCHANGED varsDemandes, NEW p \in Postes,
         \/ corriger_champ(p) \/ valider_fiche(p) \/ rejeter_fiche(p) \/ rouvrir_fiche(p)
         \/ valider_dans_lot(p) \/ valider_lot(p)
  PROVE  PasDossiers
<1> DEFINE r == requete[p]
           f == r.fiche
           x == fiche[f]
<1>0. requete[p] # Aucun
  BY DEF corriger_champ, valider_fiche, rejeter_fiche, rouvrir_fiche, valider_dans_lot, valider_lot
<1>1. /\ TypeDossiers /\ r \in Requetes /\ f \in Fiches /\ x \in Lignes /\ Fondee(r) /\ Tient(p)
  BY <1>0 DEF InvDossiers, TypeDossiers, Requetes
<1>2. /\ x.revision \in Nat /\ x.trace \in Lus /\ x.statut \in Statuts /\ x.corrige \in BOOLEAN
      /\ x.canonique \in Lus /\ x.assume \in BOOLEAN /\ r.valeur \in Lus /\ r.ecart \in BOOLEAN
      /\ r.revision = x.revision => r.statut = x.statut
  BY <1>1 DEF Lignes, Requetes, Fondee
<1>3. "valide" \in Statuts /\ "rejete" \in Statuts /\ "a_valider" \in Statuts
  BY DEF Statuts
<1> HIDE DEF x
<1>4. CASE corriger_champ(p)
  <2>1. /\ Reviser(r, x.statut, r.valeur, TRUE, r.valeur, x.assume) /\ Rendre(p) /\ UNCHANGED ecran
        /\ verrou[f] \in {Aucun, p} /\ r.revision = x.revision /\ r.op = "corriger"
    BY <1>4 DEF corriger_champ, avancer_revision, RevisionTenue, CorrigerLeChamp, x
  <2>2. x.statut \in {"a_valider", "rejete"}
    BY <1>1, <1>2, <2>1 DEF Fondee
  <2> QED BY <1>0, <1>2, <2>1, <2>2, UneEcritureDeFiche DEF x
<1>5. ASSUME NEW s \in {"valide", "rejete"}, NEW a \in BOOLEAN,
             Reviser(r, s, x.trace, x.corrige, x.canonique, a), Rendre(p), UNCHANGED ecran,
             verrou[f] \in {Aucun, p}, r.revision = x.revision, x.statut = "a_valider"
      PROVE  PasDossiers
  <2>1. s \in Statuts
    BY <1>3
  <2> QED BY <1>0, <1>2, <1>5, <2>1, UneEcritureDeFiche DEF x
<1>6. CASE valider_fiche(p)
  <2>1. /\ Reviser(r, "valide", x.trace, x.corrige, x.canonique, r.ecart) /\ Rendre(p) /\ UNCHANGED ecran
        /\ verrou[f] \in {Aucun, p} /\ r.revision = x.revision /\ r.op = "valider" /\ x.statut = r.statut
    BY <1>6 DEF valider_fiche, decision_sous_verrou, RevisionTenue, x
  <2> QED BY <1>1, <1>2, <1>5, <2>1 DEF Fondee
<1>7. CASE rejeter_fiche(p)
  <2>1. /\ Reviser(r, "rejete", x.trace, x.corrige, x.canonique, FALSE) /\ Rendre(p) /\ UNCHANGED ecran
        /\ verrou[f] \in {Aucun, p} /\ r.revision = x.revision /\ r.op = "rejeter" /\ x.statut = r.statut
    BY <1>7 DEF rejeter_fiche, decision_sous_verrou, RevisionTenue, x
  <2> QED BY <1>1, <1>2, <1>5, <2>1 DEF Fondee
<1>8. CASE valider_lot(p)
  <2>1. /\ Reviser(r, "valide", x.trace, x.corrige, x.canonique, r.ecart) /\ Rendre(p) /\ UNCHANGED ecran
        /\ r.op = "valide_dans_lot"
    BY <1>8 DEF valider_lot, x
  <2>2. verrou[f] = p /\ r.revision = x.revision /\ r.statut = "a_valider"
    BY <1>1, <2>1 DEF Fondee, Tient, x
  <2> QED BY <1>1, <1>2, <1>5, <2>1, <2>2
<1>9. CASE rouvrir_fiche(p)
  <2>1. /\ \E c \in BOOLEAN : /\ c = (x.corrige /\ r.op = "rouvrir")
                              /\ Reviser(r, "a_valider", x.trace, c, x.canonique, FALSE)
        /\ Rendre(p) /\ UNCHANGED ecran
        /\ verrou[f] \in {Aucun, p} /\ r.revision = x.revision /\ r.op \in {"rouvrir", "effacer"}
        /\ r.statut # "a_valider" \/ x.corrige
    BY <1>9 DEF rouvrir_fiche, avancer_revision, RevisionTenue, x
  <2>2. PICK c \in BOOLEAN : /\ c = (x.corrige /\ r.op = "rouvrir")
                             /\ Reviser(r, "a_valider", x.trace, c, x.canonique, FALSE)
    BY <2>1
  <2>3. c => x.corrige
    BY <2>2
  <2>4. x.statut # "a_valider" \/ c # x.corrige
    BY <1>1, <1>2, <2>1, <2>2 DEF Fondee
  <2> QED BY <1>0, <1>2, <1>3, <2>1, <2>2, <2>3, <2>4, UneEcritureDeFiche DEF x
<1>10. CASE valider_dans_lot(p)
  <2> DEFINE y == [r EXCEPT !.op = "valide_dans_lot"]
  <2>1. /\ r.op = "lot" /\ verrou[f] \in {Aucun, p} /\ r.revision = x.revision
        /\ requete' = [requete EXCEPT ![p].op = "valide_dans_lot"]
        /\ verrou' = [verrou EXCEPT ![f] = p] /\ UNCHANGED <<fiche, ecran, demande, verrouDemande>>
    BY <1>10 DEF valider_dans_lot, RevisionTenue, varsDemandes, x
  <2>2. requete' = [requete EXCEPT ![p] = y]
    BY <2>1
  <2>3. /\ y \in Requetes /\ y.op = "valide_dans_lot" /\ y.fiche = f /\ y.revision = r.revision
        /\ y.statut = r.statut /\ y.vu = r.vu /\ y.demande = r.demande
    BY <1>1 DEF Requetes, Ops, Decisions
  <2> HIDE DEF y
  <2>4. Fondee(y)
    BY <1>1, <2>1, <2>3 DEF Fondee, DesDemandes
  <2>5. /\ verrou' \in [Fiches -> Postes \cup {Aucun}] /\ verrou'[f] = p
        /\ \A g \in Fiches : verrou'[g] = verrou[g] \/ verrou[g] \in {Aucun, p}
        /\ verrouDemande' \in [Demandes -> Postes \cup {Aucun}]
    BY <1>1, <2>1 DEF TypeDossiers
  <2>6. InvDossiers'
    BY <2>1, <2>2, <2>3, <2>4, <2>5, UneOuverture DEF DesDemandes, x
  <2> QED BY <2>1, <2>6, SansRevision
<1> QED BY <1>4, <1>6, <1>7, <1>8, <1>9, <1>10

(* Those who write without the screen.                                      *)
LEMMA EcritureSansEcran ==
  ASSUME InvDossiers, UNCHANGED varsDemandes, NEW p \in Postes, reconcilier_fiche(p) \/ ecrire_fiche(p)
  PROVE  PasDossiers
<1> DEFINE r == requete[p]
           f == r.fiche
           x == fiche[f]
<1>0. requete[p] # Aucun /\ Rendre(p) /\ UNCHANGED ecran
  BY DEF reconcilier_fiche, ecrire_fiche
<1>1. /\ TypeDossiers /\ r \in Requetes /\ f \in Fiches /\ x \in Lignes /\ Fondee(r) /\ Tient(p)
  BY <1>0 DEF InvDossiers, TypeDossiers, Requetes
<1>2. /\ verrouDemande' \in [Demandes -> Postes \cup {Aucun}]
      /\ demande' \in [Demandes -> LignesDemande \cup {Aucun}] /\ UNCHANGED <<demande, verrouDemande>>
  BY <1>1 DEF TypeDossiers, varsDemandes
<1>3. ASSUME fiche' \in [Fiches -> Lignes],
             \A g \in Fiches : /\ fiche'[g].revision = fiche[g].revision /\ fiche'[g].trace = fiche[g].trace
                               /\ fiche'[g].statut = fiche[g].statut /\ fiche'[g].corrige = fiche[g].corrige
      PROVE  PasDossiers
  <2>1. Evolue
    BY <1>3 DEF Evolue
  <2>2. InvDossiers'
    BY <1>0, <1>2, <1>3, <2>1, UneFin
  <2> QED BY <1>3, <2>2, SansRevision
<1>4. CASE reconcilier_fiche(p)
  <2> DEFINE y == [x EXCEPT !.canonique = r.valeur]
  <2>1. fiche' = [fiche EXCEPT ![f] = y]
    BY <1>4 DEF reconcilier_fiche
  <2>2. /\ y \in Lignes /\ y.revision = x.revision /\ y.trace = x.trace /\ y.statut = x.statut
        /\ y.corrige = x.corrige
    BY <1>1 DEF Lignes, Requetes
  <2> HIDE DEF y
  <2> QED BY <1>1, <1>3, <2>1, <2>2 DEF TypeDossiers
<1>5. CASE ecrire_fiche(p)
  <2>1. r.op = "ecrire" /\ verrou[f] = p /\ x.revision = r.revision /\ x.corrige = r.ecart
        /\ x.statut = r.statut
    BY <1>1, <1>5 DEF ecrire_fiche, Tient, Fondee
  <2>2. CASE r.statut = "valide" \/ r.ecart
    <3>1. UNCHANGED fiche
      BY <1>5, <2>2 DEF ecrire_fiche
    <3> QED BY <1>1, <1>3, <3>1 DEF TypeDossiers
  <2>3. CASE ~(r.statut = "valide" \/ r.ecart)
    <3>1. Reviser(r, "a_valider", r.valeur, FALSE, r.valeur, FALSE)
      BY <1>5, <2>3 DEF ecrire_fiche
    <3>2. x.statut # "valide" /\ ~x.corrige /\ r.valeur \in Lus /\ "a_valider" \in Statuts
      BY <1>1, <2>1, <2>3 DEF Requetes, Statuts
    <3> QED BY <1>0, <2>1, <3>1, <3>2, UneEcritureDeFiche
  <2> QED BY <2>2, <2>3
<1> QED BY <1>4, <1>5

LEMMA Abandon ==
  ASSUME InvDossiers, NEW p \in Postes, abandonner_requete(p)
  PROVE  PasDossiers
<1>1. /\ Rendre(p) /\ UNCHANGED <<fiche, ecran, demande>>
      /\ verrouDemande' = [d \in Demandes |-> IF verrouDemande[d] = p THEN Aucun ELSE verrouDemande[d]]
  BY DEF abandonner_requete, abandonner
<1>2. /\ fiche' \in [Fiches -> Lignes] /\ Evolue
      /\ verrouDemande' \in [Demandes -> Postes \cup {Aucun}]
      /\ demande' \in [Demandes -> LignesDemande \cup {Aucun}]
  BY <1>1 DEF InvDossiers, TypeDossiers, Evolue
<1>3. InvDossiers'
  BY <1>1, <1>2, UneFin
<1> QED BY <1>1, <1>3, SansRevision

(* Requests to be decided.                                                  *)
LEMMA UnChangementDeStatut ==
  ASSUME InvDossiers, NEW d \in Demandes, demande[d] # Aucun, NEW y \in LignesDemande,
         y.fiche = demande[d].fiche, y.revision = demande[d].revision, y.vu = demande[d].vu,
         demande' = [demande EXCEPT ![d] = y], UNCHANGED <<varsFiches, verrouDemande>>,
         verrouDemande[d] = Aucun \/ ~EnAttente(d)
  PROVE  PasDossiers
<1>1. UNCHANGED <<fiche, verrou, requete, ecran, verrouDemande>>
  BY DEF varsFiches
<1>2. /\ demande' \in [Demandes -> LignesDemande \cup {Aucun}] /\ ecran' \in [Postes -> Ecrans \cup {Aucun}]
      /\ demande'[d] = y /\ \A e \in Demandes \ {d} : demande'[e] = demande[e]
  BY <1>1 DEF InvDossiers, TypeDossiers
<1>3. \A e \in Demandes : \/ demande'[e] = Aucun
                          \/ JusteA(demande'[e].fiche, demande'[e].revision, demande'[e].vu)
  BY <1>2 DEF InvDossiers, DemandeJuste
<1>4. InvDossiers'
  BY <1>1, <1>2, <1>3, UneDemande
<1> QED BY <1>1, <1>4, SansRevision

LEMMA UneSuiteDeDemande ==
  ASSUME InvDossiers, NEW p \in Postes, NEW d \in Demandes,
         \/ annuler_demande(p, d) \/ refuser_demande(p, d) \/ approuver_telechargement(p, d)
         \/ autoriser_telechargement_piece(p, d) \/ expirer_telechargements(d)
  PROVE  PasDossiers
<1>1. demande[d] # Aucun /\ UNCHANGED <<varsFiches, verrouDemande>>
      /\ (verrouDemande[d] = Aucun \/ ~EnAttente(d))
  BY DEF annuler_demande, refuser_demande, approuver_telechargement, autoriser_telechargement_piece,
         expirer_telechargements, PeutDecider, EnAttente, Existe
<1>2. demande[d] \in LignesDemande /\ demande \in [Demandes -> LignesDemande \cup {Aucun}]
  BY <1>1 DEF InvDossiers, TypeDossiers
<1>3. ASSUME NEW s \in StatutsDemande, demande' = [demande EXCEPT ![d].statut = s] PROVE PasDossiers
  <2> DEFINE y == [demande[d] EXCEPT !.statut = s]
  <2>1. demande' = [demande EXCEPT ![d] = y]
    BY <1>3
  <2>2. y \in LignesDemande /\ y.fiche = demande[d].fiche /\ y.revision = demande[d].revision
        /\ y.vu = demande[d].vu
    BY <1>2 DEF LignesDemande
  <2> HIDE DEF y
  <2> QED BY <1>1, <2>1, <2>2, UnChangementDeStatut
<1>4. ASSUME NEW s \in StatutsDemande,
             demande' = [demande EXCEPT ![d].statut = s, ![d].decideur = p]
      PROVE  PasDossiers
  <2> DEFINE y1 == [demande[d] EXCEPT !.statut = s]
             y == [y1 EXCEPT !.decideur = p]
  <2>1. demande' = [[demande EXCEPT ![d] = y1] EXCEPT ![d].decideur = p]
    BY <1>4
  <2>2. y1 \in LignesDemande /\ y1.fiche = demande[d].fiche /\ y1.revision = demande[d].revision
        /\ y1.vu = demande[d].vu
    BY <1>2 DEF LignesDemande
  <2> HIDE DEF y1
  <2>3. demande' = [demande EXCEPT ![d] = y]
    BY <1>2, <2>1
  <2>4. y \in LignesDemande /\ y.fiche = demande[d].fiche /\ y.revision = demande[d].revision
        /\ y.vu = demande[d].vu
    BY <2>2 DEF LignesDemande
  <2> HIDE DEF y
  <2> QED BY <1>1, <2>3, <2>4, UnChangementDeStatut
<1>5. CASE autoriser_telechargement_piece(p, d)
  <2> DEFINE y == [demande[d] EXCEPT !.ouverte = TRUE]
  <2>1. demande' = [demande EXCEPT ![d] = y]
    BY <1>5 DEF autoriser_telechargement_piece
  <2>2. y \in LignesDemande /\ y.fiche = demande[d].fiche /\ y.revision = demande[d].revision
        /\ y.vu = demande[d].vu
    BY <1>2 DEF LignesDemande
  <2> HIDE DEF y
  <2> QED BY <1>1, <2>1, <2>2, UnChangementDeStatut
<1>6. CASE annuler_demande(p, d)
  BY <1>3, <1>6 DEF annuler_demande, StatutsDemande
<1>7. CASE expirer_telechargements(d)
  BY <1>3, <1>7 DEF expirer_telechargements, StatutsDemande
<1>8. CASE refuser_demande(p, d)
  BY <1>4, <1>8 DEF refuser_demande, StatutsDemande
<1>9. CASE approuver_telechargement(p, d)
  BY <1>4, <1>9 DEF approuver_telechargement, StatutsDemande
<1> QED BY <1>5, <1>6, <1>7, <1>8, <1>9

LEMMA UneCreation ==
  ASSUME InvDossiers, NEW p \in Postes, NEW d \in Demandes, NEW t \in TypesDemande, NEW v \in Lus,
         creer_demande(p, d, t, v)
  PROVE  PasDossiers
<1> DEFINE y == [par |-> p, type |-> t, fiche |-> ecran[p].fiche, valeur |-> v, statut |-> "en_attente",
                 revision |-> ecran[p].revision, vu |-> ecran[p].trace,
                 decideur |-> Aucun, ouverte |-> FALSE]
<1>1. /\ p \in Operateurs /\ ecran[p] # Aucun /\ ~EnAttente(d)
      /\ demande' = [demande EXCEPT ![d] = y] /\ ecran' = [ecran EXCEPT ![p] = Aucun]
      /\ UNCHANGED <<fiche, verrou, requete, verrouDemande>>
  BY DEF creer_demande, EnAttente
<1>2. ecran[p] \in Ecrans /\ JusteA(ecran[p].fiche, ecran[p].revision, ecran[p].trace)
  BY <1>1 DEF InvDossiers, TypeDossiers, EcranJuste
<1>3. /\ y \in LignesDemande /\ JusteA(y.fiche, y.revision, y.vu)
  BY <1>1, <1>2 DEF LignesDemande, Ecrans, StatutsDemande
<1> HIDE DEF y
<1>4. /\ demande' \in [Demandes -> LignesDemande \cup {Aucun}] /\ ecran' \in [Postes -> Ecrans \cup {Aucun}]
      /\ demande'[d] = y /\ \A e \in Demandes \ {d} : demande'[e] = demande[e]
      /\ \A q \in Postes : ecran'[q] = ecran[q] \/ ecran'[q] = Aucun
  BY <1>1, <1>3 DEF InvDossiers, TypeDossiers
<1>5. \A e \in Demandes : \/ demande'[e] = Aucun
                          \/ JusteA(demande'[e].fiche, demande'[e].revision, demande'[e].vu)
  BY <1>3, <1>4 DEF InvDossiers, DemandeJuste
<1>6. \A e \in Demandes : demande'[e] = demande[e] \/ ~EnAttente(e)
  BY <1>1, <1>4
<1>7. InvDossiers'
  BY <1>1, <1>4, <1>5, <1>6, UneDemande
<1> QED BY <1>1, <1>7, SansRevision

LEMMA UneDecisionLue ==
  ASSUME InvDossiers, NEW p \in Postes, NEW d \in Demandes, NEW b \in BOOLEAN, lire_decision(p, d, b)
  PROVE  PasDossiers
<1> DEFINE f == demande[d].fiche
           n == IF b THEN ecran[p].revision ELSE demande[d].revision
           w == IF b THEN ecran[p].trace ELSE demande[d].vu
           r == [op |-> demande[d].type, fiche |-> f, revision |-> n, statut |-> fiche[f].statut,
                 valeur |-> demande[d].valeur, ecart |-> FALSE, vu |-> w, demande |-> d]
<1>1. /\ verrouDemande[d] = Aucun /\ EnAttente(d) /\ demande[d] # Aucun
      /\ AutoApprobation \/ demande[d].par # p
      /\ demande[d].type # "telechargement" /\ (b => ecran[p] # Aucun /\ ecran[p].fiche = f)
  BY DEF lire_decision, PeutDecider, EnAttente, Existe
<1>2. /\ fiche[f].statut \notin
            (IF demande[d].type = "modification" THEN {"valide", "supprimee"} ELSE {"supprimee"})
      /\ requete' = [requete EXCEPT ![p] = r]
      /\ verrouDemande' = [verrouDemande EXCEPT ![d] = p]
      /\ ecran' = ecran \/ ecran' = [ecran EXCEPT ![p] = Aucun]
      /\ UNCHANGED <<fiche, verrou, demande>>
  BY DEF lire_decision
<1>3. /\ TypeDossiers /\ demande[d] \in LignesDemande /\ JusteA(f, demande[d].revision, demande[d].vu)
      /\ b => ecran[p] \in Ecrans /\ JusteA(f, ecran[p].revision, ecran[p].trace)
  BY <1>1 DEF InvDossiers, TypeDossiers, DemandeJuste, EcranJuste
<1>4. /\ f \in Fiches /\ n \in Nat /\ w \in Lus /\ JusteA(f, n, w)
      /\ demande[d].type \in DesDemandes /\ demande[d].valeur \in Lus
  BY <1>1, <1>3 DEF LignesDemande, Ecrans, TypesDemande, DesDemandes
<1>5. fiche[f].statut \in Statuts
  BY <1>3, <1>4, LignesLues
<1>6. r \in Requetes
  BY <1>4, <1>5 DEF Requetes, Ops, Decisions, DesDemandes
<1>7. /\ r.op = demande[d].type /\ r.fiche = f /\ r.revision = n /\ r.vu = w /\ r.demande = d
      /\ r.statut = fiche[f].statut
  OBVIOUS
<1>8. /\ fiche[f].statut # "supprimee" /\ (demande[d].type = "modification" => fiche[f].statut # "valide")
  BY <1>2
<1> HIDE DEF f, n, w, r
<1>9. Fondee(r)
  BY <1>4, <1>5, <1>7, <1>8 DEF Fondee, DesDemandes, Statuts
<1>10. /\ verrou' \in [Fiches -> Postes \cup {Aucun}] /\ UNCHANGED verrou
       /\ verrouDemande' \in [Demandes -> Postes \cup {Aucun}] /\ verrouDemande'[d] = p
       /\ \A e \in Demandes : verrouDemande'[e] = verrouDemande[e] \/ verrouDemande[e] = Aucun
  BY <1>1, <1>2, <1>3 DEF TypeDossiers
<1>11. r.op \notin {"valide_dans_lot", "ecrire"}
  BY <1>4, <1>7 DEF DesDemandes
<1>12. InvDossiers'
  BY <1>1, <1>2, <1>6, <1>7, <1>9, <1>10, <1>11, UneOuverture
<1> QED BY <1>2, <1>12, SansRevision

LEMMA UneExecution ==
  ASSUME InvDossiers, NEW p \in Postes, executer_demande(p)
  PROVE  PasDossiers
<1> DEFINE r == requete[p]
           f == r.fiche
           x == fiche[f]
<1>0. requete[p] # Aucun
  BY DEF executer_demande
<1>1. /\ TypeDossiers /\ r \in Requetes /\ f \in Fiches /\ x \in Lignes /\ Fondee(r) /\ Tient(p)
  BY <1>0 DEF InvDossiers, TypeDossiers, Requetes
<1>2. /\ x.trace \in Lus /\ x.statut \in Statuts /\ x.corrige \in BOOLEAN
      /\ x.canonique \in Lus /\ x.assume \in BOOLEAN /\ r.valeur \in Lus
      /\ "supprimee" \in Statuts
      /\ r.revision = x.revision => r.statut = x.statut
  BY <1>1 DEF Lignes, Requetes, Fondee, Statuts
<1>3. /\ demande' = [demande EXCEPT ![r.demande].statut = "executee", ![r.demande].decideur = p]
      /\ verrouDemande' = [verrouDemande EXCEPT ![r.demande] = Aucun]
      /\ Rendre(p) /\ UNCHANGED ecran
  BY DEF executer_demande
<1> HIDE DEF x
<1>4. CASE r.op = "modification" /\ avancer_revision(p) /\ CorrigerLeChamp(r)
  <2>1. /\ Reviser(r, x.statut, r.valeur, TRUE, r.valeur, x.assume)
        /\ verrou[f] \in {Aucun, p} /\ r.revision = x.revision
    BY <1>4 DEF avancer_revision, RevisionTenue, CorrigerLeChamp, x
  <2>2. x.statut \in {"a_valider", "rejete"} /\ r.op \in DesDemandes
    BY <1>1, <1>2, <1>4, <2>1 DEF Fondee, DesDemandes
  <2> QED BY <1>0, <1>2, <1>3, <2>1, <2>2, UneEcritureDeFiche DEF x
<1>5. CASE r.op = "suppression" /\ supprimer_fiche(p)
  <2>1. /\ Reviser(r, "supprimee", x.trace, x.corrige, x.canonique, FALSE)
        /\ verrou[f] \in {Aucun, p} /\ r.revision = x.revision
    BY <1>5 DEF supprimer_fiche, decision_sous_verrou, RevisionTenue, x
  <2>2. x.statut # "supprimee" /\ r.op \in DesDemandes
    BY <1>1, <1>2, <1>5, <2>1 DEF Fondee, DesDemandes
  <2> QED BY <1>0, <1>2, <1>3, <2>1, <2>2, UneEcritureDeFiche DEF x
<1> QED BY <1>4, <1>5 DEF executer_demande

(* The start, and every step.                                               *)
LEMMA DebutDossiers ==
  ASSUME Init
  PROVE  InvDossiers /\ Archive!Init
<1>1. /\ demande = [d \in Demandes |-> Aucun] /\ verrouDemande = [d \in Demandes |-> Aucun]
      /\ verrou = [f \in Fiches |-> Aucun] /\ ecran = [p \in Postes |-> Aucun]
      /\ requete = [p \in Postes |-> Aucun]
  BY DEF Init, InitDemandes, InitFiches, FichesVides
<1>2. /\ fiche \in [Fiches -> Lignes]
      /\ \A f \in Fiches : fiche[f].statut = "a_valider" /\ fiche[f].revision = 1
  <2>1. CASE InitFiches
    <3>1. ASSUME NEW r \in FichesInitiales PROVE r \in Lignes
      <4>1. /\ r.statut = "a_valider" /\ r.revision = 1 /\ r.trace \in Valeurs /\ r.corrige \in BOOLEAN
            /\ r.canonique \in Valeurs /\ r.assume \in BOOLEAN
        BY DEF FichesInitiales
      <4>2. r.statut \in Statuts /\ r.revision \in Nat /\ r.trace \in Lus /\ r.canonique \in Lus
        BY <4>1 DEF Statuts, Lus
      <4>3. r = [statut |-> r.statut, revision |-> r.revision, trace |-> r.trace, corrige |-> r.corrige,
                 canonique |-> r.canonique, assume |-> r.assume]
        BY DEF FichesInitiales
      <4> QED BY <4>1, <4>2, <4>3 DEF Lignes
    <3>2. fiche \in [Fiches -> FichesInitiales]
      BY <2>1 DEF InitFiches
    <3> QED BY <3>1, <3>2 DEF FichesInitiales
  <2>2. CASE FichesVides
    BY <2>2 DEF FichesVides, Lignes, Statuts, Lus
  <2> QED BY <2>1, <2>2 DEF Init
<1>3. InvDossiers
  BY <1>1, <1>2 DEF InvDossiers, TypeDossiers, EcranJuste, DemandeJuste
<1>4. \A f \in Fiches : fiche[f].trace \in Valeurs \cup {Aucun} /\ fiche[f].corrige \in BOOLEAN
  BY <1>2 DEF Lignes, Lus
<1>5. Archive!Init
  BY <1>2, <1>4 DEF Archive!Init
<1> QED BY <1>3, <1>5

LEMMA UnPasDesDossiers ==
  ASSUME InvDossiers, [Next]_varsServices
  PROVE  PasDossiers
<1>1. CASE UNCHANGED varsDossiers
  <2>1. UNCHANGED <<fiche, verrou, ecran, requete, demande, verrouDemande>>
    BY <1>1 DEF varsDossiers, varsFiches, varsDemandes
  <2>2. InvDossiers'
    BY <2>1 DEF InvDossiers, TypeDossiers, EcranJuste, DemandeJuste, JusteA, Fondee, Tient, EnAttente, Existe
  <2> QED BY <2>1, <2>2, SansRevision
<1>2. CASE NextFiches /\ UNCHANGED varsDemandes
  <2>1. PICK p \in Operateurs :
          \/ \E f \in Fiches : etat_fiche(p, f) \/ fichier_validation(p, f)
          \/ \E v \in Valeurs : lire_correction(p, v)
          \/ \E b \in BOOLEAN : lire_validation(p, b) \/ lire_dans_lot(p, b) \/ lire_reouverture(p, b)
          \/ lire_rejet(p)
          \/ corriger_champ(p) \/ valider_fiche(p) \/ rejeter_fiche(p) \/ rouvrir_fiche(p)
          \/ valider_dans_lot(p) \/ valider_lot(p)
    BY <1>2 DEF NextFiches
  <2>2. p \in Postes
    BY DEF Postes
  <2> QED BY <1>2, <2>1, <2>2, LectureDesEcrans, EcritureDesEcrans
<1>3. CASE NextEcritures /\ UNCHANGED varsDemandes
  <2>1. PICK p \in Postes :
          \/ \E f \in Fiches :
               \/ lire_corrections(p, f)
               \/ \E v \in Valeurs : lire_existante(p, f, v) \/ creer_fiche_depuis_import(p, f, v)
          \/ reconcilier_fiche(p) \/ ecrire_fiche(p)
    BY <1>3 DEF NextEcritures
  <2>2. CASE reconcilier_fiche(p) \/ ecrire_fiche(p)
    BY <1>3, <2>2, EcritureSansEcran
  <2>3. CASE \E f \in Fiches : lire_corrections(p, f) \/ \E v \in Valeurs : LireExistante(p, f, v)
    BY <1>3, <2>3, LectureSansEcran
  <2> QED BY <2>1, <2>2, <2>3 DEF lire_existante, creer_fiche_depuis_import
<1>4. CASE NextDemandes
  <2>1. ASSUME NEW p \in Postes, NEW d \in Demandes, NEW v \in Valeurs, creer_demande(p, d, "modification", v)
        PROVE  PasDossiers
    BY <2>1, UneCreation DEF TypesDemande, Lus
  <2>2. ASSUME NEW p \in Postes, NEW d \in Demandes, NEW t \in TypesDemande \ {"modification"},
               creer_demande(p, d, t, Aucun)
        PROVE  PasDossiers
    BY <2>2, UneCreation DEF Lus
  <2>3. ASSUME NEW p \in Postes, NEW d \in Demandes,
               \/ annuler_demande(p, d) \/ refuser_demande(p, d) \/ approuver_telechargement(p, d)
               \/ autoriser_telechargement_piece(p, d)
        PROVE  PasDossiers
    BY <2>3, UneSuiteDeDemande
  <2>4. ASSUME NEW d \in Demandes, expirer_telechargements(d) PROVE PasDossiers
    <3>1. CASE Postes = {}
      <4>1. UNCHANGED <<varsFiches, verrouDemande>> /\ demande[d] # Aucun
            /\ demande' = [demande EXCEPT ![d].statut = "expiree"] /\ ~EnAttente(d)
        BY <2>4 DEF expirer_telechargements, EnAttente, Existe
      <4> DEFINE y == [demande[d] EXCEPT !.statut = "expiree"]
      <4>2. demande[d] \in LignesDemande
        BY <4>1 DEF InvDossiers, TypeDossiers
      <4>3. y \in LignesDemande /\ y.fiche = demande[d].fiche /\ y.revision = demande[d].revision
            /\ y.vu = demande[d].vu
        BY <4>2 DEF LignesDemande, StatutsDemande
      <4>4. demande' = [demande EXCEPT ![d] = y]
        BY <4>1
      <4> HIDE DEF y
      <4> QED BY <4>1, <4>3, <4>4, UnChangementDeStatut
    <3>2. CASE \E p \in Postes : TRUE
      BY <2>4, <3>2, UneSuiteDeDemande
    <3> QED BY <3>1, <3>2
  <2>5. ASSUME NEW p \in Postes, NEW d \in Demandes, \E b \in BOOLEAN : lire_decision(p, d, b)
        PROVE  PasDossiers
    BY <2>5, UneDecisionLue
  <2>6. ASSUME NEW p \in Postes, executer_demande(p) \/ abandonner_requete(p) PROVE PasDossiers
    BY <2>6, UneExecution, Abandon
  <2> QED BY <1>4, <2>1, <2>2, <2>3, <2>4, <2>5, <2>6 DEF NextDemandes
<1>5. CASE \E p \in Postes : abandonner_requete(p)
  BY <1>5, Abandon
<1>6. NextDossiers => \/ NextFiches /\ UNCHANGED varsDemandes
                      \/ NextEcritures /\ UNCHANGED varsDemandes
                      \/ NextDemandes \/ \E p \in Postes : abandonner_requete(p)
  BY DEF NextDossiers
<1>7. UNCHANGED varsDossiers \/ NextDossiers
  BY DEF Next, varsServices
<1> QED BY <1>1, <1>2, <1>3, <1>4, <1>5, <1>6, <1>7

LEMMA LesDossiers == Spec => [][PasDossiers]_varsServices
<1>1. Init => InvDossiers
  BY DebutDossiers
<1>2. InvDossiers /\ [Next]_varsServices => InvDossiers'
  BY UnPasDesDossiers DEF PasDossiers
<1>3. InvDossiers /\ [Next]_varsServices => [PasDossiers]_varsServices
  BY UnPasDesDossiers
<1> QED BY <1>1, <1>2, <1>3, PTL DEF Spec

(* A decision is only applied to the value its author had on the screen: an *)
(* operator, a deposit or a request that wrote in between makes it fail     *)
(* (_avancer_revision, _decision_sous_verrou).                              *)
THEOREM DecisionSurCeQuiEstLuProuvee == Spec => DecisionSurCeQuiEstLu
<1>1. [PasDossiers]_varsServices =>
        [\A p \in Postes : Applique(p) => fiche[requete[p].fiche].trace = requete[p].vu]_varsDossiers
  BY DEF PasDossiers, ALireJuste, varsServices
<1> QED BY <1>1, LesDossiers, PTL DEF DecisionSurCeQuiEstLu

(* A request is carried out while it is pending, and not by its author      *)
(* unless the deployment allows it (decider_demande).                       *)
THEOREM UneSeuleExecutionProuvee == Spec => UneSeuleExecution
<1>1. [PasDossiers]_varsServices =>
        [\A p \in Postes :
           Applique(p) /\ requete[p].demande # Aucun =>
             /\ EnAttente(requete[p].demande)
             /\ AutoApprobation \/ demande[requete[p].demande].par # p]_varsDossiers
  BY DEF PasDossiers, UneSeule, varsServices
<1> QED BY <1>1, LesDossiers, PTL DEF UneSeuleExecution

(* Records are an archive one can rely on: each step of an operator, of a   *)
(* deposit or of a request is one of ArchiveDeConfiance, or changes nothing *)
(* that it promises.                                                        *)
THEOREM RespecteArchiveProuve == Spec => RespecteArchive
<1>1. Init => Archive!Init
  BY DebutDossiers
<1>2. [PasDossiers]_varsServices => [Archive!Next]_(Archive!vars)
  <2>1. UNCHANGED varsServices => UNCHANGED Archive!vars
    BY DEF varsServices, varsDossiers, varsFiches, Archive!vars
  <2> QED BY <2>1 DEF PasDossiers
<1> QED BY <1>1, <1>2, LesDossiers, PTL DEF Spec, RespecteArchive, Archive!Spec

----------------------------------------------------------------------------
(* Models, labels, boats and extractions.                                   *)

Etats == {"non_resolu", "sans_modele", "ambigu", "lie_automatique", "lie_humain"}
LignesModele == [fusion : Libelles \cup {Nul}, actif : BOOLEAN]

TypeReferentiel ==
  /\ modele \in [Libelles -> LignesModele \cup {Nul}]
  /\ alias \in [Libelles -> Libelles \cup {Nul}]
  /\ bateau \in [Bateaux -> [nom : Libelles \cup {Nul}, modele : Libelles \cup {Nul}]]
  /\ extraction \in [Extractions -> [brut : Libelles \cup {Nul}, bateau : Bateaux \cup {Nul},
                                     statut : Etats, modele : Libelles \cup {Nul}]]
  /\ transaction = [t \in Connexions |-> transaction[t]]

(* A merged model is merged into a live one.                                *)
LiensDirects == \A m \in Modeles : ~Vivant(m) => Vivant(modele[m].fusion)
(* A label that leads somewhere leads to a model, the key of a model to it. *)
PorteSonNom == \A m \in Modeles : alias[m] = m
EtiquettesConnues == \A l \in Libelles : alias[l] # Nul => alias[l] \in Modeles

(* What a transaction read, and the rows it keeps.                          *)
JusteBateau(r) ==
  /\ r.bateau \in Bateaux /\ r.modele \in Libelles
  /\ bateau[r.bateau].nom \in Libelles
  /\ IF r.nouveau THEN r.modele = bateau[r.bateau].nom
     ELSE r.modele \in Modeles /\ alias[bateau[r.bateau].nom] # Nul
JusteFusion(r) ==
  /\ r.source # r.cible /\ {r.source, r.cible} \subseteq r.tient
  /\ Vivant(r.source) /\ Vivant(r.cible)
  /\ Entrants(r.source) \subseteq r.entrants /\ r.entrants \subseteq Modeles
JusteDefusion(r) == r.source \in r.tient /\ r.source \in Modeles /\ r.cible \in Libelles
JusteLiaison(r) ==
  /\ r.extraction \in r.tient \cap Extractions
  /\ r.modele \in Libelles
  /\ r.nouveau \/ r.modele \in Modeles
JusteResolution(r) ==
  /\ r.extraction \in r.tient \cap Extractions
  /\ r.brut \in Libelles \cup {Nul}
  /\ r.decision.statut \in Etats /\ r.decision.modele \in Libelles \cup {Nul}
  /\ extraction[r.extraction].statut # "lie_humain" \/ r.brut # extraction[r.extraction].brut
Juste(r) ==
  /\ r.op \in {"bateau", "fusion", "defusion", "lot", "liaison", "resolution"}
  /\ r.op = "bateau" => JusteBateau(r)
  /\ r.op = "fusion" => JusteFusion(r)
  /\ r.op = "defusion" => JusteDefusion(r)
  /\ r.op = "liaison" => JusteLiaison(r)
  /\ r.op = "resolution" => JusteResolution(r)
  /\ r.op = "lot" => r = [op |-> "lot", reste |-> r.reste, tient |-> r.tient]

Exclusives ==
  \A t, u \in Connexions : t # u /\ transaction[t] # Nul /\ transaction[u] # Nul =>
    transaction[t].tient \cap transaction[u].tient = {}

InvReferentiel ==
  /\ TypeReferentiel /\ LiensDirects /\ PorteSonNom /\ EtiquettesConnues /\ Exclusives
  /\ \A t \in Connexions : transaction[t] # Nul => Juste(transaction[t])

(* The chain of merges is followed in one step.                             *)
LEMMA FinalDirect ==
  ASSUME InvReferentiel, NEW m \in Libelles
  PROVE  /\ resoudre_modele_final(m) = Pas(m) /\ Pas(m) \in Libelles
         /\ m \in Modeles => Vivant(Pas(m))
<1> DEFINE N == Cardinality(Libelles)
           F(s) == [n \in 0..N |-> IF n = 0 THEN m ELSE Pas(s[n - 1])]
           direct == [n \in 0..N |-> IF n = 0 THEN m ELSE Pas(m)]
           suite == CHOOSE s : s = F(s)
<1>1. N \in Nat /\ N # 0 /\ m \in Libelles
  BY HypReferentiel, FS_CardinalityType, FS_EmptySet DEF Modeles
<1>2. (m \in Modeles => Vivant(Pas(m))) /\ Pas(m) \in Libelles /\ Pas(Pas(m)) = Pas(m)
  BY DEF InvReferentiel, LiensDirects, Pas, Vivant, Modeles
<1>3. resoudre_modele_final(m) = suite[N]
  BY DEF resoudre_modele_final
<1>4. suite = F(suite)
  <2>1. direct = F(direct)
    <3>1. ASSUME NEW n \in 0..N PROVE direct[n] = F(direct)[n]
      <4>1. CASE n = 0
        BY <4>1, <1>1
      <4>2. CASE n # 0
        <5>1. n - 1 \in 0..N
          BY <4>2, <1>1
        <5>2. direct[n - 1] = IF n - 1 = 0 THEN m ELSE Pas(m)
          BY <5>1
        <5> QED BY <1>2, <4>2, <5>2
      <4> QED BY <4>1, <4>2
    <3> QED BY <3>1
  <2> QED BY <2>1
<1> HIDE DEF suite
<1>5. suite[0] = m /\ \A n \in 1..N : suite[n] = Pas(suite[n - 1])
  BY <1>1, <1>4
<1> HIDE DEF N
<1>6. \A n \in 1..N : suite[n] = Pas(m)
  <2> DEFINE R == {ss \in Nat \X Nat : ss[1] < ss[2]}
             T == {n \in 1..N : suite[n] # Pas(m)}
  <2> SUFFICES ASSUME T # {} PROVE FALSE
    OBVIOUS
  <2>1. IsWellFoundedOn(R, Nat)
    BY NatLessThanWellFounded DEF OpToRel
  <2>2. \A x, y \in T : y < x => <<y, x>> \in R
    BY <1>1
  <2>3. T \subseteq Nat
    BY <1>1
  <2> HIDE DEF R
  <2>4. PICK n \in T : \A y \in T : ~ (<<y, n>> \in R)
    BY <2>1, <2>3, WFMin
  <2>5. n \in 1..N /\ suite[n] # Pas(m)
    OBVIOUS
  <2>6. CASE n = 1
    BY <1>5, <2>5, <2>6
  <2>7. CASE n # 1
    <3>1. n - 1 \in 1..N /\ n - 1 < n
      BY <1>1, <2>5, <2>7
    <3>2. n - 1 \notin T
      BY <2>2, <2>4, <3>1
    <3> QED BY <1>2, <1>5, <2>5, <3>1, <3>2
  <2> QED BY <2>6, <2>7
<1> QED BY <1>1, <1>2, <1>3, <1>6

LEMMA DepuisTexte ==
  ASSUME InvReferentiel, NEW l \in Libelles
  PROVE  IF alias[l] = Nul THEN resoudre_modele_depuis_texte(l) = Nul /\ l \notin Modeles
         ELSE /\ resoudre_modele_depuis_texte(l) = resoudre_modele_final(alias[l])
              /\ resoudre_modele_depuis_texte(l) \in Libelles
              /\ Vivant(resoudre_modele_depuis_texte(l))
<1>1. CASE alias[l] = Nul
  BY <1>1, HypReferentiel DEF InvReferentiel, PorteSonNom, resoudre_modele_depuis_texte, Modeles
<1>2. CASE alias[l] # Nul
  <2>1. alias[l] \in Modeles /\ alias[l] \in Libelles
    BY <1>2 DEF InvReferentiel, EtiquettesConnues, Modeles
  <2>2. resoudre_modele_depuis_texte(l) = resoudre_modele_final(alias[l])
    BY <1>2, HypReferentiel DEF resoudre_modele_depuis_texte
  <2> QED BY <1>2, <2>1, <2>2, FinalDirect
<1> QED BY <1>1, <1>2

LEMMA NonTenues ==
  ASSUME NEW t \in Connexions, NEW T, Disponibles(t, T), NEW u \in Connexions \ {t}, transaction[u] # Nul
  PROVE  T \cap transaction[u].tient = {}
BY DEF Disponibles, Tenus

(* What the others do leaves a transaction what it read.                    *)
LEMMA TransactionGardee ==
  ASSUME NEW r, Juste(r), Modeles \subseteq Modeles',
         \A l \in Libelles : alias[l] # Nul => alias'[l] = alias[l],
         \A b \in Bateaux : bateau'[b].nom = bateau[b].nom,
         \A x \in r.tient \cap Extractions : extraction'[x] = extraction[x],
         \A m \in r.tient : Vivant(m) => Vivant(m)' /\ Entrants(m)' \subseteq Entrants(m)
  PROVE  Juste(r)'
<1>1. CASE r.op = "bateau"
  BY <1>1 DEF Juste, JusteBateau
<1>2. CASE r.op = "fusion"
  BY <1>2 DEF Juste, JusteFusion
<1>3. CASE r.op = "defusion"
  BY <1>3 DEF Juste, JusteDefusion
<1>4. CASE r.op = "liaison"
  BY <1>4 DEF Juste, JusteLiaison
<1>5. CASE r.op = "resolution"
  BY <1>5 DEF Juste, JusteResolution
<1>6. CASE r.op = "lot"
  BY <1>6 DEF Juste
<1> QED BY <1>1, <1>2, <1>3, <1>4, <1>5, <1>6 DEF Juste

Stable(u) ==
  /\ \A x \in transaction[u].tient \cap Extractions : extraction'[x] = extraction[x]
  /\ \A m \in transaction[u].tient : Vivant(m) => Vivant(m)' /\ Entrants(m)' \subseteq Entrants(m)

LEMMA UnPasDeReference ==
  ASSUME InvReferentiel, NEW t \in Connexions, NEW r, transaction' = [transaction EXCEPT ![t] = r],
         r # Nul => /\ Juste(r)'
                    /\ \A u \in Connexions \ {t} : transaction[u] # Nul => r.tient \cap transaction[u].tient = {},
         TypeReferentiel', LiensDirects', PorteSonNom', EtiquettesConnues',
         Modeles \subseteq Modeles',
         \A l \in Libelles : alias[l] # Nul => alias'[l] = alias[l],
         \A b \in Bateaux : bateau'[b].nom = bateau[b].nom,
         \A u \in Connexions \ {t} : transaction[u] # Nul => Stable(u)
  PROVE  InvReferentiel'
<1>1. DOMAIN transaction = Connexions /\ DOMAIN transaction' = Connexions
  BY DEF InvReferentiel, TypeReferentiel
<1>2. transaction'[t] = r /\ \A u \in Connexions \ {t} : transaction'[u] = transaction[u]
  BY <1>1
<1>3. Exclusives'
  <2> SUFFICES ASSUME NEW u \in Connexions, NEW v \in Connexions, u # v,
                      transaction'[u] # Nul, transaction'[v] # Nul
               PROVE  transaction'[u].tient \cap transaction'[v].tient = {}
    BY DEF Exclusives
  <2>1. CASE u = t
    BY <1>2, <2>1
  <2>2. CASE v = t
    BY <1>2, <2>2
  <2>3. CASE u # t /\ v # t
    BY <1>2, <2>3 DEF InvReferentiel, Exclusives
  <2> QED BY <2>1, <2>2, <2>3
<1>4. ASSUME NEW u \in Connexions, transaction'[u] # Nul PROVE Juste(transaction[u])'
  <2>1. CASE u = t
    BY <1>2, <1>4, <2>1 DEF Juste, JusteBateau, JusteFusion, JusteDefusion, JusteLiaison, JusteResolution
  <2>2. CASE u # t
    <3> PICK y : y = transaction[u]
      OBVIOUS
    <3>1. y # Nul /\ Juste(y) /\ transaction'[u] = y
      BY <1>2, <1>4, <2>2 DEF InvReferentiel
    <3>2. Juste(y)'
      BY <1>2, <1>4, <2>2, <3>1, TransactionGardee DEF Stable
    <3> QED BY <3>1, <3>2 DEF Juste, JusteBateau, JusteFusion, JusteDefusion, JusteLiaison, JusteResolution
  <2> QED BY <2>1, <2>2
<1> QED BY <1>3, <1>4 DEF InvReferentiel

(* A human link is only opened by a new label.                              *)
HumaineTenue ==
  \A x \in Extractions :
    extraction[x].statut = "lie_humain" /\ extraction'[x].statut # "lie_humain" =>
      extraction'[x].brut # extraction[x].brut
PasReferentiel == InvReferentiel' /\ HumaineTenue

(* Reading writes nothing but what was read.                                *)
LEMMA UneLectureSeule ==
  ASSUME InvReferentiel, NEW t \in Connexions, NEW r, transaction' = [transaction EXCEPT ![t] = r], Lu,
         Juste(r),
         \A u \in Connexions \ {t} : transaction[u] # Nul => r.tient \cap transaction[u].tient = {}
  PROVE  PasReferentiel
<1>1. UNCHANGED <<modele, alias, bateau, extraction, historique>>
  BY DEF Lu
<1>2. /\ TypeReferentiel' /\ LiensDirects' /\ PorteSonNom' /\ EtiquettesConnues' /\ Modeles' = Modeles
      /\ \A u : Stable(u)
  BY <1>1 DEF InvReferentiel, TypeReferentiel, LiensDirects, PorteSonNom, EtiquettesConnues, Vivant,
              Modeles, Stable, Entrants
<1>3. Juste(r)'
  BY <1>1 DEF Juste, JusteBateau, JusteFusion, JusteDefusion, JusteLiaison, JusteResolution, Vivant,
              Modeles, Entrants
<1>4. InvReferentiel'
  BY <1>1, <1>2, <1>3, UnPasDeReference
<1> QED BY <1>1, <1>4 DEF PasReferentiel, HumaineTenue

(* A transaction ends.                                                      *)
LEMMA UneFinDeTransaction ==
  ASSUME InvReferentiel, NEW t \in Connexions, Finir(t),
         TypeReferentiel', LiensDirects', PorteSonNom', EtiquettesConnues',
         Modeles \subseteq Modeles',
         \A l \in Libelles : alias[l] # Nul => alias'[l] = alias[l],
         \A b \in Bateaux : bateau'[b].nom = bateau[b].nom,
         \A u \in Connexions \ {t} : transaction[u] # Nul => Stable(u)
  PROVE  InvReferentiel'
BY UnPasDeReference DEF Finir

(* A model is created, with its key for its label.                          *)
LEMMA UnModeleCree ==
  ASSUME InvReferentiel, NEW m \in Libelles, modele' = Creer(m)
  PROVE  /\ modele' \in [Libelles -> LignesModele \cup {Nul}]
         /\ Modeles' = Modeles \cup {m}
         /\ \A k : Vivant(k) => Vivant(k)'
         /\ \A k \in Libelles : Entrants(k)' \subseteq Entrants(k)
         /\ LiensDirects'
<1>1. CASE m \in Modeles
  BY <1>1 DEF Creer, InvReferentiel, TypeReferentiel, LiensDirects, Vivant, Modeles, Entrants
<1>2. CASE m \notin Modeles
  <2> DEFINE y == [fusion |-> Nul, actif |-> TRUE]
  <2>1. y # Nul /\ y \in LignesModele /\ y.fusion = Nul
    BY HypReferentiel DEF LignesModele
  <2> HIDE DEF y
  <2>2. modele' = [modele EXCEPT ![m] = y] /\ modele[m] = Nul
    BY <1>2 DEF Creer, Modeles, y
  <2>3. /\ modele' \in [Libelles -> LignesModele \cup {Nul}] /\ modele'[m] = y
        /\ \A k \in Libelles \ {m} : modele'[k] = modele[k]
    BY <2>1, <2>2 DEF InvReferentiel, TypeReferentiel
  <2>4. Modeles' = Modeles \cup {m}
    BY <2>1, <2>3 DEF Modeles
  <2>5. \A k : Vivant(k) => Vivant(k)'
    BY <2>2, <2>3, <2>4 DEF Vivant, Modeles
  <2>6. \A k \in Libelles : Entrants(k)' \subseteq Entrants(k)
    <3>1. Modeles \subseteq Libelles
      BY DEF Modeles
    <3> SUFFICES ASSUME NEW k \in Libelles, NEW e \in Modeles', modele'[e].fusion = k
                 PROVE  e \in Modeles /\ modele[e].fusion = k
      BY DEF Entrants
    <3>2. e # m
      BY <2>1, <2>3, HypReferentiel
    <3> QED BY <2>3, <2>4, <3>1, <3>2
  <2>7. LiensDirects'
    <3> SUFFICES ASSUME NEW k \in Modeles', ~Vivant(k)' PROVE Vivant(modele[k].fusion)'
      BY DEF LiensDirects
    <3>1. k # m /\ k \in Modeles /\ modele'[k] = modele[k]
      BY <2>1, <2>3, <2>4 DEF Vivant, Modeles
    <3>2. Vivant(modele[k].fusion)
      BY <2>4, <3>1 DEF InvReferentiel, LiensDirects, Vivant
    <3> QED BY <2>5, <3>1, <3>2 DEF Vivant
  <2> QED BY <2>3, <2>4, <2>5, <2>6, <2>7
<1> QED BY <1>1, <1>2

LEMMA DesBateaux ==
  ASSUME InvReferentiel, NEW t \in Connexions,
         \/ lier_bateau_au_modele(t) \/ \E b \in Bateaux : lire_bateau(t, b)
         \/ \E l, m \in Libelles : ajouter_alias(t, l, m)
  PROVE  PasReferentiel
<1>1. CASE \E b \in Bateaux : lire_bateau(t, b)
  <2> PICK b \in Bateaux : lire_bateau(t, b)
    BY <1>1
  <2> DEFINE l == bateau[b].nom
  <2>0. l \in Libelles
    BY DEF lire_bateau, InvReferentiel, TypeReferentiel
  <2>1. PICK r : r = [op |-> "bateau", bateau |-> b, tient |-> {},
                      nouveau |-> resoudre_modele_depuis_texte(l) = Nul, modele |-> assurer_modele(l)]
    OBVIOUS
  <2>2. transaction' = [transaction EXCEPT ![t] = r] /\ Lu
    BY <2>1 DEF lire_bateau, Commencer
  <2>3. JusteBateau(r)
    <3>1. CASE alias[l] = Nul
      BY <2>0, <2>1, <3>1, DepuisTexte DEF JusteBateau, assurer_modele
    <3>2. CASE alias[l] # Nul
      <4>1. /\ resoudre_modele_depuis_texte(l) \in Modeles /\ resoudre_modele_depuis_texte(l) # Nul
            /\ resoudre_modele_depuis_texte(l) \in Libelles
        BY <2>0, <3>2, DepuisTexte, HypReferentiel DEF Vivant
      <4> QED BY <2>0, <2>1, <3>2, <4>1 DEF JusteBateau, assurer_modele
    <3> QED BY <3>1, <3>2
  <2>4. Juste(r) /\ r.tient = {}
    BY <2>1, <2>3 DEF Juste
  <2> QED BY <2>2, <2>4, UneLectureSeule
<1>2. CASE lier_bateau_au_modele(t)
  <2> PICK r : r = transaction[t]
    OBVIOUS
  <2>1. /\ r # Nul /\ r.op = "bateau" /\ Juste(r) /\ JusteBateau(r) /\ Creable(r) /\ Finir(t)
        /\ modele' = Creer(r.modele) /\ alias' = Etiqueter(bateau[r.bateau].nom, r.modele)
        /\ bateau' = [bateau EXCEPT ![r.bateau].modele = r.modele]
        /\ UNCHANGED <<extraction, historique>>
    BY <1>2 DEF lier_bateau_au_modele, EnTransaction, InvReferentiel, Juste
  <2> DEFINE l == bateau[r.bateau].nom
  <2>2. l \in Libelles /\ r.modele \in Libelles /\ r.bateau \in Bateaux
    BY <2>1 DEF JusteBateau
  <2>3. /\ modele' \in [Libelles -> LignesModele \cup {Nul}] /\ Modeles' = Modeles \cup {r.modele}
        /\ \A k : Vivant(k) => Vivant(k)'
        /\ \A k \in Libelles : Entrants(k)' \subseteq Entrants(k)
        /\ LiensDirects'
    BY <2>1, <2>2, UnModeleCree
  <2>4. /\ alias' \in [Libelles -> Libelles \cup {Nul}]
        /\ \A k \in Libelles : alias[k] # Nul => alias'[k] = alias[k]
        /\ \A k \in Libelles \ {l} : alias'[k] = alias[k]
        /\ alias[l] = Nul => alias'[l] = r.modele
    BY <2>1, <2>2 DEF Etiqueter, InvReferentiel, TypeReferentiel
  <2>5. IF r.nouveau THEN r.modele = l /\ l \notin Modeles /\ alias[l] = Nul
        ELSE r.modele \in Modeles /\ alias[l] # Nul
    BY <2>1 DEF JusteBateau, Creable
  <2>6. PorteSonNom' /\ EtiquettesConnues'
    <3>1. Modeles \subseteq Libelles /\ \A m \in Modeles : alias[m] = m /\ alias[m] # Nul
      BY HypReferentiel DEF InvReferentiel, PorteSonNom, Modeles
    <3>2. \A m \in Modeles' : alias'[m] = m
      <4> SUFFICES ASSUME NEW m \in Modeles' PROVE alias'[m] = m
        OBVIOUS
      <4>1. CASE m \in Modeles
        BY <2>4, <3>1, <4>1
      <4>2. CASE m \notin Modeles
        BY <2>2, <2>3, <2>4, <2>5, <4>2
      <4> QED BY <4>1, <4>2
    <3>3. \A k \in Libelles : alias'[k] # Nul => alias'[k] \in Modeles'
      <4> SUFFICES ASSUME NEW k \in Libelles, alias'[k] # Nul PROVE alias'[k] \in Modeles'
        OBVIOUS
      <4>1. CASE alias[k] # Nul
        BY <2>3, <2>4, <4>1 DEF InvReferentiel, EtiquettesConnues
      <4>2. CASE alias[k] = Nul
        BY <2>3, <2>4, <4>2
      <4> QED BY <4>1, <4>2
    <3> QED BY <3>2, <3>3 DEF PorteSonNom, EtiquettesConnues
  <2>7. /\ bateau' \in [Bateaux -> [nom : Libelles \cup {Nul}, modele : Libelles \cup {Nul}]]
        /\ \A b \in Bateaux : bateau'[b].nom = bateau[b].nom
    <3> DEFINE y == [bateau[r.bateau] EXCEPT !.modele = r.modele]
    <3>1. /\ y \in [nom : Libelles \cup {Nul}, modele : Libelles \cup {Nul}] /\ y.nom = l
          /\ bateau' = [bateau EXCEPT ![r.bateau] = y]
      BY <2>1, <2>2 DEF InvReferentiel, TypeReferentiel
    <3> HIDE DEF y
    <3> QED BY <2>2, <3>1 DEF InvReferentiel, TypeReferentiel
  <2>8. TypeReferentiel'
    BY <2>1, <2>3, <2>4, <2>7 DEF TypeReferentiel, InvReferentiel, Finir
  <2>9. \A u : Stable(u)
    BY <2>1, <2>3 DEF Stable, Vivant, Modeles
  <2>10. InvReferentiel'
    BY <2>1, <2>3, <2>4, <2>6, <2>7, <2>8, <2>9, UneFinDeTransaction
  <2> QED BY <2>1, <2>10 DEF PasReferentiel, HumaineTenue
<1>3. CASE \E l, m \in Libelles : ajouter_alias(t, l, m)
  <2> PICK l \in Libelles, m \in Libelles : ajouter_alias(t, l, m)
    BY <1>3
  <2> PICK k : k = resoudre_modele_final(m)
    OBVIOUS
  <2>1. /\ Vivant(k) /\ alias' = Etiqueter(l, k) /\ UNCHANGED <<modele, bateau, extraction, historique, transaction>>
    BY DEF ajouter_alias
  <2>2. k \in Libelles /\ k \in Modeles
    BY <2>1 DEF Vivant, Modeles
  <2>3. /\ alias' \in [Libelles -> Libelles \cup {Nul}]
        /\ \A g \in Libelles : alias[g] # Nul => alias'[g] = alias[g]
        /\ \A g \in Libelles \ {l} : alias'[g] = alias[g]
        /\ alias[l] = Nul => alias'[l] = k
    BY <2>1, <2>2 DEF Etiqueter, InvReferentiel, TypeReferentiel
  <2>4. Modeles' = Modeles /\ \A g : Vivant(g)' = Vivant(g) /\ Entrants(g)' = Entrants(g)
    BY <2>1 DEF Modeles, Vivant, Entrants
  <2>5. PorteSonNom' /\ EtiquettesConnues' /\ LiensDirects' /\ TypeReferentiel'
    <3>1. l \in Modeles => alias[l] # Nul
      BY HypReferentiel DEF InvReferentiel, PorteSonNom
    <3>2. PorteSonNom'
      BY <2>3, <2>4, <3>1 DEF InvReferentiel, PorteSonNom, Modeles
    <3>3. EtiquettesConnues'
      BY <2>2, <2>3, <2>4 DEF InvReferentiel, EtiquettesConnues
    <3> QED BY <2>1, <2>3, <2>4, <3>2, <3>3 DEF InvReferentiel, LiensDirects, TypeReferentiel
  <2>6. transaction' = [transaction EXCEPT ![t] = transaction[t]] /\ transaction[t] = Nul
    BY <2>1 DEF ajouter_alias, InvReferentiel, TypeReferentiel
  <2>7. \A u : Stable(u)
    BY <2>1, <2>4 DEF Stable
  <2>8. InvReferentiel'
    BY <2>1, <2>3, <2>4, <2>5, <2>6, <2>7, UnPasDeReference
  <2> QED BY <2>1, <2>8 DEF PasReferentiel, HumaineTenue
<1> QED BY <1>1, <1>2, <1>3
(* Merges and their undoing move rows that nobody else holds.               *)
LEMMA DesModelesDeplaces ==
  ASSUME InvReferentiel, NEW deplaces \in SUBSET Modeles, modele' = [m \in Libelles |-> modele'[m]],
         \A m \in deplaces : modele'[m] \in LignesModele,
         \A m \in Libelles \ deplaces : modele'[m] = modele[m]
  PROVE  modele' \in [Libelles -> LignesModele \cup {Nul}] /\ Modeles' = Modeles
<1>1. \A x \in LignesModele : x # Nul
  BY HypReferentiel DEF LignesModele
<1>2. ASSUME NEW m \in Libelles
      PROVE  /\ modele'[m] \in LignesModele \cup {Nul}
             /\ m \in Modeles <=> modele'[m] # Nul
  BY <1>1 DEF InvReferentiel, TypeReferentiel, Modeles
<1>3. Modeles' = Modeles
  BY <1>2 DEF Modeles
<1>4. modele' \in [Libelles -> LignesModele \cup {Nul}]
  BY <1>2
<1> QED BY <1>3, <1>4

LEMMA DesFusions ==
  ASSUME InvReferentiel, NEW t \in Connexions,
         \/ fusionner_modeles(t) \/ defusionner_modele(t)
         \/ \E l \in Libelles : lire_defusion(t, l) \/ \E m \in Libelles : lire_fusion(t, l, m)
  PROVE  PasReferentiel
<1>0. Modeles \subseteq Libelles /\ Nul \notin Libelles
  BY HypReferentiel DEF Modeles
<1>1. CASE \E l, m \in Libelles : lire_fusion(t, l, m)
  <2> PICK l \in Libelles, m \in Libelles : lire_fusion(t, l, m)
    BY <1>1
  <2>1. PICK r : r = [op |-> "fusion", source |-> l, cible |-> m, tient |-> {l, m},
                      bateaux |-> BateauxDe(l), entrants |-> Entrants(l)]
    OBVIOUS
  <2>2. /\ transaction' = [transaction EXCEPT ![t] = r] /\ Lu /\ Disponibles(t, r.tient)
        /\ l # m /\ Vivant(l) /\ Vivant(m)
    BY <2>1 DEF lire_fusion, Commencer
  <2>3. Juste(r)
    BY <2>1, <2>2 DEF Juste, JusteFusion, Entrants
  <2> QED BY <2>2, <2>3, NonTenues, UneLectureSeule
<1>2. CASE \E l \in Libelles : lire_defusion(t, l)
  <2> PICK l \in Libelles : lire_defusion(t, l)
    BY <1>2
  <2>1. PICK h \in IF Fusions(l) = {} THEN {Deduite(l)} ELSE Fusions(l) :
          Commencer(t, [op |-> "defusion", source |-> l, cible |-> h.cible, tient |-> {l},
                        bateaux |-> h.bateaux, entrants |-> h.entrants])
    BY DEF lire_defusion
  <2>2. PICK r : r = [op |-> "defusion", source |-> l, cible |-> h.cible, tient |-> {l},
                      bateaux |-> h.bateaux, entrants |-> h.entrants]
    OBVIOUS
  <2>3. /\ transaction' = [transaction EXCEPT ![t] = r] /\ Lu /\ Disponibles(t, r.tient)
        /\ l \in Modeles /\ ~Vivant(l)
    BY <2>1, <2>2 DEF lire_defusion, Commencer
  <2>4. h.cible = modele[l].fusion
    BY DEF Fusions, Deduite
  <2>5. r.cible \in Libelles
    BY <1>0, <2>2, <2>3, <2>4 DEF InvReferentiel, LiensDirects, Vivant
  <2>6. Juste(r)
    BY <2>2, <2>3, <2>5 DEF Juste, JusteDefusion
  <2> QED BY <2>3, <2>6, NonTenues, UneLectureSeule
<1>3. ASSUME bateau' \in [Bateaux -> [nom : Libelles \cup {Nul}, modele : Libelles \cup {Nul}]],
             \A x \in Bateaux : bateau'[x].nom = bateau[x].nom,
             Finir(t), UNCHANGED <<alias, extraction>>,
             modele' \in [Libelles -> LignesModele \cup {Nul}], Modeles' = Modeles, LiensDirects',
             \A u \in Connexions \ {t} : transaction[u] # Nul => Stable(u)
      PROVE  PasReferentiel
  <2>1. /\ TypeReferentiel' /\ PorteSonNom' /\ EtiquettesConnues'
    BY <1>3 DEF InvReferentiel, TypeReferentiel, PorteSonNom, EtiquettesConnues, Finir
  <2>2. InvReferentiel'
    BY <1>3, <2>1, UneFinDeTransaction
  <2> QED BY <1>3, <2>2 DEF PasReferentiel, HumaineTenue
<1>4. ASSUME NEW S \in SUBSET Bateaux, NEW k \in Libelles,
             bateau' = [b \in Bateaux |-> IF b \in S THEN [bateau[b] EXCEPT !.modele = k] ELSE bateau[b]]
      PROVE  /\ bateau' \in [Bateaux -> [nom : Libelles \cup {Nul}, modele : Libelles \cup {Nul}]]
             /\ \A x \in Bateaux : bateau'[x].nom = bateau[x].nom
  <2>1. ASSUME NEW x \in Bateaux
        PROVE  /\ [bateau[x] EXCEPT !.modele = k] \in [nom : Libelles \cup {Nul}, modele : Libelles \cup {Nul}]
               /\ [bateau[x] EXCEPT !.modele = k].nom = bateau[x].nom
    BY DEF InvReferentiel, TypeReferentiel
  <2> QED BY <1>4, <2>1 DEF InvReferentiel, TypeReferentiel
<1>5. CASE fusionner_modeles(t)
  <2> PICK r : r = transaction[t]
    OBVIOUS
  <2>1. /\ r # Nul /\ r.op = "fusion" /\ JusteFusion(r) /\ Finir(t) /\ UNCHANGED <<alias, extraction>>
        /\ Disponibles(t, r.entrants \cup r.bateaux) /\ FusionsDatees(r.entrants)
        /\ modele' = [m \in Libelles |->
             IF m = r.source THEN [fusion |-> r.cible, actif |-> FALSE]
             ELSE IF m \in r.entrants THEN [modele[m] EXCEPT !.fusion = r.cible]
             ELSE modele[m]]
        /\ bateau' = [b \in Bateaux |->
             IF b \in r.bateaux THEN [bateau[b] EXCEPT !.modele = r.cible] ELSE bateau[b]]
    BY <1>5 DEF fusionner_modeles, EnTransaction, InvReferentiel, Juste
  <2> DEFINE s == r.source
             c == r.cible
             E == r.entrants
  <2>2. /\ s \in Modeles /\ c \in Modeles /\ s # c /\ Vivant(s) /\ Vivant(c) /\ E \subseteq Modeles
        /\ Entrants(s) \subseteq E /\ s \in r.tient /\ c \in r.tient
        /\ \A e \in E : ~Vivant(e)
    BY <2>1 DEF JusteFusion, FusionsDatees, Vivant
  <2>3. /\ modele' \in [Libelles -> LignesModele \cup {Nul}] /\ Modeles' = Modeles
        /\ modele'[s].fusion = c
        /\ \A m \in E \ {s} : modele'[m].fusion = c
        /\ \A m \in Libelles \ (E \cup {s}) : modele'[m] = modele[m]
    <3>1. /\ modele' = [m \in Libelles |-> modele'[m]]
          /\ modele'[s] = [fusion |-> c, actif |-> FALSE]
          /\ \A m \in E \ {s} : modele'[m] = [modele[m] EXCEPT !.fusion = c]
          /\ \A m \in Libelles \ (E \cup {s}) : modele'[m] = modele[m]
      BY <1>0, <2>1, <2>2
    <3> HIDE DEF s, c, E
    <3>2. c \in Libelles /\ E \cup {s} \in SUBSET Modeles
      BY <1>0, <2>2
    <3>3. [fusion |-> c, actif |-> FALSE] \in LignesModele /\ modele'[s].fusion = c
      BY <3>1, <3>2 DEF LignesModele
    <3>4. ASSUME NEW m \in E \ {s} PROVE modele'[m] \in LignesModele /\ modele'[m].fusion = c
      <4>1. m \in Modeles /\ c \in Libelles /\ modele'[m] = [modele[m] EXCEPT !.fusion = c]
        BY <2>2, <3>1, <3>2
      <4>2. modele[m] \in LignesModele
        BY <4>1 DEF InvReferentiel, TypeReferentiel, Modeles
      <4> QED BY <4>1, <4>2 DEF LignesModele
    <3>5. \A m \in E \cup {s} : modele'[m] \in LignesModele
      BY <3>1, <3>3, <3>4
    <3>6. modele' \in [Libelles -> LignesModele \cup {Nul}] /\ Modeles' = Modeles
      BY <3>1, <3>2, <3>5, DesModelesDeplaces
    <3> QED BY <3>1, <3>3, <3>4, <3>6
  <2> HIDE DEF s, c, E
  <2>4. \A m \in Modeles \ {s} : Vivant(m) => Vivant(m)'
    BY <1>0, <2>2, <2>3 DEF Vivant
  <2>5. \A m \in Libelles \ {c} : Entrants(m)' \subseteq Entrants(m)
    BY <1>0, <2>2, <2>3 DEF Entrants
  <2>6. LiensDirects'
    <3> SUFFICES ASSUME NEW m \in Modeles, ~Vivant(m)' PROVE Vivant(modele[m].fusion)'
      BY <2>3 DEF LiensDirects
    <3>1. CASE m \in E \cup {s}
      BY <2>2, <2>3, <2>4, <3>1
    <3>2. CASE m \notin E \cup {s}
      <4>1. modele'[m] = modele[m] /\ ~Vivant(m) /\ m \notin Entrants(s)
        BY <1>0, <2>2, <2>3, <3>2 DEF Vivant
      <4>2. Vivant(modele[m].fusion) /\ modele[m].fusion # s
        BY <4>1 DEF InvReferentiel, LiensDirects, Entrants
      <4> QED BY <2>4, <4>1, <4>2 DEF Vivant
    <3> QED BY <3>1, <3>2
  <2>7. ASSUME NEW u \in Connexions \ {t}, transaction[u] # Nul PROVE Stable(u)
    <3>1. transaction[t].tient \cap transaction[u].tient = {}
      BY <2>1, <2>7 DEF InvReferentiel, Exclusives
    <3>2. s \notin transaction[u].tient /\ c \notin transaction[u].tient
      BY <2>2, <3>1
    <3> QED BY <1>0, <2>1, <2>4, <2>5, <3>2 DEF Stable, Vivant
  <2>8. c \in Libelles /\ bateau' = [b \in Bateaux |->
             IF b \in r.bateaux \cap Bateaux THEN [bateau[b] EXCEPT !.modele = c] ELSE bateau[b]]
    BY <1>0, <2>1, <2>2 DEF c
  <2>9. r.bateaux \cap Bateaux \in SUBSET Bateaux
    OBVIOUS
  <2>10. /\ bateau' \in [Bateaux -> [nom : Libelles \cup {Nul}, modele : Libelles \cup {Nul}]]
         /\ \A x \in Bateaux : bateau'[x].nom = bateau[x].nom
    BY <1>4, <2>8, <2>9
  <2> QED BY <1>3, <2>1, <2>3, <2>6, <2>7, <2>10
<1>6. CASE defusionner_modele(t)
  <2> PICK r : r = transaction[t]
    OBVIOUS
  <2> DEFINE boats == r.bateaux \cap BateauxDe(r.cible)
             E == r.entrants \cap Entrants(r.cible)
             s == r.source
  <2>1. /\ r # Nul /\ r.op = "defusion" /\ JusteDefusion(r) /\ Finir(t) /\ UNCHANGED <<alias, extraction>>
        /\ Disponibles(t, E \cup boats)
        /\ modele' = [m \in Libelles |->
             IF m = s THEN [fusion |-> Nul, actif |-> TRUE]
             ELSE IF m \in E THEN [modele[m] EXCEPT !.fusion = s]
             ELSE modele[m]]
        /\ bateau' = [b \in Bateaux |-> IF b \in boats THEN [bateau[b] EXCEPT !.modele = s] ELSE bateau[b]]
    BY <1>6 DEF defusionner_modele, EnTransaction, InvReferentiel, Juste
  <2>2. /\ s \in Modeles /\ s \in r.tient /\ E \subseteq Modeles /\ \A e \in E : ~Vivant(e)
        /\ boats \subseteq Bateaux
    BY <1>0, <2>1 DEF JusteDefusion, Entrants, Vivant, BateauxDe
  <2> HIDE DEF boats, E, s
  <2>3. /\ modele' \in [Libelles -> LignesModele \cup {Nul}] /\ Modeles' = Modeles
        /\ modele'[s].fusion = Nul
        /\ \A m \in E \ {s} : modele'[m].fusion = s
        /\ \A m \in Libelles \ (E \cup {s}) : modele'[m] = modele[m]
    <3>1. s \in Libelles /\ E \cup {s} \in SUBSET Modeles
      BY <1>0, <2>2
    <3>2. /\ modele' = [m \in Libelles |-> modele'[m]]
          /\ modele'[s] = [fusion |-> Nul, actif |-> TRUE]
          /\ \A m \in E \ {s} : modele'[m] = [modele[m] EXCEPT !.fusion = s]
          /\ \A m \in Libelles \ (E \cup {s}) : modele'[m] = modele[m]
      BY <1>0, <2>1, <2>2
    <3>3. [fusion |-> Nul, actif |-> TRUE] \in LignesModele /\ modele'[s].fusion = Nul
      BY <3>2 DEF LignesModele
    <3>4. ASSUME NEW m \in E \ {s} PROVE modele'[m] \in LignesModele /\ modele'[m].fusion = s
      <4>1. m \in Modeles /\ s \in Libelles /\ modele'[m] = [modele[m] EXCEPT !.fusion = s]
        BY <2>2, <3>1, <3>2
      <4>2. modele[m] \in LignesModele
        BY <4>1 DEF InvReferentiel, TypeReferentiel, Modeles
      <4> QED BY <4>1, <4>2 DEF LignesModele
    <3>5. \A m \in E \cup {s} : modele'[m] \in LignesModele
      BY <3>2, <3>3, <3>4
    <3>6. modele' \in [Libelles -> LignesModele \cup {Nul}] /\ Modeles' = Modeles
      BY <3>1, <3>2, <3>5, DesModelesDeplaces
    <3> QED BY <3>2, <3>3, <3>4, <3>6
  <2>4. \A m \in Modeles : Vivant(m) => Vivant(m)'
    BY <1>0, <2>2, <2>3 DEF Vivant
  <2>5. \A m \in Libelles \ {s} : Entrants(m)' \subseteq Entrants(m)
    BY <1>0, <2>2, <2>3 DEF Entrants
  <2>6. LiensDirects'
    <3> SUFFICES ASSUME NEW m \in Modeles, ~Vivant(m)' PROVE Vivant(modele[m].fusion)'
      BY <2>3 DEF LiensDirects
    <3>1. Vivant(s)' /\ m # s
      BY <2>2, <2>3 DEF Vivant
    <3>2. CASE m \in E
      BY <2>3, <3>1, <3>2
    <3>3. CASE m \notin E
      <4>1. modele'[m] = modele[m] /\ ~Vivant(m)
        BY <1>0, <2>3, <3>1, <3>3 DEF Vivant
      <4>2. Vivant(modele[m].fusion)
        BY <4>1 DEF InvReferentiel, LiensDirects
      <4> QED BY <2>4, <4>1, <4>2 DEF Vivant
    <3> QED BY <3>2, <3>3
  <2>7. ASSUME NEW u \in Connexions \ {t}, transaction[u] # Nul PROVE Stable(u)
    <3>1. transaction[t].tient \cap transaction[u].tient = {}
      BY <2>1, <2>7 DEF InvReferentiel, Exclusives
    <3>2. s \notin transaction[u].tient
      BY <2>2, <3>1
    <3> QED BY <1>0, <2>1, <2>4, <2>5, <3>2 DEF Stable, Vivant
  <2>8. /\ bateau' \in [Bateaux -> [nom : Libelles \cup {Nul}, modele : Libelles \cup {Nul}]]
        /\ \A x \in Bateaux : bateau'[x].nom = bateau[x].nom
    BY <1>0, <1>4, <2>1, <2>2
  <2> QED BY <1>3, <2>1, <2>3, <2>6, <2>7, <2>8
<1> QED BY <1>1, <1>2, <1>5, <1>6
LEMMA UneDecision ==
  ASSUME InvReferentiel, NEW x \in Extractions, NEW l \in Libelles \cup {Nul}, NEW d \in decider_resolution(x, l)
  PROVE  d.statut \in Etats /\ d.modele \in Libelles \cup {Nul}
<1> DEFINE exact == resoudre_modele_depuis_texte(l)
           trouve == IF l = extraction[x].brut THEN ModeleFiche(x) ELSE Nul
           trouves == {exact, trouve} \ {Nul}
<1>1. exact \in Libelles \cup {Nul}
  BY DepuisTexte DEF resoudre_modele_depuis_texte
<1>2. ModeleFiche(x) \in Libelles \cup {Nul}
  <2> DEFINE b == extraction[x].bateau
  <2>1. b \in Bateaux \cup {Nul}
    BY DEF InvReferentiel, TypeReferentiel
  <2>2. CASE b = Nul
    BY <2>2 DEF ModeleFiche
  <2>3. CASE b # Nul
    <3>1. bateau[b].modele \in Libelles \cup {Nul}
      BY <2>1, <2>3 DEF InvReferentiel, TypeReferentiel
    <3>2. bateau[b].modele # Nul => resoudre_modele_final(bateau[b].modele) \in Libelles
      BY <3>1, FinalDirect
    <3> QED BY <2>3, <3>2 DEF ModeleFiche
  <2> QED BY <2>2, <2>3
<1>3. trouves \subseteq Libelles
  BY <1>1, <1>2
<1> HIDE DEF trouves
<1>4. \/ d \in {[statut |-> "sans_modele", modele |-> Nul]}
      \/ d \in {[statut |-> "ambigu", modele |-> Nul]}
      \/ d \in {[statut |-> "lie_automatique", modele |-> m] : m \in trouves}
      \/ d \in {[statut |-> s, modele |-> Nul] : s \in {"ambigu", "non_resolu"}}
  BY DEF decider_resolution, trouves
<1> QED BY <1>3, <1>4 DEF Etats

LEMMA LecturesDesLiaisons ==
  ASSUME InvReferentiel, NEW t \in Connexions,
         \/ resoudre_extractions(t)
         \/ \E x \in Extractions, l \in Libelles :
              \/ lire_extraction(t, x)
              \/ corriger_libelle(t, x, l)
              \/ \E nouveau, apprendre \in BOOLEAN : lire_liaison(t, x, l, nouveau, apprendre)
  PROVE  PasReferentiel
<1>1. CASE resoudre_extractions(t)
  <2>1. PICK r : /\ r = [op |-> "lot", reste |-> r.reste, tient |-> r.tient] /\ r.tient = {}
                 /\ transaction' = [transaction EXCEPT ![t] = r] /\ Lu
    <3> DEFINE y == [op |-> "lot",
                     reste |-> {x \in Extractions : extraction[x].statut \in {"non_resolu", "ambigu"}},
                     tient |-> {}]
    <3>1. /\ y = [op |-> "lot", reste |-> y.reste, tient |-> y.tient] /\ y.tient = {}
          /\ transaction' = [transaction EXCEPT ![t] = y] /\ Lu
      BY <1>1 DEF resoudre_extractions, Commencer
    <3> HIDE DEF y
    <3> QED BY <3>1
  <2>2. Juste(r)
    BY <2>1 DEF Juste
  <2> QED BY <2>1, <2>2, UneLectureSeule
<1>2. ASSUME NEW x \in Extractions, lire_extraction(t, x) PROVE PasReferentiel
  <2> PICK q : q = transaction[t]
    OBVIOUS
  <2>1. /\ q # Nul /\ q = [op |-> "lot", reste |-> q.reste, tient |-> q.tient] /\ Disponibles(t, {x}) /\ Lu
        /\ \A u \in Connexions \ {t} : transaction[u] # Nul => q.tient \cap transaction[u].tient = {}
    BY <1>2 DEF lire_extraction, EnTransaction, InvReferentiel, Juste, Exclusives
  <2>2. \A u \in Connexions \ {t} : transaction[u] # Nul => {x} \cap transaction[u].tient = {}
    BY <2>1, NonTenues
  <2>3. CASE extraction[x].statut = "lie_humain"
    <3>1. PICK r : r = [op |-> "lot", reste |-> q.reste \ {x}, tient |-> q.tient]
      OBVIOUS
    <3>2. [q EXCEPT !.reste = q.reste \ {x}] = r
      BY <2>1, <3>1
    <3>3. transaction' = [transaction EXCEPT ![t] = r]
      BY <1>2, <2>3, <3>2 DEF lire_extraction
    <3>4. Juste(r)
      BY <3>1 DEF Juste
    <3> QED BY <2>1, <3>1, <3>3, <3>4, UneLectureSeule
  <2>4. CASE extraction[x].statut # "lie_humain"
    <3>1. PICK d \in decider_resolution(x, extraction[x].brut) :
            transaction' = [transaction EXCEPT ![t] =
              [op |-> "resolution", extraction |-> x, decision |-> d, brut |-> extraction[x].brut,
               reste |-> @.reste \ {x}, tient |-> @.tient \cup {x}]]
      BY <1>2, <2>4 DEF lire_extraction
    <3>2. PICK r : r = [op |-> "resolution", extraction |-> x, decision |-> d, brut |-> extraction[x].brut,
                        reste |-> q.reste \ {x}, tient |-> q.tient \cup {x}]
      OBVIOUS
    <3>3. transaction' = [transaction EXCEPT ![t] = r]
      BY <3>1, <3>2
    <3>4. extraction[x].brut \in Libelles \cup {Nul}
      BY DEF InvReferentiel, TypeReferentiel
    <3>5. d.statut \in Etats /\ d.modele \in Libelles \cup {Nul}
      BY <3>4, UneDecision
    <3>6. Juste(r)
      BY <2>4, <3>2, <3>4, <3>5 DEF Juste, JusteResolution
    <3>7. \A u \in Connexions \ {t} : transaction[u] # Nul => r.tient \cap transaction[u].tient = {}
      BY <2>1, <2>2, <3>2
    <3> QED BY <2>1, <3>3, <3>6, <3>7, UneLectureSeule
  <2> QED BY <2>3, <2>4
<1>3. ASSUME NEW x \in Extractions, NEW l \in Libelles, corriger_libelle(t, x, l) PROVE PasReferentiel
  <2>1. PICK d \in decider_resolution(x, l) :
          Commencer(t, [op |-> "resolution", extraction |-> x, decision |-> d, brut |-> l,
                        reste |-> {}, tient |-> {x}])
    BY <1>3 DEF corriger_libelle
  <2>2. PICK r : r = [op |-> "resolution", extraction |-> x, decision |-> d, brut |-> l,
                      reste |-> {}, tient |-> {x}]
    OBVIOUS
  <2>3. /\ transaction' = [transaction EXCEPT ![t] = r] /\ Lu /\ Disponibles(t, r.tient)
        /\ l # extraction[x].brut
    BY <1>3, <2>1, <2>2 DEF corriger_libelle, Commencer
  <2>4. d.statut \in Etats /\ d.modele \in Libelles \cup {Nul}
    BY UneDecision
  <2>5. Juste(r)
    BY <2>2, <2>3, <2>4 DEF Juste, JusteResolution
  <2> QED BY <2>3, <2>5, NonTenues, UneLectureSeule
<1>4. ASSUME NEW x \in Extractions, NEW l \in Libelles, NEW n \in BOOLEAN, NEW a \in BOOLEAN,
             lire_liaison(t, x, l, n, a)
      PROVE  PasReferentiel
  <2> DEFINE connu == resoudre_modele_depuis_texte(l)
             choisi == IF n THEN assurer_modele(l) ELSE resoudre_modele_final(l)
  <2>1. PICK r : r = [op |-> "liaison", extraction |-> x, tient |-> {x}, apprendre |-> a,
                      nouveau |-> n /\ connu = Nul, modele |-> choisi]
    OBVIOUS
  <2>2. /\ transaction' = [transaction EXCEPT ![t] = r] /\ Lu /\ Disponibles(t, r.tient)
        /\ n \/ l \in Modeles
    BY <1>4, <2>1 DEF lire_liaison, Commencer
  <2>3. connu = Nul \/ (connu \in Libelles /\ connu \in Modeles /\ connu # Nul)
    BY DepuisTexte, HypReferentiel DEF Vivant
  <2>4. l \in Modeles => resoudre_modele_final(l) \in Libelles /\ resoudre_modele_final(l) \in Modeles
    BY FinalDirect DEF Vivant
  <2>5. choisi \in Libelles /\ ((n /\ connu = Nul) \/ choisi \in Modeles)
    BY <2>2, <2>3, <2>4 DEF assurer_modele
  <2> HIDE DEF connu, choisi
  <2>6. Juste(r)
    BY <2>1, <2>5 DEF Juste, JusteLiaison
  <2> QED BY <2>2, <2>6, NonTenues, UneLectureSeule
<1> QED BY <1>1, <1>2, <1>3, <1>4

LignesExtraction ==
  [brut : Libelles \cup {Nul}, bateau : Bateaux \cup {Nul}, statut : Etats, modele : Libelles \cup {Nul}]

(* An extraction is only written by the transaction that keeps its row.     *)
LEMMA UneExtractionEcrite ==
  ASSUME InvReferentiel, NEW t \in Connexions, transaction[t] # Nul,
         NEW x \in Extractions, x \in transaction[t].tient, NEW y \in LignesExtraction,
         extraction' = [extraction EXCEPT ![x] = y]
  PROVE  /\ extraction' \in [Extractions -> LignesExtraction]
         /\ extraction'[x] = y /\ \A z \in Extractions \ {x} : extraction'[z] = extraction[z]
         /\ \A u \in Connexions \ {t} : transaction[u] # Nul => x \notin transaction[u].tient
BY DEF InvReferentiel, TypeReferentiel, Exclusives, LignesExtraction

LEMMA EcrituresDesLiaisons ==
  ASSUME InvReferentiel, NEW t \in Connexions, resoudre_extraction_curseur(t) \/ lier_extraction(t)
  PROVE  PasReferentiel
<1> PICK r : r = transaction[t]
  OBVIOUS
<1>1. CASE resoudre_extraction_curseur(t)
  <2>1. /\ r # Nul /\ r.op = "resolution" /\ JusteResolution(r) /\ UNCHANGED <<modele, alias, bateau, historique>>
        /\ extraction' = [extraction EXCEPT ![r.extraction] =
             [@ EXCEPT !.brut = r.brut, !.statut = r.decision.statut, !.modele = r.decision.modele]]
        /\ transaction' = [transaction EXCEPT ![t] =
             IF r.reste = {} THEN Nul ELSE [op |-> "lot", reste |-> r.reste, tient |-> r.tient]]
    BY <1>1 DEF resoudre_extraction_curseur, EnTransaction, InvReferentiel, Juste
  <2> PICK x : x = r.extraction
    OBVIOUS
  <2>2. /\ x \in r.tient /\ x \in Extractions /\ extraction[x] \in LignesExtraction
        /\ extraction[x].statut # "lie_humain" \/ r.brut # extraction[x].brut
    BY <2>1 DEF JusteResolution, InvReferentiel, TypeReferentiel, LignesExtraction
  <2> DEFINE y1 == [extraction[x] EXCEPT !.brut = r.brut]
             y2 == [y1 EXCEPT !.statut = r.decision.statut]
             y3 == [y2 EXCEPT !.modele = r.decision.modele]
  <2>3. extraction' = [extraction EXCEPT ![x] = [[y1 EXCEPT !.statut = r.decision.statut]
                                                    EXCEPT !.modele = r.decision.modele]]
    BY <2>1
  <2>4. y1 \in LignesExtraction /\ y1.brut = r.brut
    BY <2>1, <2>2 DEF LignesExtraction, JusteResolution
  <2> HIDE DEF y1
  <2>a. y2 \in LignesExtraction /\ y2.brut = r.brut
    BY <2>1, <2>4 DEF LignesExtraction, JusteResolution
  <2>b. extraction' = [extraction EXCEPT ![x] = [y2 EXCEPT !.modele = r.decision.modele]]
    BY <2>3
  <2> HIDE DEF y2
  <2>c. y3 \in LignesExtraction /\ y3.brut = r.brut
    BY <2>1, <2>a DEF LignesExtraction, JusteResolution
  <2>5. PICK y : y = y3
    OBVIOUS
  <2> HIDE DEF y3
  <2>6. extraction' = [extraction EXCEPT ![x] = y] /\ y \in LignesExtraction /\ y.brut = r.brut
    BY <2>b, <2>c, <2>5 DEF y3
  <2>7. /\ extraction' \in [Extractions -> LignesExtraction]
        /\ extraction'[x] = y /\ \A z \in Extractions \ {x} : extraction'[z] = extraction[z]
        /\ \A u \in Connexions \ {t} : transaction[u] # Nul => x \notin transaction[u].tient
    <3>1. transaction[t] # Nul /\ x \in Extractions /\ x \in transaction[t].tient
      BY <2>1, <2>2
    <3> QED BY <2>6, <3>1, UneExtractionEcrite
  <2>8. PICK q : q = IF r.reste = {} THEN Nul ELSE [op |-> "lot", reste |-> r.reste, tient |-> r.tient]
    OBVIOUS
  <2>9. transaction' = [transaction EXCEPT ![t] = q]
    BY <2>1, <2>8
  <2>10. q # Nul => Juste(q)' /\ q.tient = r.tient
    BY <2>8 DEF Juste
  <2>11. \A u \in Connexions \ {t} : transaction[u] # Nul => r.tient \cap transaction[u].tient = {}
    BY <2>1 DEF InvReferentiel, Exclusives
  <2>12. /\ TypeReferentiel' /\ LiensDirects' /\ PorteSonNom' /\ EtiquettesConnues' /\ Modeles' = Modeles
         /\ \A m : Vivant(m)' = Vivant(m) /\ Entrants(m)' = Entrants(m)
    BY <2>1, <2>7, <2>9 DEF InvReferentiel, TypeReferentiel, LiensDirects, PorteSonNom, EtiquettesConnues,
                           Vivant, Modeles, Entrants, LignesExtraction
  <2>13. \A u \in Connexions \ {t} : transaction[u] # Nul => Stable(u)
    BY <2>7, <2>12 DEF Stable
  <2>14. InvReferentiel'
    BY <2>1, <2>9, <2>10, <2>11, <2>12, <2>13, UnPasDeReference
  <2>15. HumaineTenue
    BY <2>2, <2>6, <2>7 DEF HumaineTenue
  <2> QED BY <2>14, <2>15 DEF PasReferentiel
<1>2. CASE lier_extraction(t)
  <2> DEFINE brut == extraction[r.extraction].brut
             appris == r.apprendre /\ brut \notin {Nul, r.modele}
             final == IF r.modele \in Modeles THEN resoudre_modele_final(r.modele) ELSE r.modele
  <2>1. /\ r # Nul /\ r.op = "liaison" /\ JusteLiaison(r) /\ UNCHANGED <<bateau, historique>>
        /\ Creable(r) /\ modele' = Creer(r.modele) /\ Finir(t)
        /\ alias' = [l \in Libelles |->
             IF alias[l] # Nul THEN alias[l]
             ELSE IF l = r.modele /\ l \notin Modeles THEN r.modele
             ELSE IF appris /\ l = brut THEN final
             ELSE Nul]
        /\ extraction' = [extraction EXCEPT ![r.extraction] =
             [@ EXCEPT !.statut = "lie_humain", !.modele = r.modele]]
    BY <1>2 DEF lier_extraction, EnTransaction, InvReferentiel, Juste
  <2> PICK x : x = r.extraction
    OBVIOUS
  <2>2. /\ x \in r.tient /\ x \in Extractions /\ extraction[x] \in LignesExtraction /\ r.modele \in Libelles
    BY <2>1 DEF JusteLiaison, InvReferentiel, TypeReferentiel, LignesExtraction
  <2> DEFINE y1 == [extraction[x] EXCEPT !.statut = "lie_humain"]
             y2 == [y1 EXCEPT !.modele = r.modele]
  <2>3. extraction' = [extraction EXCEPT ![x] = [y1 EXCEPT !.modele = r.modele]]
    BY <2>1
  <2>4. y1 \in LignesExtraction /\ y1.statut = "lie_humain"
    BY <2>2 DEF LignesExtraction, Etats
  <2> HIDE DEF y1
  <2>a. y2 \in LignesExtraction /\ y2.statut = "lie_humain"
    BY <2>2, <2>4 DEF LignesExtraction
  <2>5. PICK y : y = y2
    OBVIOUS
  <2> HIDE DEF y2
  <2>6. extraction' = [extraction EXCEPT ![x] = y] /\ y \in LignesExtraction /\ y.statut = "lie_humain"
    BY <2>3, <2>a, <2>5 DEF y2
  <2>7. /\ extraction' \in [Extractions -> LignesExtraction]
        /\ extraction'[x] = y /\ \A z \in Extractions \ {x} : extraction'[z] = extraction[z]
        /\ \A u \in Connexions \ {t} : transaction[u] # Nul => x \notin transaction[u].tient
    <3>1. transaction[t] # Nul /\ x \in Extractions /\ x \in transaction[t].tient
      BY <2>1, <2>2
    <3> QED BY <2>6, <3>1, UneExtractionEcrite
  <2>8. /\ modele' \in [Libelles -> LignesModele \cup {Nul}] /\ Modeles' = Modeles \cup {r.modele}
        /\ \A k : Vivant(k) => Vivant(k)'
        /\ \A k \in Libelles : Entrants(k)' \subseteq Entrants(k)
        /\ LiensDirects'
    BY <2>1, <2>2, UnModeleCree
  <2>9. final \in Libelles /\ final \in Modeles'
    <3>1. r.modele \in Modeles => resoudre_modele_final(r.modele) \in Libelles /\ resoudre_modele_final(r.modele) \in Modeles
      BY <2>2, FinalDirect DEF Vivant
    <3> QED BY <2>2, <2>8, <3>1
  <2>10. r.modele \in Modeles \/ alias[r.modele] = Nul
    BY <2>1 DEF JusteLiaison, Creable
  <2>11. appris => brut # r.modele
    OBVIOUS
  <2> HIDE DEF appris, final, brut
  <2>12. /\ alias' \in [Libelles -> Libelles \cup {Nul}]
         /\ \A l \in Libelles : alias[l] # Nul => alias'[l] = alias[l]
         /\ \A l \in Libelles : alias[l] = Nul /\ alias'[l] # Nul =>
              (l = r.modele /\ alias'[l] = l) \/ (l # r.modele /\ alias'[l] = final)
         /\ r.modele \notin Modeles => alias'[r.modele] = r.modele
    BY <2>1, <2>2, <2>9, <2>10, <2>11 DEF InvReferentiel, TypeReferentiel
  <2>13. \A m \in Modeles : m \in Libelles /\ alias[m] = m /\ alias[m] # Nul
    BY HypReferentiel DEF InvReferentiel, PorteSonNom, Modeles
  <2>14. PorteSonNom'
    <3> SUFFICES ASSUME NEW m \in Modeles' PROVE alias'[m] = m
      BY DEF PorteSonNom
    <3> QED BY <2>8, <2>12, <2>13
  <2>15. EtiquettesConnues'
    <3> SUFFICES ASSUME NEW l \in Libelles, alias'[l] # Nul PROVE alias'[l] \in Modeles'
      BY DEF EtiquettesConnues
    <3>1. alias[l] # Nul => alias[l] \in Modeles
      BY DEF InvReferentiel, EtiquettesConnues
    <3> QED BY <2>8, <2>9, <2>12, <3>1
  <2>16. TypeReferentiel'
    BY <2>1, <2>7, <2>8, <2>12 DEF TypeReferentiel, InvReferentiel, Finir, LignesExtraction
  <2>17. \A u \in Connexions \ {t} : transaction[u] # Nul => Stable(u)
    BY <2>7, <2>8 DEF Stable, Vivant, Modeles
  <2>18. InvReferentiel'
    BY <2>1, <2>8, <2>12, <2>14, <2>15, <2>16, <2>17, UneFinDeTransaction
  <2>19. HumaineTenue
    BY <2>6, <2>7 DEF HumaineTenue
  <2> QED BY <2>18, <2>19 DEF PasReferentiel
<1> QED BY <1>1, <1>2

LEMMA UneAnnulation ==
  ASSUME InvReferentiel, NEW t \in Connexions, annuler_transaction(t)
  PROVE  PasReferentiel
<1>1. UNCHANGED <<modele, alias, bateau, extraction, historique>> /\ Finir(t)
  BY DEF annuler_transaction
<1>2. /\ TypeReferentiel' /\ LiensDirects' /\ PorteSonNom' /\ EtiquettesConnues' /\ Modeles' = Modeles
      /\ \A u : Stable(u)
  BY <1>1 DEF InvReferentiel, TypeReferentiel, LiensDirects, PorteSonNom, EtiquettesConnues, Vivant,
              Modeles, Stable, Entrants, Finir
<1>3. InvReferentiel'
  BY <1>1, <1>2, UneFinDeTransaction
<1> QED BY <1>1, <1>3 DEF PasReferentiel, HumaineTenue

LEMMA DebutReferentiel ==
  ASSUME Init
  PROVE  InvReferentiel
<1>1. /\ transaction = [t \in Connexions |-> Nul]
      /\ \E crees \in SUBSET Libelles :
           /\ modele = [l \in Libelles |-> IF l \in crees THEN [fusion |-> Nul, actif |-> TRUE] ELSE Nul]
           /\ alias = [l \in Libelles |-> IF l \in crees THEN l ELSE Nul]
      /\ bateau \in [Bateaux -> [nom : Libelles \cup {Nul}, modele : Libelles \cup {Nul}]]
  <2>1. CASE InitReferentiel
    <3>1. bateau \in [Bateaux -> [nom : Libelles \cup {Nul}, modele : Libelles \cup {Nul}]]
      BY <2>1 DEF InitReferentiel
    <3> QED BY <2>1, <3>1 DEF InitReferentiel
  <2>2. CASE ReferentielVide
    <3>1. {} \in SUBSET Libelles
      OBVIOUS
    <3>2. /\ modele = [l \in Libelles |-> IF l \in {} THEN [fusion |-> Nul, actif |-> TRUE] ELSE Nul]
          /\ alias = [l \in Libelles |-> IF l \in {} THEN l ELSE Nul]
      BY <2>2 DEF ReferentielVide
    <3>3. bateau \in [Bateaux -> [nom : Libelles \cup {Nul}, modele : Libelles \cup {Nul}]]
      BY <2>2 DEF ReferentielVide, BateauxVides
    <3> QED BY <2>2, <3>1, <3>2, <3>3 DEF ReferentielVide
  <2> QED BY <2>1, <2>2 DEF Init
<1>2. extraction \in [Extractions -> LignesExtraction]
  <2>1. CASE InitReferentiel
    BY <2>1 DEF InitReferentiel, LignesExtraction, Etats
  <2>2. CASE ExtractionsVides
    BY <2>2 DEF ExtractionsVides, LignesExtraction, Etats
  <2> QED BY <2>1, <2>2 DEF Init, Actifs
<1>3. PICK crees \in SUBSET Libelles :
        /\ modele = [l \in Libelles |-> IF l \in crees THEN [fusion |-> Nul, actif |-> TRUE] ELSE Nul]
        /\ alias = [l \in Libelles |-> IF l \in crees THEN l ELSE Nul]
  BY <1>1
<1>4. Modeles = crees /\ \A m \in Modeles : Vivant(m)
  <2> PICK y : y = [fusion |-> Nul, actif |-> TRUE]
    OBVIOUS
  <2>1. y # Nul /\ y.fusion = Nul /\ modele = [l \in Libelles |-> IF l \in crees THEN y ELSE Nul]
    BY <1>3, HypReferentiel
  <2> QED BY <2>1 DEF Modeles, Vivant
<1>5. modele \in [Libelles -> LignesModele \cup {Nul}]
  BY <1>3 DEF LignesModele
<1>6. PorteSonNom /\ EtiquettesConnues /\ alias \in [Libelles -> Libelles \cup {Nul}]
  BY <1>3, <1>4, HypReferentiel DEF PorteSonNom, EtiquettesConnues
<1> QED BY <1>1, <1>2, <1>4, <1>5, <1>6
        DEF InvReferentiel, TypeReferentiel, LignesExtraction, LiensDirects, Exclusives

LEMMA UnPasDuReferentiel ==
  ASSUME InvReferentiel, [Next]_varsServices
  PROVE  PasReferentiel
<1>1. CASE UNCHANGED varsReferentiel
  <2>1. UNCHANGED <<modele, alias, bateau, extraction, historique, transaction>>
    BY <1>1 DEF varsReferentiel
  <2>2. InvReferentiel'
    BY <2>1 DEF InvReferentiel, TypeReferentiel, LiensDirects, PorteSonNom, EtiquettesConnues, Exclusives,
                Vivant, Modeles, Entrants, Juste, JusteBateau, JusteFusion, JusteDefusion, JusteLiaison,
                JusteResolution
  <2> QED BY <2>1, <2>2 DEF PasReferentiel, HumaineTenue
<1>2. CASE NextReferentiel
  <2>1. NextBateaux => PasReferentiel
    BY DesBateaux DEF NextBateaux
  <2>2. NextFusions => PasReferentiel
    BY DesFusions DEF NextFusions
  <2>3. NextLiaisons => PasReferentiel
    BY LecturesDesLiaisons, EcrituresDesLiaisons DEF NextLiaisons
  <2> QED BY <1>2, <2>1, <2>2, <2>3, UneAnnulation DEF NextReferentiel
<1>3. UNCHANGED varsReferentiel \/ NextReferentiel
  BY DEF Next, varsServices
<1> QED BY <1>1, <1>2, <1>3

LEMMA LeReferentiel == Spec => []InvReferentiel /\ [][PasReferentiel]_varsServices
<1>1. Init => InvReferentiel
  BY DebutReferentiel
<1>2. InvReferentiel /\ [Next]_varsServices => InvReferentiel'
  BY UnPasDuReferentiel DEF PasReferentiel
<1>3. InvReferentiel /\ [Next]_varsServices => [PasReferentiel]_varsServices
  BY UnPasDuReferentiel
<1> QED BY <1>1, <1>2, <1>3, PTL DEF Spec

(* Whoever merges, unmerges, creates models or learns labels at the same    *)
(* time, a label leads to one live model (referentiel_bateaux.py).          *)
THEOREM EtiquetteSureProuvee == Spec => []EtiquetteSure
<1>1. InvReferentiel => EtiquetteSure
  <2> SUFFICES ASSUME InvReferentiel, NEW l \in Libelles
               PROVE  \E v \in Libelles \cup {Nul} : \A m \in {k \in {l, alias[l]} : k \in Modeles} :
                        Vivant(v) /\ resoudre_modele_final(m) = v
    BY DEF EtiquetteSure
  <2>1. alias[l] = Nul \/ alias[l] \in Modeles
    BY DEF InvReferentiel, EtiquettesConnues
  <2>2. l \in Modeles => alias[l] = l
    BY DEF InvReferentiel, PorteSonNom
  <2>3. Nul \notin Modeles /\ Modeles \subseteq Libelles
    BY HypReferentiel DEF Modeles
  <2>4. \A m \in {k \in {l, alias[l]} : k \in Modeles} : m = alias[l] /\ alias[l] \in Modeles
    BY <2>1, <2>2, <2>3
  <2>5. CASE alias[l] \in Modeles
    <3>1. Vivant(Pas(alias[l])) /\ resoudre_modele_final(alias[l]) = Pas(alias[l]) /\ Pas(alias[l]) \in Libelles
      BY <2>3, <2>5, FinalDirect
    <3> QED BY <2>4, <3>1
  <2>6. CASE alias[l] \notin Modeles
    BY <2>4, <2>6
  <2> QED BY <2>5, <2>6
<1> QED BY <1>1, LeReferentiel, PTL

(* What an operator linked is only decided again under a new label          *)
(* (liaison_voile.py).                                                      *)
THEOREM LiaisonHumaineTenueProuvee == Spec => LiaisonHumaineTenue
<1>1. [PasReferentiel]_varsServices =>
        [\A x \in Extractions :
           extraction[x].statut = "lie_humain" /\ extraction'[x].statut # "lie_humain" =>
             extraction'[x].brut # extraction[x].brut]_varsReferentiel
  BY DEF PasReferentiel, HumaineTenue, varsServices
<1> QED BY <1>1, LeReferentiel, PTL DEF LiaisonHumaineTenue

----------------------------------------------------------------------------
(* The disk, the catalogue, the bucket and the backups.                     *)

Copies == [octets : Octets, date : Nat]
Vus == [date : Nat, texte : Octets \cup {Rien}]
Balayages == [manifeste : [Fichiers -> Nat], vus : Releves(Vus), reste : SUBSET Fichiers]
EtapesImport ==
  {"capture", "envoye", "publie", "reprise", "renvoye", "lu", "verifie", "condamne", "purge"}
LignesImport ==
  [fichier : Fichiers, sha : Octets, date : Nat, etape : EtapesImport, cle : Cles \cup {Rien},
   incertain : BOOLEAN, conflit : BOOLEAN, lie : BOOLEAN, preuve : Cles \cup {Rien}, doute : BOOLEAN,
   luLe : Nat, perdus : Nat]
LignesPromotion ==
  [fichier : Fichiers, octets : Octets \cup {Rien}, cle : Cles \cup {Rien},
   etape : {"lu", "a_promouvoir", "cle", "envoye", "relu"}]

TypeCatalogue ==
  /\ disque \in [Fichiers -> Copies \cup {Rien}]
  /\ horloge \in Nat
  /\ pertes \in Nat
  /\ ligne \in [Fichiers -> LignesCatalogue \cup {Rien}]
  /\ objets \in [Cles -> Octets \cup {Rien}]
  /\ balayage \in Balayages \cup {Rien}
  /\ imports \in [Imports -> LignesImport \cup {Rien}]
  /\ promotions \in [Promoteurs -> LignesPromotion \cup {Rien}]

(* An object that an import holds proved is in its own name space, and has  *)
(* its bytes or was deleted by the outside.                                 *)
Prouve(i, c) == c.espace = i /\ objets[c] \in {Rien, imports[i].sha}

(* What a purge goes on with: the object read again, or a loss since; the  *)
(* local bytes read last, or a write since.                                *)
ObjetProuve(i) ==
  /\ imports[i].perdus <= pertes
  /\ objets[imports[i].cle] = imports[i].sha \/ imports[i].perdus < pertes
CopieProuvee(i) ==
  LET local == disque[imports[i].fichier] IN
  /\ imports[i].luLe <= horloge
  /\ local # Rien => local.octets = imports[i].sha \/ imports[i].luLe < local.date

ImportSur(i) ==
  LET x == imports[i] IN
  x # Rien =>
    /\ x.cle # Rien => Prouve(i, x.cle)
    /\ x.preuve # Rien => Prouve(i, x.preuve)
    /\ x.etape \in {"lu", "verifie", "condamne"} => x.cle # Rien
    /\ x.etape \in {"verifie", "condamne"} => ObjetProuve(i)
    /\ x.etape = "condamne" => CopieProuvee(i)
    /\ x.etape \notin {"capture", "envoye"} /\ ~x.conflit =>
         ligne[x.fichier] # Rien /\ (ligne[x.fichier].sha = x.sha \/ ligne[x.fichier].fiche)

PromotionSure(p) ==
  LET x == promotions[p] IN
  x # Rien /\ (x.etape = "cle" \/ x.cle # Rien) => x.cle.espace = "lots"

(* Dates of files only grow.                                                *)
Datee(f) == disque[f] # Rien => disque[f].date <= horloge

InvCatalogue ==
  /\ TypeCatalogue
  /\ \A i \in Imports : ImportSur(i)
  /\ \A p \in Promoteurs : PromotionSure(p)
  /\ \A f \in Fichiers : Datee(f)

(* What an answer is compared with is what was captured.                    *)
InvPieces ==
  /\ ouverture # Rien =>
       ouverture = [fichier |-> ouverture.fichier, sha |-> ouverture.sha, cle |-> ouverture.cle,
                    captures |-> ouverture.captures, places |-> ouverture.places,
                    etape |-> ouverture.etape, servi |-> ouverture.servi]
  /\ ouverture # Rien => \A s \in ouverture.captures : s # Rien /\ s = ouverture.sha
  /\ ouverture # Rien /\ ouverture.etape = "servi" /\ ouverture.sha # Rien =>
       ouverture.servi = ouverture.sha

Sauvegardes ==
  [etape : {"fichiers", "objets"}, lignes : Releves(LignesCatalogue), reste : SUBSET Fichiers,
   copies : Releves(Copies), manquants : SUBSET Fichiers, derive : SUBSET Fichiers,
   objets : Releves(Octets), temoin : Releves(Copies)]
Gardes == Releves(Octets \cup {Altere})
EtapesRestauration == {"fichiers", "plan", "publier", "verifier", "finie", "echec"}
Restaurations ==
  [etape : EtapesRestauration, avecFichiers : BOOLEAN, avecObjets : BOOLEAN,
   fichiers : Gardes, faits : SUBSET Fichiers, objets : Gardes]

TypeSauvegarde ==
  /\ sauvegarde \in Sauvegardes \cup {Rien}
  /\ manifeste \in Manifestes \cup {Rien}
  /\ bundle \in [fichiers : Gardes, objets : Gardes]
  /\ restauration \in Restaurations \cup {Rien}
  /\ seau \in Gardes

(* A file copied is the one on the disk as long as its date stands.         *)
CopieDatee(f) ==
  sauvegarde.copies[f] # Rien =>
    /\ sauvegarde.copies[f].date <= horloge
    /\ disque[f] # Rien /\ disque[f].date = sauvegarde.copies[f].date =>
         disque[f].octets = sauvegarde.copies[f].octets

(* A row whose file was looked at, then one whose object was.               *)
FichierVu(f) ==
  LET s == sauvegarde
      l == s.lignes[f] IN
  l # Rien /\ f \notin s.manquants =>
    /\ s.copies[f] = Rien => l.cle # Rien
    /\ l.sha # Rien /\ s.copies[f] # Rien => s.copies[f].octets = l.sha

ObjetVu(f) ==
  LET s == sauvegarde
      l == s.lignes[f] IN
  l # Rien /\ f \notin s.manquants =>
    /\ l.cle # Rien => s.objets[f] # Rien
    /\ l.sha # Rien => s.objets[f] \in {Rien, l.sha}

(* A file that did not drift is the one of the dump.                        *)
SansDerive(f) ==
  sauvegarde.copies[f] # Rien /\ f \notin sauvegarde.derive =>
    /\ sauvegarde.temoin[f] # Rien
    /\ sauvegarde.temoin[f].octets = sauvegarde.copies[f].octets

SauvegardeSure ==
  sauvegarde # Rien =>
    /\ manifeste = Rien /\ restauration = Rien
    /\ sauvegarde.etape = "fichiers" =>
         /\ sauvegarde.objets = Vide
         /\ \A f \in Fichiers : CopieDatee(f)
         /\ \A f \in Fichiers :
              IF f \in sauvegarde.reste THEN sauvegarde.copies[f] = Rien ELSE FichierVu(f)
    /\ sauvegarde.etape = "objets" =>
         /\ \A f \in Fichiers : SansDerive(f)
         /\ \A f \in Fichiers : FichierVu(f)
         /\ \A f \in Fichiers :
              IF f \in sauvegarde.reste THEN sauvegarde.objets[f] = Rien ELSE ObjetVu(f)

(* A restoration only goes on with what the manifest says.                  *)
RestaurationSure ==
  LET r == restauration IN
  r # Rien =>
    /\ manifeste # Rien
    /\ r.etape \in {"fichiers", "plan"} => r.faits = {}
    /\ r.etape \in {"plan", "publier", "verifier", "finie"} /\ r.avecFichiers =>
         \A f \in Fichiers : r.fichiers[f] = manifeste.fichiers[f]
    /\ r.etape = "publier" =>
         /\ r.avecObjets
         /\ \A f \in Fichiers : r.objets[f] = manifeste.objets[f]
         /\ \A f \in r.faits : r.objets[f] # Rien => seau[f] = r.objets[f]
    /\ r.etape = "verifier" => ~r.avecObjets
    /\ r.etape = "finie" /\ r.avecObjets =>
         \A f \in Fichiers : manifeste.objets[f] # Rien => seau[f] = manifeste.objets[f]

InvSauvegarde == TypeSauvegarde /\ SauvegardeSure /\ PerimetreTenu /\ RestaurationSure


(* The least element of a set of numbers.                                   *)
LEMMA PetitNombre ==
  ASSUME NEW T, T \subseteq Nat, T # {}
  PROVE  \E x \in T : \A y \in T : x <= y
<1> DEFINE R == {ss \in Nat \X Nat : ss[1] < ss[2]}
<1>1. IsWellFoundedOn(R, Nat)
  BY NatLessThanWellFounded DEF OpToRel
<1>2. \A x, y \in T : y < x => <<y, x>> \in R
  OBVIOUS
<1> HIDE DEF R
<1>3. PICK x \in T : \A y \in T : ~ (<<y, x>> \in R)
  BY <1>1, WFMin
<1>4. ASSUME NEW y \in T PROVE x <= y
  <2>1. ~(y < x) /\ x \in Nat /\ y \in Nat
    BY <1>2, <1>3
  <2> QED BY <2>1
<1> QED BY <1>4

LEMMA PremiereLibre ==
  ASSUME NEW f \in Fichiers, NEW e \in Espaces, Libres(f, e) # {}
  PROVE  \E c \in Cles : c = first_free_key(f, e) /\ c.espace = e /\ objets[c] = Rien
<1> DEFINE L == Libres(f, e)
<1>1. L \subseteq Nat /\ L # {} /\ L \subseteq 1..MaxCles
  BY HypCatalogue DEF Libres
<1>2. \E x \in L : \A y \in L : x <= y
  <2> HIDE DEF L
  <2> QED BY <1>1, PetitNombre
<1>3. PICK n : n = CHOOSE x \in L : \A y \in L : x <= y
  OBVIOUS
<1>4. n \in L
  BY <1>2, <1>3
<1>5. PICK c : c = [fichier |-> f, espace |-> e, n |-> n]
  OBVIOUS
<1>6. c \in Cles /\ c.espace = e
  BY <1>1, <1>4, <1>5 DEF Cles
<1>7. objets[c] = Rien
  BY <1>4, <1>5 DEF Libres
<1>8. c = first_free_key(f, e)
  BY <1>3, <1>5 DEF first_free_key
<1> QED BY <1>6, <1>7, <1>8

(* What a step may do to the rows, the objects and the files that others    *)
(* rely on.                                                                 *)
RangeesGardees ==
  \A f \in Fichiers : ligne[f] # Rien =>
    /\ ligne[f].fiche => ligne'[f] # Rien /\ ligne'[f].fiche
    /\ ligne[f].sha # Rien =>
         ligne'[f] # Rien /\ (ligne'[f].sha = ligne[f].sha \/ ligne'[f].fiche)

ObjetsGardes(i) ==
  /\ pertes <= pertes'
  /\ \A c \in Cles : c.espace = i =>
       objets'[c] = objets[c] \/ (objets'[c] = Rien /\ pertes < pertes')

DatesAvancent ==
  /\ horloge <= horloge'
  /\ \A f \in Fichiers : disque'[f] = disque[f] \/ disque'[f] = Rien \/ disque'[f].date > horloge

PurgeDe(i) ==
  imports[i] # Rien /\ imports'[i] # Rien
    /\ imports[i].etape # "purge" /\ imports'[i].etape = "purge" =>
    LET x == imports[i]
        local == disque[x.fichier] IN
    /\ local # Rien
    /\ local.octets = x.sha \/ local.date > x.luLe
    /\ objets[x.cle] = x.sha \/ pertes > x.perdus
PurgeSure == \A i \in Imports : PurgeDe(i)

PasCatalogue == InvCatalogue' /\ DatesAvancent /\ PurgeSure

(* An import that does not move keeps what it has.                          *)
LEMMA ImportTranquille ==
  ASSUME NEW i \in Imports, InvCatalogue, imports'[i] = imports[i], RangeesGardees, ObjetsGardes(i),
         DatesAvancent, TypeCatalogue'
  PROVE  ImportSur(i)'
<1> DEFINE x == imports[i]
<1>1. SUFFICES ASSUME x # Rien PROVE ImportSur(i)'
  BY DEF ImportSur
<1>2. x \in LignesImport /\ ImportSur(i)
  BY <1>1 DEF InvCatalogue, TypeCatalogue
<1>3. /\ x.cle # Rien => x.cle \in Cles
      /\ x.preuve # Rien => x.preuve \in Cles
      /\ x.fichier \in Fichiers /\ x.sha \in Octets /\ x.sha # Rien
      /\ x.luLe \in Nat /\ x.perdus \in Nat
  BY <1>2, HypCatalogue DEF LignesImport
<1>4. x.cle # Rien => Prouve(i, x.cle) /\ Prouve(i, x.cle)'
  BY <1>1, <1>2, <1>3 DEF ImportSur, Prouve, ObjetsGardes
<1>5. x.preuve # Rien => Prouve(i, x.preuve)'
  BY <1>1, <1>2, <1>3 DEF ImportSur, Prouve, ObjetsGardes
<1>6. x.etape \in {"verifie", "condamne"} => x.cle # Rien /\ ObjetProuve(i)'
  <2>1. pertes \in Nat /\ pertes' \in Nat
    BY DEF InvCatalogue, TypeCatalogue
  <2>2. x.etape \in {"verifie", "condamne"} =>
          /\ x.cle # Rien /\ x.cle.espace = i
          /\ x.perdus <= pertes /\ (objets[x.cle] = x.sha \/ x.perdus < pertes)
    BY <1>1, <1>2, <1>4 DEF ImportSur, Prouve, ObjetProuve
  <2>3. x.cle # Rien /\ x.cle.espace = i =>
          pertes <= pertes' /\ (objets'[x.cle] = objets[x.cle] \/ pertes < pertes')
    BY <1>3 DEF ObjetsGardes
  <2>4. x.etape \in {"verifie", "condamne"} =>
          x.cle # Rien /\ x.perdus <= pertes' /\ (objets'[x.cle] = x.sha \/ x.perdus < pertes')
    <3> HIDE DEF x
    <3> QED BY <1>3, <2>1, <2>2, <2>3
  <2> QED BY <2>4 DEF ObjetProuve
<1>7. x.etape \notin {"capture", "envoye"} /\ ~x.conflit =>
        ligne'[x.fichier] # Rien /\ (ligne'[x.fichier].sha = x.sha \/ ligne'[x.fichier].fiche)
  BY <1>1, <1>2, <1>3 DEF ImportSur, RangeesGardees
<1>8. x.etape \in {"lu", "verifie", "condamne"} => x.cle # Rien
  BY <1>1, <1>2 DEF ImportSur
<1>9. x.etape = "condamne" => CopieProuvee(i)'
  <2>1. horloge \in Nat /\ horloge' \in Nat /\ (disque'[x.fichier] # Rien => disque'[x.fichier].date \in Nat)
    BY <1>3 DEF InvCatalogue, TypeCatalogue, Copies
  <2>2. x.etape = "condamne" => CopieProuvee(i)
    BY <1>1, <1>2 DEF ImportSur
  <2> QED BY <1>3, <2>1, <2>2 DEF CopieProuvee, DatesAvancent
<1> QED BY <1>4, <1>5, <1>6, <1>7, <1>8, <1>9 DEF ImportSur

(* A step that leaves the imports and their objects alone.                  *)
LEMMA SansImport ==
  ASSUME InvCatalogue, UNCHANGED imports, RangeesGardees, \A i \in Imports : ObjetsGardes(i),
         DatesAvancent, TypeCatalogue'
  PROVE  (\A i \in Imports : ImportSur(i)') /\ PurgeSure
<1>1. ASSUME NEW i \in Imports PROVE ImportSur(i)'
  BY ImportTranquille
<1>2. PurgeSure
  BY DEF PurgeSure, PurgeDe
<1> QED BY <1>1, <1>2

----------------------------------------------------------------------------
(* The outside and the scan.                                                *)

LEMMA Inchange ==
  /\ UNCHANGED ligne => RangeesGardees
  /\ UNCHANGED <<objets, pertes>> /\ pertes \in Nat => \A i \in Imports : ObjetsGardes(i)
  /\ UNCHANGED <<disque, horloge>> /\ horloge \in Nat => DatesAvancent
BY DEF RangeesGardees, ObjetsGardes, DatesAvancent

LEMMA DuDehors ==
  ASSUME InvCatalogue, NextExterne
  PROVE  PasCatalogue
<1>0. TypeCatalogue
  BY DEF InvCatalogue
<1>1. ASSUME NEW f \in Fichiers, NEW o \in Octets, ecrire_fichier(f, o) PROVE PasCatalogue
  <2>1. UNCHANGED <<ligne, objets, pertes, balayage, imports, promotions>>
    BY <1>1 DEF ecrire_fichier
  <2>3. \A p \in Promoteurs : PromotionSure(p)'
    BY <2>1 DEF InvCatalogue, PromotionSure
  <2>4. horloge' = horloge + 1 /\ horloge \in Nat
    BY <1>0, <1>1 DEF ecrire_fichier, TypeCatalogue
  <2>5. /\ disque' = [disque EXCEPT ![f] = [octets |-> o, date |-> horloge + 1]]
        /\ [octets |-> o, date |-> horloge + 1] \in Copies
    BY <1>1, <2>4 DEF ecrire_fichier, Copies
  <2>6. disque' \in [Fichiers -> Copies \cup {Rien}]
    BY <1>0, <2>5 DEF TypeCatalogue
  <2>7. ASSUME NEW g \in Fichiers
        PROVE  Datee(g)' /\ (disque'[g] = disque[g] \/ disque'[g] = Rien \/ disque'[g].date > horloge)
    <3>1. disque'[g] = IF g = f THEN [octets |-> o, date |-> horloge + 1] ELSE disque[g]
      BY <1>0, <2>5 DEF TypeCatalogue
    <3>2. Datee(g) /\ (disque[g] # Rien => disque[g].date \in Nat)
      BY <1>0 DEF TypeCatalogue, InvCatalogue, Copies
    <3> QED BY <2>4, <3>1, <3>2 DEF Datee
  <2>8. TypeCatalogue'
    BY <1>0, <2>1, <2>4, <2>6 DEF TypeCatalogue
  <2>9. DatesAvancent
    BY <2>4, <2>7 DEF DatesAvancent
  <2>10. (\A i \in Imports : ImportSur(i)') /\ PurgeSure
    BY <1>0, <2>1, <2>8, <2>9, Inchange, SansImport DEF TypeCatalogue
  <2> QED BY <2>3, <2>7, <2>8, <2>9, <2>10 DEF PasCatalogue, InvCatalogue
<1>2. ASSUME NEW f \in Fichiers, retirer_fichier(f) PROVE PasCatalogue
  <2>1. UNCHANGED <<ligne, objets, pertes, balayage, imports, promotions>>
    BY <1>2 DEF retirer_fichier
  <2>3. \A p \in Promoteurs : PromotionSure(p)'
    BY <2>1 DEF InvCatalogue, PromotionSure
  <2>4. horloge' = horloge + 1 /\ horloge \in Nat /\ disque' = [disque EXCEPT ![f] = Rien]
    BY <1>0, <1>2 DEF retirer_fichier, TypeCatalogue
  <2>5. disque' \in [Fichiers -> Copies \cup {Rien}]
    BY <1>0, <2>4 DEF TypeCatalogue
  <2>6. ASSUME NEW g \in Fichiers
        PROVE  Datee(g)' /\ (disque'[g] = disque[g] \/ disque'[g] = Rien)
    <3>1. disque'[g] = IF g = f THEN Rien ELSE disque[g]
      BY <1>0, <2>4 DEF TypeCatalogue
    <3>2. Datee(g) /\ (disque[g] # Rien => disque[g].date \in Nat)
      BY <1>0 DEF TypeCatalogue, InvCatalogue, Copies
    <3> QED BY <2>4, <3>1, <3>2 DEF Datee
  <2>7. TypeCatalogue'
    BY <1>0, <2>1, <2>4, <2>5 DEF TypeCatalogue
  <2>8. DatesAvancent
    BY <2>4, <2>6 DEF DatesAvancent
  <2>9. (\A i \in Imports : ImportSur(i)') /\ PurgeSure
    BY <1>0, <2>1, <2>7, <2>8, Inchange, SansImport DEF TypeCatalogue
  <2> QED BY <2>3, <2>6, <2>7, <2>8, <2>9 DEF PasCatalogue, InvCatalogue
<1>3. ASSUME NEW c \in Cles, perdre_objet(c) PROVE PasCatalogue
  <2>1. /\ UNCHANGED <<disque, horloge, ligne, balayage, imports, promotions>>
        /\ objets' = [objets EXCEPT ![c] = Rien] /\ pertes' = pertes + 1
    BY <1>3 DEF perdre_objet
  <2>2. \A d \in Cles : objets'[d] = objets[d] \/ objets'[d] = Rien
    BY <1>0, <2>1 DEF TypeCatalogue
  <2>3. pertes \in Nat
    BY <1>0 DEF TypeCatalogue
  <2>4. \A i \in Imports : ObjetsGardes(i)
    BY <2>1, <2>2, <2>3 DEF ObjetsGardes
  <2>5. (\A p \in Promoteurs : PromotionSure(p)') /\ (\A f \in Fichiers : Datee(f)')
    BY <2>1 DEF InvCatalogue, PromotionSure, Datee
  <2>6. TypeCatalogue' /\ DatesAvancent
    BY <1>0, <2>1, <2>3, Inchange DEF TypeCatalogue
  <2>7. (\A i \in Imports : ImportSur(i)') /\ PurgeSure
    BY <2>1, <2>4, <2>6, Inchange, SansImport
  <2> QED BY <2>5, <2>6, <2>7 DEF PasCatalogue, InvCatalogue
<1> QED BY <1>1, <1>2, <1>3 DEF NextExterne

(* A step on the rows, the scan or a promotion only.                        *)
LEMMA RienQueLesRangees ==
  ASSUME InvCatalogue, UNCHANGED <<disque, horloge, pertes, objets, imports>>, RangeesGardees,
         ligne' \in [Fichiers -> LignesCatalogue \cup {Rien}],
         balayage' \in Balayages \cup {Rien},
         promotions' \in [Promoteurs -> LignesPromotion \cup {Rien}],
         \A p \in Promoteurs : PromotionSure(p)'
  PROVE  PasCatalogue
<1>1. TypeCatalogue' /\ horloge \in Nat /\ pertes \in Nat
  BY DEF InvCatalogue, TypeCatalogue
<1>2. (\A i \in Imports : ImportSur(i)') /\ PurgeSure
  BY <1>1, Inchange, SansImport
<1>3. \A f \in Fichiers : Datee(f)'
  BY DEF InvCatalogue, Datee
<1> QED BY <1>1, <1>2, <1>3, Inchange DEF PasCatalogue, InvCatalogue

LEMMA UnBalayage ==
  ASSUME InvCatalogue, NextBalayage
  PROVE  PasCatalogue
<1>0. TypeCatalogue
  BY DEF InvCatalogue
<1>1. /\ UNCHANGED <<disque, horloge, pertes, objets, imports, promotions>>
      /\ promotions' \in [Promoteurs -> LignesPromotion \cup {Rien}]
      /\ \A p \in Promoteurs : PromotionSure(p)'
  BY <1>0 DEF NextBalayage, run_index, document_from_path, publier_balayage, annuler_balayage,
       InvCatalogue, PromotionSure, TypeCatalogue
<1>2. ASSUME NEW rebuild \in BOOLEAN, run_index(rebuild) PROVE PasCatalogue
  <2>1. PICK m : m = [f \in Fichiers |-> IF rebuild \/ ligne[f] = Rien THEN 0 ELSE ligne[f].date]
    OBVIOUS
  <2>2. PICK v : v = [f \in Fichiers |-> Rien]
    OBVIOUS
  <2>3. m \in [Fichiers -> Nat] /\ v \in Releves(Vus)
    BY <1>0, <2>1, <2>2 DEF TypeCatalogue, LignesCatalogue, Releves
  <2>4. balayage' = [manifeste |-> m, vus |-> v, reste |-> Fichiers] /\ UNCHANGED ligne
    BY <1>2, <2>1, <2>2 DEF run_index
  <2>5. balayage' \in Balayages
    BY <2>3, <2>4 DEF Balayages
  <2> QED BY <1>0, <1>1, <2>4, <2>5, Inchange, RienQueLesRangees DEF TypeCatalogue
<1>3. ASSUME NEW f \in Fichiers, document_from_path(f) PROVE PasCatalogue
  <2>1. PICK d : d = IF ~Present(f) THEN Rien
                  ELSE [date |-> disque[f].date,
                        texte |-> IF balayage.manifeste[f] = disque[f].date THEN Rien
                                  ELSE disque[f].octets]
    OBVIOUS
  <2>2. d \in Vus \cup {Rien}
    <3>1. CASE ~Present(f)
      BY <2>1, <3>1
    <3>2. CASE Present(f)
      <4>1. disque[f].date \in Nat /\ disque[f].octets \in Octets
        BY <1>0, <3>2 DEF TypeCatalogue, Copies, Present
      <4> QED BY <2>1, <3>2, <4>1 DEF Vus
    <3> QED BY <3>1, <3>2
  <2>3. balayage \in Balayages /\ UNCHANGED ligne
    BY <1>0, <1>3 DEF document_from_path, TypeCatalogue
  <2>4. balayage' = [balayage EXCEPT !.reste = @ \ {f}, !.vus[f] = d]
    BY <1>3, <2>1 DEF document_from_path
  <2>5. balayage' \in Balayages
    BY <2>2, <2>3, <2>4 DEF Balayages, Releves
  <2> QED BY <1>0, <1>1, <2>3, <2>5, Inchange, RienQueLesRangees DEF TypeCatalogue
<1>4. CASE publier_balayage
  <2>1. balayage \in Balayages /\ balayage' = Rien
    BY <1>0, <1>4 DEF publier_balayage, TypeCatalogue
  <2>2. ASSUME NEW f \in Fichiers
        PROVE  /\ ligne'[f] \in LignesCatalogue \cup {Rien}
               /\ ligne[f] # Rien /\ Protegee(ligne[f]) => ligne'[f] = ligne[f]
    <3>1. ligne'[f] = IF balayage.vus[f] = Rien THEN remove_missing(f)
                      ELSE upsert_documents(f, balayage.vus[f])
      BY <1>4 DEF publier_balayage
    <3>2. balayage.vus[f] # Rien => NouvelleLigne(balayage.vus[f]) \in LignesCatalogue
      BY <2>1 DEF Balayages, Releves, Vus, NouvelleLigne, LignesCatalogue
    <3>3. ligne[f] \in LignesCatalogue \cup {Rien}
      BY <1>0 DEF TypeCatalogue
    <3> QED BY <3>1, <3>2, <3>3 DEF remove_missing, upsert_documents
  <2>3. RangeesGardees
    BY <2>2 DEF RangeesGardees, Protegee
  <2>4. ligne' \in [Fichiers -> LignesCatalogue \cup {Rien}]
    BY <1>4, <2>2 DEF publier_balayage
  <2> QED BY <1>1, <2>1, <2>3, <2>4, RienQueLesRangees
<1>5. CASE annuler_balayage
  BY <1>0, <1>1, <1>5, Inchange, RienQueLesRangees DEF annuler_balayage, TypeCatalogue
<1> QED BY <1>2, <1>3, <1>4, <1>5 DEF NextBalayage
----------------------------------------------------------------------------
(* Imports.                                                                 *)

(* One import moves, and writes in its own name space.                      *)
LEMMA UnImportAvance ==
  ASSUME InvCatalogue, NEW i \in Imports, UNCHANGED <<horloge, pertes, balayage, promotions>>,
         imports' \in [Imports -> LignesImport \cup {Rien}],
         \A j \in Imports \ {i} : imports'[j] = imports[j],
         ImportSur(i)', RangeesGardees,
         ligne' \in [Fichiers -> LignesCatalogue \cup {Rien}],
         objets' \in [Cles -> Octets \cup {Rien}],
         \A c \in Cles : c.espace # i => objets'[c] = objets[c],
         disque' \in [Fichiers -> Copies \cup {Rien}],
         \A f \in Fichiers : disque'[f] = disque[f] \/ disque'[f] = Rien,
         PurgeDe(i)
  PROVE  PasCatalogue
<1>1. TypeCatalogue' /\ horloge \in Nat /\ pertes \in Nat
  BY DEF InvCatalogue, TypeCatalogue
<1>2. DatesAvancent
  BY <1>1 DEF DatesAvancent
<1>3. ASSUME NEW j \in Imports PROVE ImportSur(j)'
  <2>1. CASE j = i
    BY <2>1
  <2>2. CASE j # i
    <3>1. imports'[j] = imports[j] /\ \A c \in Cles : c.espace = j => objets'[c] = objets[c]
      BY <2>2
    <3>2. ObjetsGardes(j)
      BY <1>1, <3>1 DEF ObjetsGardes
    <3> QED BY <1>1, <1>2, <3>1, <3>2, ImportTranquille
  <2> QED BY <2>1, <2>2
<1>4. PurgeSure
  BY DEF PurgeSure, PurgeDe
<1>5. (\A p \in Promoteurs : PromotionSure(p)') /\ (\A f \in Fichiers : Datee(f)')
  BY DEF InvCatalogue, PromotionSure, Datee
<1> QED BY <1>1, <1>2, <1>3, <1>4, <1>5 DEF PasCatalogue, InvCatalogue

(* The same, when it writes neither rows nor files.                         *)
LEMMA UnImportPasse ==
  ASSUME InvCatalogue, NEW i \in Imports, UNCHANGED <<disque, horloge, pertes, ligne, objets, balayage, promotions>>,
         imports' \in [Imports -> LignesImport \cup {Rien}],
         \A j \in Imports \ {i} : imports'[j] = imports[j],
         ImportSur(i)',
         imports'[i] # Rien => imports'[i].etape # "purge"
  PROVE  PasCatalogue
<1>1. TypeCatalogue
  BY DEF InvCatalogue
<1>2. /\ ligne' \in [Fichiers -> LignesCatalogue \cup {Rien}]
      /\ objets' \in [Cles -> Octets \cup {Rien}] /\ disque' \in [Fichiers -> Copies \cup {Rien}]
  BY <1>1 DEF TypeCatalogue
<1>3. /\ RangeesGardees
      /\ \A c \in Cles : c.espace # i => objets'[c] = objets[c]
      /\ \A f \in Fichiers : disque'[f] = disque[f] \/ disque'[f] = Rien
  BY DEF RangeesGardees
<1>4. PurgeDe(i)
  BY DEF PurgeDe
<1> QED BY <1>2, <1>3, <1>4, UnImportAvance

(* What an import there holds.                                              *)
LEMMA ImportConnu ==
  ASSUME InvCatalogue, NEW i \in Imports, imports[i] # Rien
  PROVE  /\ imports[i] \in LignesImport /\ ImportSur(i)
         /\ imports[i].fichier \in Fichiers /\ imports[i].sha \in Octets /\ imports[i].sha # Rien
         /\ imports[i].cle \in Cles \cup {Rien} /\ imports[i].preuve \in Cles \cup {Rien}
         /\ imports[i].date \in Nat
         /\ ligne[imports[i].fichier] \in LignesCatalogue \cup {Rien}
         /\ disque[imports[i].fichier] \in Copies \cup {Rien}
         /\ imports[i].cle # Rien => Prouve(i, imports[i].cle)
         /\ imports[i].preuve # Rien => Prouve(i, imports[i].preuve)
BY HypCatalogue DEF InvCatalogue, TypeCatalogue, LignesImport, ImportSur

(* The fields that Apprendre writes, and those it leaves.                   *)
LEMMA Appris ==
  ASSUME InvCatalogue, NEW i \in Imports, imports[i] # Rien, NEW e \in EtapesImport,
         NEW p \in Cles \cup {Rien}, NEW d \in BOOLEAN, Apprendre(i, e, p, d)
  PROVE  /\ imports' \in [Imports -> LignesImport \cup {Rien}]
         /\ \A j \in Imports \ {i} : imports'[j] = imports[j]
         /\ imports'[i] \in LignesImport
         /\ imports'[i].etape = e /\ imports'[i].preuve = p
         /\ imports'[i].fichier = imports[i].fichier /\ imports'[i].sha = imports[i].sha
         /\ imports'[i].cle = imports[i].cle /\ imports'[i].conflit = imports[i].conflit
<1>1. imports \in [Imports -> LignesImport \cup {Rien}] /\ imports[i] \in LignesImport
  BY ImportConnu DEF InvCatalogue, TypeCatalogue
<1>2. PICK y : y = [imports[i] EXCEPT !.etape = e, !.preuve = p, !.doute = d, !.luLe = 0, !.perdus = 0]
  OBVIOUS
<1>3. y \in LignesImport
  BY <1>1, <1>2 DEF LignesImport
<1>4. imports' = [imports EXCEPT ![i] = y]
  BY <1>1, <1>2 DEF Apprendre
<1>5. /\ y.etape = e /\ y.preuve = p /\ y.fichier = imports[i].fichier /\ y.sha = imports[i].sha
      /\ y.cle = imports[i].cle /\ y.conflit = imports[i].conflit
  BY <1>1, <1>2 DEF LignesImport
<1>6. imports'[i] = y /\ (\A j \in Imports \ {i} : imports'[j] = imports[j])
  BY <1>1, <1>4
<1>7. imports' \in [Imports -> LignesImport \cup {Rien}]
  BY <1>1, <1>3, <1>4
<1> QED BY <1>3, <1>5, <1>6, <1>7

(* Sending a copy: what is kept as proved has the bytes.                    *)
LEMMA UnEnvoi ==
  ASSUME InvCatalogue, NEW i \in Imports, imports[i] # Rien, NEW suite, upload_file(i, suite),
         UNCHANGED <<disque, horloge, pertes, ligne, balayage, promotions>>,
         \/ imports[i].etape = "capture" /\ suite = "envoye"
         \/ imports[i].etape = "reprise" /\ suite = "renvoye"
  PROVE  PasCatalogue
<1> DEFINE x == imports[i]
<1>0. TypeCatalogue
  BY DEF InvCatalogue
<1>1. /\ x \in LignesImport /\ ImportSur(i) /\ x.fichier \in Fichiers /\ x.sha \in Octets
      /\ x.cle \in Cles \cup {Rien} /\ (x.cle # Rien => Prouve(i, x.cle))
  BY ImportConnu
<1>2. /\ RangeesGardees /\ ligne' \in [Fichiers -> LignesCatalogue \cup {Rien}]
      /\ disque' \in [Fichiers -> Copies \cup {Rien}]
      /\ \A f \in Fichiers : disque'[f] = disque[f] \/ disque'[f] = Rien
  BY <1>0, Inchange DEF TypeCatalogue
<1>3. ASSUME NEW p \in Cles \cup {Rien}, NEW d \in BOOLEAN, Apprendre(i, suite, p, d),
             objets' \in [Cles -> Octets \cup {Rien}],
             \A c \in Cles : c.espace # i => objets'[c] = objets[c],
             \A c \in Cles : objets'[c] \in {objets[c], x.sha},
             p # Rien => p.espace = i /\ objets'[p] = x.sha
      PROVE  PasCatalogue
  <2>1. suite \in EtapesImport
    BY DEF EtapesImport
  <2>2. /\ imports' \in [Imports -> LignesImport \cup {Rien}]
        /\ \A j \in Imports \ {i} : imports'[j] = imports[j]
        /\ imports'[i].etape = suite /\ imports'[i].preuve = p
        /\ imports'[i].fichier = x.fichier /\ imports'[i].sha = x.sha
        /\ imports'[i].cle = x.cle /\ imports'[i].conflit = x.conflit
    BY <1>3, <2>1, Appris
  <2>3. x.cle # Rien => Prouve(i, x.cle)'
    BY <1>1, <1>3, <2>2 DEF Prouve
  <2>4. p # Rien => Prouve(i, p)'
    BY <1>3, <2>2 DEF Prouve
  <2>5. suite # "envoye" /\ ~x.conflit =>
          ligne'[x.fichier] # Rien /\ (ligne'[x.fichier].sha = x.sha \/ ligne'[x.fichier].fiche)
    BY <1>1 DEF ImportSur
  <2>6. ImportSur(i)'
    BY <2>2, <2>3, <2>4, <2>5 DEF ImportSur
  <2>7. PurgeDe(i)
    BY <2>2 DEF PurgeDe
  <2> QED BY <1>2, <1>3, <2>2, <2>6, <2>7, UnImportAvance
<1>4. CASE Apprendre(i, suite, Rien, FALSE) /\ UNCHANGED objets
  BY <1>0, <1>3, <1>4 DEF TypeCatalogue
<1>5. ASSUME Libres(x.fichier, i) # {} PROVE
        \A c : c = first_free_key(x.fichier, i) =>
          LET ecrit == [objets EXCEPT ![c] = x.sha] IN
          /\ c \in Cles /\ c.espace = i /\ ecrit \in [Cles -> Octets \cup {Rien}] /\ ecrit[c] = x.sha
          /\ \A k \in Cles : ecrit[k] \in {objets[k], x.sha} /\ (k.espace # i => ecrit[k] = objets[k])
  <2>1. i \in Espaces
    BY DEF Espaces
  <2>2. PICK c \in Cles : c = first_free_key(x.fichier, i) /\ c.espace = i
    BY <1>1, <1>5, <2>1, PremiereLibre
  <2>3. PICK ecrit : ecrit = [objets EXCEPT ![c] = x.sha]
    OBVIOUS
  <2>4. /\ ecrit \in [Cles -> Octets \cup {Rien}] /\ ecrit[c] = x.sha
        /\ \A k \in Cles : ecrit[k] \in {objets[k], x.sha} /\ (k # c => ecrit[k] = objets[k])
    BY <1>0, <1>1, <2>3 DEF TypeCatalogue
  <2> QED BY <2>2, <2>3, <2>4
<1>6. ASSUME Libres(x.fichier, i) # {},
             NEW c, c = first_free_key(x.fichier, i),
             \/ objets' = [objets EXCEPT ![c] = x.sha] /\ Apprendre(i, suite, c, FALSE)
             \/ /\ objets' \in {objets, [objets EXCEPT ![c] = x.sha]}
                /\ Apprendre(i, suite, Rien, TRUE)
      PROVE  PasCatalogue
  <2>1. PICK ecrit : ecrit = [objets EXCEPT ![c] = x.sha]
    OBVIOUS
  <2>2. /\ c \in Cles /\ c.espace = i /\ ecrit \in [Cles -> Octets \cup {Rien}] /\ ecrit[c] = x.sha
        /\ \A k \in Cles : ecrit[k] \in {objets[k], x.sha} /\ (k.espace # i => ecrit[k] = objets[k])
    BY <1>5, <1>6, <2>1
  <2>3. CASE objets' = ecrit /\ Apprendre(i, suite, c, FALSE)
    BY <1>3, <2>2, <2>3
  <2>4. CASE objets' = ecrit /\ Apprendre(i, suite, Rien, TRUE)
    BY <1>3, <2>2, <2>4
  <2>5. CASE objets' = objets /\ Apprendre(i, suite, Rien, TRUE)
    BY <1>0, <1>3, <2>5 DEF TypeCatalogue
  <2> QED BY <1>6, <2>1, <2>3, <2>4, <2>5
<1> QED BY <1>4, <1>6 DEF upload_file
LEMMA UneCapture ==
  ASSUME InvCatalogue, NEW i \in Imports, NEW f \in Fichiers, capturer(i, f)
  PROVE  PasCatalogue
<1>0. TypeCatalogue
  BY DEF InvCatalogue
<1>1. disque[f].octets \in Octets /\ disque[f].date \in Nat
  BY <1>0 DEF capturer, Present, TypeCatalogue, Copies
<1>2. PICK y : y = [fichier |-> f, sha |-> disque[f].octets, date |-> disque[f].date,
        etape |-> "capture", cle |-> Rien, incertain |-> FALSE, conflit |-> FALSE, lie |-> FALSE,
        preuve |-> Rien, doute |-> FALSE, luLe |-> 0, perdus |-> 0]
  OBVIOUS
<1>3. y \in LignesImport /\ y.etape = "capture" /\ y.cle = Rien /\ y.preuve = Rien
  BY <1>1, <1>2 DEF LignesImport, EtapesImport
<1>4. imports' = [imports EXCEPT ![i] = y]
  BY <1>2 DEF capturer
<1>5. /\ imports' \in [Imports -> LignesImport \cup {Rien}] /\ imports'[i] = y
      /\ \A j \in Imports \ {i} : imports'[j] = imports[j]
  BY <1>0, <1>3, <1>4 DEF TypeCatalogue
<1>6. ImportSur(i)'
  BY <1>3, <1>5 DEF ImportSur
<1> QED BY <1>3, <1>5, <1>6, UnImportPasse DEF capturer

(* A row that gives its place keeps the identity an import gave it.         *)
LEMMA UnePublication ==
  ASSUME InvCatalogue, NEW i \in Imports, publier_import(i)
  PROVE  PasCatalogue
<1> DEFINE x == imports[i]
           l == ligne[x.fichier]
           permis == UpsertPermis(l, x.sha)
<1>0. TypeCatalogue
  BY DEF InvCatalogue
<1>1. /\ x \in LignesImport /\ ImportSur(i) /\ x.fichier \in Fichiers /\ x.sha \in Octets
      /\ x.sha # Rien /\ x.cle \in Cles \cup {Rien} /\ x.preuve \in Cles \cup {Rien} /\ x.date \in Nat
      /\ l \in LignesCatalogue \cup {Rien} /\ (x.preuve # Rien => Prouve(i, x.preuve))
      /\ x # Rien
  BY ImportConnu DEF publier_import, Etape
<1>2. PICK a : a = [date |-> x.date, texte |-> x.sha, sha |-> x.sha, hash |-> Rien,
                    cle |-> x.preuve, envoye |-> x.preuve # Rien, fiche |-> FALSE]
  OBVIOUS
<1>3. a \in LignesCatalogue /\ a # Rien /\ a.sha = x.sha
  <2>1. (x.preuve # Rien) \in BOOLEAN /\ x.sha \in Octets \cup {Rien}
    BY <1>1
  <2>2. a \in LignesCatalogue
    BY <1>1, <1>2, <2>1 DEF LignesCatalogue
  <2>3. a.sha = x.sha
    BY <1>2
  <2> QED BY <2>2, <2>3, HypCatalogue
<1>4. PICK b : b = IF permis THEN a ELSE l
  OBVIOUS
<1>5. ligne' = [ligne EXCEPT ![x.fichier] = b]
  BY <1>2, <1>4 DEF publier_import
<1>6. b \in LignesCatalogue \cup {Rien}
  BY <1>1, <1>3, <1>4
<1>7. /\ ligne' \in [Fichiers -> LignesCatalogue \cup {Rien}] /\ ligne'[x.fichier] = b
      /\ \A f \in Fichiers : f # x.fichier => ligne'[f] = ligne[f]
  BY <1>0, <1>1, <1>5, <1>6 DEF TypeCatalogue
<1>8. RangeesGardees
  <2>1. l # Rien /\ l.fiche => b # Rien /\ b.fiche
    BY <1>4 DEF UpsertPermis
  <2>2. l # Rien /\ l.sha # Rien => b # Rien /\ (b.sha = l.sha \/ b.fiche)
    BY <1>3, <1>4 DEF UpsertPermis
  <2> QED BY <1>7, <2>1, <2>2 DEF RangeesGardees
<1>9. PICK y : y = [x EXCEPT !.etape = "publie", !.cle = x.preuve, !.incertain = x.doute,
                    !.preuve = Rien, !.doute = FALSE,
                    !.conflit = ~permis, !.lie = permis /\ x.preuve # Rien]
  OBVIOUS
<1>10. imports' = [imports EXCEPT ![i] = y]
  BY <1>9 DEF publier_import
<1>11. y \in LignesImport
  <2>1. permis \in BOOLEAN /\ x.doute \in BOOLEAN /\ "publie" \in EtapesImport
    BY <1>1 DEF LignesImport, EtapesImport, UpsertPermis
  <2> QED BY <1>1, <1>9, <2>1 DEF LignesImport
<1>12. /\ y.etape = "publie" /\ y.cle = x.preuve /\ y.preuve = Rien /\ y.fichier = x.fichier
       /\ y.sha = x.sha /\ (y.conflit <=> ~permis)
  BY <1>1, <1>9 DEF LignesImport, UpsertPermis
<1>13. /\ imports' \in [Imports -> LignesImport \cup {Rien}] /\ imports'[i] = y
       /\ \A j \in Imports \ {i} : imports'[j] = imports[j]
  BY <1>0, <1>10, <1>11 DEF TypeCatalogue
<1>14. UNCHANGED <<disque, horloge, pertes, objets, balayage, promotions>>
  BY DEF publier_import
<1>15. ImportSur(i)'
  <2>1. y.cle # Rien => Prouve(i, y.cle)'
    BY <1>1, <1>12, <1>13, <1>14 DEF Prouve
  <2>2. permis => ligne'[x.fichier] # Rien /\ ligne'[x.fichier].sha = x.sha
    BY <1>3, <1>4, <1>7
  <2> QED BY <1>12, <1>13, <2>1, <2>2 DEF ImportSur
<1>16. /\ objets' \in [Cles -> Octets \cup {Rien}] /\ disque' \in [Fichiers -> Copies \cup {Rien}]
       /\ \A c \in Cles : c.espace # i => objets'[c] = objets[c]
       /\ \A f \in Fichiers : disque'[f] = disque[f] \/ disque'[f] = Rien
  BY <1>0, <1>14 DEF TypeCatalogue
<1>17. PurgeDe(i)
  BY <1>12, <1>13 DEF PurgeDe
<1> QED BY <1>7, <1>8, <1>13, <1>14, <1>15, <1>16, <1>17, UnImportAvance

LEMMA UneLiaison ==
  ASSUME InvCatalogue, NEW i \in Imports, lier_objets_capture(i)
  PROVE  PasCatalogue
<1> DEFINE x == imports[i]
           l == ligne[x.fichier]
           lie == x.preuve # Rien /\ l # Rien /\ l.sha = x.sha /\ l.cle \in {Rien, x.preuve}
<1>0. TypeCatalogue
  BY DEF InvCatalogue
<1>1. /\ x \in LignesImport /\ ImportSur(i) /\ x.fichier \in Fichiers /\ x.sha \in Octets
      /\ x.cle \in Cles \cup {Rien} /\ x.preuve \in Cles \cup {Rien}
      /\ l \in LignesCatalogue \cup {Rien} /\ (x.preuve # Rien => Prouve(i, x.preuve))
      /\ x # Rien /\ x.etape = "renvoye"
  BY ImportConnu DEF lier_objets_capture, Etape
<1>2. PICK a : a = [l EXCEPT !.cle = x.preuve, !.envoye = TRUE]
  OBVIOUS
<1>3. l # Rien => a \in LignesCatalogue /\ a # Rien /\ a.sha = l.sha /\ a.fiche = l.fiche
  BY <1>1, <1>2, HypCatalogue DEF LignesCatalogue
<1>4. ligne' = IF lie THEN [ligne EXCEPT ![x.fichier] = a] ELSE ligne
  BY <1>2 DEF lier_objets_capture
<1>5. /\ ligne' \in [Fichiers -> LignesCatalogue \cup {Rien}]
      /\ \A f \in Fichiers : ligne'[f] = ligne[f] \/ (f = x.fichier /\ l # Rien /\ ligne'[f] = a)
  BY <1>0, <1>1, <1>3, <1>4 DEF TypeCatalogue
<1>6. RangeesGardees
  BY <1>3, <1>5 DEF RangeesGardees
<1>7. PICK y : y = [x EXCEPT !.etape = "publie", !.cle = x.preuve, !.incertain = x.doute,
                    !.preuve = Rien, !.doute = FALSE, !.lie = lie]
  OBVIOUS
<1>8. imports' = [imports EXCEPT ![i] = y]
  BY <1>7 DEF lier_objets_capture
<1>9. y \in LignesImport
  <2>1. lie \in BOOLEAN /\ x.doute \in BOOLEAN /\ "publie" \in EtapesImport
    BY <1>1 DEF LignesImport, EtapesImport
  <2> QED BY <1>1, <1>7, <2>1 DEF LignesImport
<1>10. /\ y.etape = "publie" /\ y.cle = x.preuve /\ y.preuve = Rien /\ y.fichier = x.fichier
       /\ y.sha = x.sha /\ y.conflit = x.conflit
  BY <1>1, <1>7 DEF LignesImport
<1>11. /\ imports' \in [Imports -> LignesImport \cup {Rien}] /\ imports'[i] = y
       /\ \A j \in Imports \ {i} : imports'[j] = imports[j]
  BY <1>0, <1>8, <1>9 DEF TypeCatalogue
<1>12. UNCHANGED <<disque, horloge, pertes, objets, balayage, promotions>>
  BY DEF lier_objets_capture
<1>13. ImportSur(i)'
  <2>1. y.cle # Rien => Prouve(i, y.cle)'
    BY <1>1, <1>10, <1>11, <1>12 DEF Prouve
  <2>2. ~x.conflit => l # Rien /\ (l.sha = x.sha \/ l.fiche)
    BY <1>1 DEF ImportSur
  <2>3. ~x.conflit =>
          ligne'[x.fichier] # Rien /\ (ligne'[x.fichier].sha = x.sha \/ ligne'[x.fichier].fiche)
    BY <1>1, <1>3, <1>5, <2>2
  <2> QED BY <1>10, <1>11, <2>1, <2>3 DEF ImportSur
<1>14. /\ objets' \in [Cles -> Octets \cup {Rien}] /\ disque' \in [Fichiers -> Copies \cup {Rien}]
       /\ \A c \in Cles : c.espace # i => objets'[c] = objets[c]
       /\ \A f \in Fichiers : disque'[f] = disque[f] \/ disque'[f] = Rien
  BY <1>0, <1>12 DEF TypeCatalogue
<1>15. PurgeDe(i)
  BY <1>10, <1>11 DEF PurgeDe
<1> QED BY <1>5, <1>6, <1>11, <1>12, <1>13, <1>14, <1>15, UnImportAvance

(* An intention to send again, the end of a worker, the readings of a purge.*)
LEMMA UneReprise ==
  ASSUME InvCatalogue, NEW i \in Imports, retry_upload(i)
  PROVE  PasCatalogue
<1> DEFINE x == imports[i]
<1>0. TypeCatalogue
  BY DEF InvCatalogue
<1>1. x \in LignesImport /\ ImportSur(i) /\ x # Rien /\ x.etape = "publie"
  BY ImportConnu DEF retry_upload, Etape
<1>2. PICK y : y = [x EXCEPT !.etape = "reprise", !.incertain = x.cle = Rien]
  OBVIOUS
<1>3. (x.cle = Rien) \in BOOLEAN /\ "reprise" \in EtapesImport
  BY DEF EtapesImport
<1>4. y \in LignesImport
  BY <1>1, <1>2, <1>3 DEF LignesImport
<1>5. /\ y.etape = "reprise" /\ y.cle = x.cle /\ y.preuve = x.preuve /\ y.fichier = x.fichier
      /\ y.sha = x.sha /\ y.conflit = x.conflit
  BY <1>1, <1>2 DEF LignesImport
<1>6. imports' = [imports EXCEPT ![i] = y]
  BY <1>0, <1>1, <1>2 DEF retry_upload, TypeCatalogue
<1>7. /\ imports' \in [Imports -> LignesImport \cup {Rien}] /\ imports'[i] = y
      /\ \A j \in Imports \ {i} : imports'[j] = imports[j]
  BY <1>0, <1>4, <1>6 DEF TypeCatalogue
<1>8. UNCHANGED <<disque, horloge, pertes, ligne, objets, balayage, promotions>>
  BY DEF retry_upload
<1>9. ImportSur(i)'
  BY <1>1, <1>5, <1>7, <1>8 DEF ImportSur, Prouve
<1> QED BY <1>5, <1>7, <1>8, <1>9, UnImportPasse

LEMMA UneAcquisition ==
  ASSUME InvCatalogue, NEW i \in Imports, imports[i] # Rien,
         NEW e \in EtapesImport, NEW p \in {Rien, imports[i].cle}, Apprendre(i, e, p, FALSE),
         UNCHANGED <<disque, horloge, pertes, ligne, objets, balayage, promotions>>,
         e \in {"renvoye", "publie"}, imports[i].etape \notin {"capture", "envoye"}
  PROVE  PasCatalogue
<1> DEFINE x == imports[i]
<1>1. /\ x \in LignesImport /\ ImportSur(i) /\ x.cle \in Cles \cup {Rien}
      /\ p \in Cles \cup {Rien}
  BY ImportConnu
<1>2. /\ imports' \in [Imports -> LignesImport \cup {Rien}]
      /\ \A j \in Imports \ {i} : imports'[j] = imports[j]
      /\ imports'[i].etape = e /\ imports'[i].preuve = p
      /\ imports'[i].fichier = x.fichier /\ imports'[i].sha = x.sha
      /\ imports'[i].cle = x.cle /\ imports'[i].conflit = x.conflit
  BY <1>1, Appris
<1>3. ImportSur(i)'
  BY <1>1, <1>2 DEF ImportSur, Prouve
<1> QED BY <1>2, <1>3, UnImportPasse

(* A reading of a purge, or its removal: the place moves, and the ghosts.   *)
LEMMA UnPasDePurge ==
  ASSUME InvCatalogue, NEW i \in Imports,
         relire_local(i) \/ relire_objet(i) \/ relire_avant_suppression(i) \/ supprimer_local(i)
  PROVE  PasCatalogue
<1> DEFINE x == imports[i]
           Devient(e, d, p) == imports' = [imports EXCEPT ![i] = [x EXCEPT !.etape = e, !.luLe = d, !.perdus = p]]
<1> HIDE DEF Devient
<1>0. TypeCatalogue
  BY DEF InvCatalogue
<1>1. /\ x \in LignesImport /\ ImportSur(i) /\ x # Rien /\ x.fichier \in Fichiers /\ x.sha \in Octets
      /\ x.cle \in Cles \cup {Rien} /\ (x.cle # Rien => Prouve(i, x.cle))
      /\ disque[x.fichier] \in Copies \cup {Rien} /\ horloge \in Nat /\ pertes \in Nat
  BY <1>0, ImportConnu
     DEF relire_local, relire_objet, relire_avant_suppression, supprimer_local, Etape, TypeCatalogue
<1>2. ASSUME NEW e \in EtapesImport, NEW d \in Nat, NEW p \in Nat,
             Devient(e, d, p),
             UNCHANGED <<horloge, pertes, ligne, objets, balayage, promotions>>,
             e \notin {"capture", "envoye"}, x.etape \notin {"capture", "envoye"},
             e \in {"lu", "verifie", "condamne"} => x.cle # Rien,
             e \in {"verifie", "condamne"} => p <= pertes /\ (objets[x.cle] = x.sha \/ p < pertes),
             e = "condamne" => d <= horloge /\ UNCHANGED disque /\ disque[x.fichier] # Rien
                                 /\ disque[x.fichier].octets = x.sha,
             disque' \in [Fichiers -> Copies \cup {Rien}],
             \A f \in Fichiers : disque'[f] = disque[f] \/ disque'[f] = Rien,
             e = "purge" => /\ disque[x.fichier] # Rien
                            /\ disque[x.fichier].octets = x.sha \/ disque[x.fichier].date > x.luLe
                            /\ objets[x.cle] = x.sha \/ pertes > x.perdus
      PROVE  PasCatalogue
  <2>1. PICK y : y = [x EXCEPT !.etape = e, !.luLe = d, !.perdus = p]
    OBVIOUS
  <2>2. y \in LignesImport
    BY <1>1, <2>1 DEF LignesImport
  <2>3. /\ y.etape = e /\ y.cle = x.cle /\ y.preuve = x.preuve /\ y.fichier = x.fichier
        /\ y.sha = x.sha /\ y.conflit = x.conflit /\ y.luLe = d /\ y.perdus = p
    BY <1>1, <2>1 DEF LignesImport
  <2>4. imports' = [imports EXCEPT ![i] = y]
    BY <1>2, <2>1 DEF Devient
  <2>5. /\ imports' \in [Imports -> LignesImport \cup {Rien}] /\ imports'[i] = y
        /\ \A j \in Imports \ {i} : imports'[j] = imports[j]
    BY <1>0, <2>2, <2>4 DEF TypeCatalogue
  <2>6. /\ y.cle # Rien => Prouve(i, y.cle)'
        /\ y.preuve # Rien => Prouve(i, y.preuve)'
    BY <1>1, <1>2, <2>3, <2>5 DEF ImportSur, Prouve
  <2>7. /\ e \in {"verifie", "condamne"} => ObjetProuve(i)'
        /\ e = "condamne" => CopieProuvee(i)'
    BY <1>2, <2>3, <2>5 DEF ObjetProuve, CopieProuvee
  <2>8. ~y.conflit => ligne'[y.fichier] # Rien /\ (ligne'[y.fichier].sha = y.sha \/ ligne'[y.fichier].fiche)
    BY <1>1, <1>2, <2>3 DEF ImportSur
  <2>9. ImportSur(i)'
    BY <1>2, <2>3, <2>5, <2>6, <2>7, <2>8 DEF ImportSur
  <2>10. /\ RangeesGardees /\ ligne' \in [Fichiers -> LignesCatalogue \cup {Rien}]
         /\ objets' \in [Cles -> Octets \cup {Rien}]
         /\ \A c \in Cles : c.espace # i => objets'[c] = objets[c]
    BY <1>0, <1>2, Inchange DEF TypeCatalogue
  <2>11. PurgeDe(i)
    BY <1>2, <2>3, <2>5 DEF PurgeDe
  <2> QED BY <1>2, <2>5, <2>9, <2>10, <2>11, UnImportAvance
<1> USE DEF EtapesImport
<1>a. x.luLe \in Nat /\ x.perdus \in Nat
  BY <1>1 DEF LignesImport
<1>b. ASSUME NEW e \in EtapesImport, NEW d \in Nat, NEW p \in Nat, Avancer(i, e, d, p)
      PROVE  Devient(e, d, p) /\ UNCHANGED <<horloge, pertes, ligne, objets, balayage, promotions>>
  BY <1>0, <1>1, <1>b DEF TypeCatalogue, LignesImport, Devient, Avancer
<1>c. UNCHANGED disque => /\ disque' \in [Fichiers -> Copies \cup {Rien}]
                          /\ \A f \in Fichiers : disque'[f] = disque[f] \/ disque'[f] = Rien
  BY <1>0 DEF TypeCatalogue
<1>3. CASE relire_local(i)
  <2>1. x.etape = "publie" /\ x.cle # Rien /\ Avancer(i, "lu", 0, 0) /\ UNCHANGED disque
    BY <1>3 DEF relire_local, Etape
  <2>2. Devient("lu", 0, 0) /\ UNCHANGED <<horloge, pertes, ligne, objets, balayage, promotions>>
    BY <1>b, <2>1
  <2> HIDE DEF x
  <2> QED BY <1>2, <1>c, <2>1, <2>2
<1>3a. ASSUME Avancer(i, "publie", 0, 0), UNCHANGED disque, x.etape \in {"lu", "verifie", "condamne"}
       PROVE  PasCatalogue
  <2>1. Devient("publie", 0, 0) /\ UNCHANGED <<horloge, pertes, ligne, objets, balayage, promotions>>
    BY <1>3a, <1>b
  <2> HIDE DEF x
  <2> QED BY <1>2, <1>3a, <1>c, <2>1
<1>4. CASE relire_objet(i)
  <2> DEFINE prouve == objets[x.cle] # Rien /\ Contient(x.fichier, objets[x.cle])
  <2>1. x.etape = "lu" /\ x.cle # Rien /\ UNCHANGED disque
    BY <1>1, <1>4 DEF relire_objet, Etape, ImportSur
  <2>2. CASE ~prouve
    BY <1>3a, <1>4, <2>1, <2>2 DEF relire_objet
  <2>3. CASE prouve
    <3>1. Avancer(i, "verifie", 0, pertes)
      BY <1>4, <2>3 DEF relire_objet
    <3>2. objets[x.cle] = x.sha
      BY <1>1, <2>1, <2>3 DEF Prouve
    <3>3. Devient("verifie", 0, pertes) /\ UNCHANGED <<horloge, pertes, ligne, objets, balayage, promotions>>
      BY <1>1, <1>b, <3>1
    <3> HIDE DEF x
    <3> QED BY <1>1, <1>2, <1>c, <2>1, <3>2, <3>3
  <2> QED BY <2>2, <2>3
<1>5. CASE relire_avant_suppression(i)
  <2>1. x.etape = "verifie" /\ UNCHANGED disque
    BY <1>5 DEF relire_avant_suppression, Etape
  <2>2. CASE ~Attendu(i)
    BY <1>3a, <1>5, <2>1, <2>2 DEF relire_avant_suppression
  <2>3. CASE Attendu(i)
    <3>1. Avancer(i, "condamne", horloge, x.perdus)
      BY <1>5, <2>3 DEF relire_avant_suppression, Condamner
    <3>2. x.cle # Rien /\ x.perdus <= pertes /\ (objets[x.cle] = x.sha \/ x.perdus < pertes)
      BY <1>1, <2>1 DEF ImportSur, ObjetProuve
    <3>3. disque[x.fichier] # Rien /\ disque[x.fichier].octets = x.sha
      BY <2>3 DEF Attendu, Contient, Present
    <3>4. /\ Devient("condamne", horloge, x.perdus)
          /\ UNCHANGED <<horloge, pertes, ligne, objets, balayage, promotions>>
      BY <1>1, <1>a, <1>b, <3>1
    <3>5. horloge <= horloge
      BY <1>1
    <3> HIDE DEF x
    <3> QED BY <1>1, <1>2, <1>a, <1>c, <2>1, <3>2, <3>3, <3>4, <3>5
  <2> QED BY <2>2, <2>3
<1>6. CASE supprimer_local(i)
  <2> DEFINE e == IF Present(x.fichier) THEN "purge" ELSE "publie"
  <2>1. x.etape = "condamne" /\ Avancer(i, e, 0, 0) /\ disque' = [disque EXCEPT ![x.fichier] = Rien]
    BY <1>6 DEF supprimer_local, Etape
  <2>2. objets[x.cle] = x.sha \/ pertes > x.perdus
    BY <1>1, <1>a, <2>1 DEF ImportSur, ObjetProuve
  <2>3. disque[x.fichier] # Rien => disque[x.fichier].octets = x.sha \/ disque[x.fichier].date > x.luLe
    <3>1. disque[x.fichier] # Rien => disque[x.fichier].date \in Nat
      BY <1>1 DEF Copies
    <3> QED BY <1>1, <1>a, <2>1, <3>1 DEF ImportSur, CopieProuvee
  <2>4. e \in {"purge", "publie"} /\ (e = "purge" => disque[x.fichier] # Rien)
    BY DEF Present
  <2>5. /\ disque' \in [Fichiers -> Copies \cup {Rien}]
        /\ \A f \in Fichiers : disque'[f] = disque[f] \/ disque'[f] = Rien
    BY <1>0, <2>1 DEF TypeCatalogue
  <2> HIDE DEF e
  <2>6. Devient(e, 0, 0) /\ UNCHANGED <<horloge, pertes, ligne, objets, balayage, promotions>>
    BY <1>b, <2>1, <2>4
  <2> HIDE DEF x
  <2> QED BY <1>2, <2>1, <2>2, <2>3, <2>4, <2>5, <2>6
<1> QED BY <1>3, <1>4, <1>5, <1>6

LEMMA UneMort ==
  ASSUME InvCatalogue, NEW i \in Imports, mort_import(i)
  PROVE  PasCatalogue
<1>0. TypeCatalogue /\ imports[i] # Rien
  BY DEF InvCatalogue, mort_import
<1>1. UNCHANGED <<disque, horloge, pertes, ligne, objets, balayage, promotions>>
  BY DEF mort_import
<1>2. CASE imports[i].etape \in {"capture", "envoye"}
  <2>1. imports' = [imports EXCEPT ![i] = Rien]
    BY <1>2 DEF mort_import
  <2>2. /\ imports' \in [Imports -> LignesImport \cup {Rien}] /\ imports'[i] = Rien
        /\ \A j \in Imports \ {i} : imports'[j] = imports[j]
    BY <1>0, <2>1 DEF TypeCatalogue
  <2>3. ImportSur(i)'
    BY <2>2 DEF ImportSur
  <2> QED BY <1>1, <2>2, <2>3, UnImportPasse
<1>3. CASE imports[i].etape \notin {"capture", "envoye"}
  <2>1. Apprendre(i, "publie", Rien, FALSE) /\ "publie" \in EtapesImport
    BY <1>3 DEF mort_import, EtapesImport
  <2> QED BY <1>0, <1>1, <1>3, <2>1, UneAcquisition
<1> QED BY <1>2, <1>3

LEMMA UnRenvoi ==
  ASSUME InvCatalogue, NEW i \in Imports, renvoyer(i)
  PROVE  PasCatalogue
<1>1. /\ imports[i] # Rien /\ imports[i].etape = "reprise"
      /\ UNCHANGED <<disque, horloge, pertes, ligne, balayage, promotions>>
  BY DEF renvoyer, Etape
<1>2. CASE imports[i].cle = Rien /\ Attendu(i)
  <2>1. upload_file(i, "renvoye")
    BY <1>2 DEF renvoyer
  <2> QED BY <1>1, <2>1, UnEnvoi
<1>3. CASE ~(imports[i].cle = Rien /\ Attendu(i))
  <2>1. Apprendre(i, "renvoye", imports[i].cle, FALSE) /\ UNCHANGED objets
    BY <1>3 DEF renvoyer
  <2>2. "renvoye" \in EtapesImport
    BY DEF EtapesImport
  <2> QED BY <1>1, <2>1, <2>2, UneAcquisition
<1> QED BY <1>2, <1>3

LEMMA DesImports ==
  ASSUME InvCatalogue, NextImport
  PROVE  PasCatalogue
<1>1. ASSUME NEW i \in Imports, envoyer(i) PROVE PasCatalogue
  BY <1>1, UnEnvoi DEF envoyer, Etape
<1> QED BY <1>1, UneCapture, UnePublication, UneReprise, UnRenvoi, UneLiaison, UnPasDePurge, UneMort
     DEF NextImport
----------------------------------------------------------------------------
(* Deposits and promotions write in a name space that no import reads.      *)

LEMMA PromotionAvance ==
  ASSUME InvCatalogue, NEW p \in Promoteurs, NEW y \in LignesPromotion \cup {Rien}, Retenir(p, y),
         y # Rien /\ (y.etape = "cle" \/ y.cle # Rien) => y.cle.espace = "lots",
         ligne' \in [Fichiers -> LignesCatalogue \cup {Rien}], RangeesGardees,
         objets' \in [Cles -> Octets \cup {Rien}],
         \A c \in Cles : c.espace # "lots" => objets'[c] = objets[c]
  PROVE  PasCatalogue
<1>0. TypeCatalogue
  BY DEF InvCatalogue
<1>1. /\ promotions' = [promotions EXCEPT ![p] = y]
      /\ UNCHANGED <<disque, horloge, pertes, balayage, imports>>
  BY DEF Retenir
<1>2. promotions' \in [Promoteurs -> LignesPromotion \cup {Rien}]
  BY <1>0, <1>1 DEF TypeCatalogue
<1>3. ASSUME NEW q \in Promoteurs PROVE PromotionSure(q)'
  <2>1. promotions'[q] = IF q = p THEN y ELSE promotions[q]
    BY <1>0, <1>1 DEF TypeCatalogue
  <2> QED BY <2>1 DEF InvCatalogue, PromotionSure
<1>4. ASSUME NEW i \in Imports PROVE \A c \in Cles : c.espace = i => objets'[c] = objets[c]
  BY HypCatalogue
<1>5. TypeCatalogue' /\ DatesAvancent /\ pertes \in Nat
  BY <1>0, <1>1, <1>2, Inchange DEF TypeCatalogue
<1>6. \A i \in Imports : ObjetsGardes(i)
  BY <1>1, <1>4, <1>5 DEF ObjetsGardes
<1>7. (\A i \in Imports : ImportSur(i)') /\ PurgeSure
  BY <1>1, <1>5, <1>6, SansImport
<1>8. \A f \in Fichiers : Datee(f)'
  BY <1>1 DEF InvCatalogue, Datee
<1> QED BY <1>3, <1>5, <1>7, <1>8 DEF PasCatalogue, InvCatalogue

LEMMA UnDepot ==
  ASSUME InvCatalogue, NEW f \in Fichiers, deposer(f)
  PROVE  PasCatalogue
<1> DEFINE x == promotions["depot"]
           l == ligne[f]
           neuve == l = Rien
<1>0. TypeCatalogue /\ "depot" \in Promoteurs
  BY DEF InvCatalogue, Promoteurs
<1>1. /\ x \in LignesPromotion /\ x # Rien /\ x.octets \in Octets \cup {Rien}
      /\ PromotionSure("depot")
  BY <1>0 DEF deposer, Fait, TypeCatalogue, LignesPromotion, InvCatalogue
<1>2. l \in LignesCatalogue \cup {Rien} /\ disque[f].date \in Nat
  BY <1>0 DEF deposer, Present, TypeCatalogue, Copies
<1>3. PICK t : t = IF neuve \/ l.texte = Rien THEN x.octets ELSE l.texte
  OBVIOUS
<1>4. PICK c : c = IF neuve THEN Rien ELSE l.cle
  OBVIOUS
<1>5. PICK e : e = (~neuve /\ l.envoye)
  OBVIOUS
<1>6. t \in Octets \cup {Rien} /\ c \in Cles \cup {Rien} /\ e \in BOOLEAN
  BY <1>1, <1>2, <1>3, <1>4, <1>5 DEF LignesCatalogue
<1>7. PICK a : a = [date |-> disque[f].date, texte |-> t, sha |-> x.octets, hash |-> x.octets,
                    cle |-> c, envoye |-> e, fiche |-> TRUE]
  OBVIOUS
<1>8. a \in LignesCatalogue
  BY <1>1, <1>2, <1>6, <1>7 DEF LignesCatalogue
<1>9. a # Rien /\ a.fiche
  BY <1>7, <1>8, HypCatalogue
<1>10. ligne' = [ligne EXCEPT ![f] = a]
  BY <1>3, <1>4, <1>5, <1>7 DEF deposer
<1>11. /\ ligne' \in [Fichiers -> LignesCatalogue \cup {Rien}]
       /\ \A g \in Fichiers : ligne'[g] = IF g = f THEN a ELSE ligne[g]
  BY <1>0, <1>8, <1>10 DEF TypeCatalogue
<1>12. RangeesGardees
  BY <1>9, <1>11 DEF RangeesGardees
<1>13. PICK y : y = [x EXCEPT !.etape = "a_promouvoir"]
  OBVIOUS
<1>14. y \in LignesPromotion /\ y.cle = x.cle /\ y.etape = "a_promouvoir"
  BY <1>1, <1>13 DEF LignesPromotion
<1>15. Retenir("depot", y) /\ UNCHANGED objets
  BY <1>13 DEF deposer
<1>16. y.cle # Rien => y.cle.espace = "lots"
  BY <1>1, <1>14 DEF PromotionSure
<1> QED BY <1>0, <1>11, <1>12, <1>14, <1>15, <1>16, PromotionAvance DEF TypeCatalogue

LEMMA UnPasDePromotion ==
  ASSUME InvCatalogue, NEW p \in Promoteurs, NextPromotion(p)
  PROVE  PasCatalogue
<1> DEFINE x == promotions[p]
<1>0. TypeCatalogue /\ "lots" \in Espaces
  BY DEF InvCatalogue, Espaces
<1>1. /\ x # Rien => /\ x \in LignesPromotion /\ x.fichier \in Fichiers
                     /\ x.cle \in Cles \cup {Rien}
                     /\ (x.etape = "cle" \/ x.cle # Rien => x.cle.espace = "lots")
      /\ ligne \in [Fichiers -> LignesCatalogue \cup {Rien}]
      /\ objets \in [Cles -> Octets \cup {Rien}]
  BY <1>0 DEF TypeCatalogue, LignesPromotion, InvCatalogue, PromotionSure
(* A promotion that writes neither a row nor an object. *)
<1>2. ASSUME NEW y \in LignesPromotion \cup {Rien}, Retenir(p, y), UNCHANGED <<ligne, objets>>,
             y # Rien /\ (y.etape = "cle" \/ y.cle # Rien) => y.cle.espace = "lots"
      PROVE  PasCatalogue
  BY <1>1, <1>2, Inchange, PromotionAvance
<1>3. ASSUME NEW f \in Fichiers, p = "depot" /\ lire_depot(f) PROVE PasCatalogue
  <2>1. PICK y : y = [fichier |-> f, octets |-> disque[f].octets, cle |-> Rien, etape |-> "lu"]
    OBVIOUS
  <2>2. disque[f].octets \in Octets
    BY <1>0, <1>3 DEF lire_depot, Present, TypeCatalogue, Copies
  <2>3. y \in LignesPromotion /\ y.cle = Rien /\ y.etape # "cle"
    BY <2>1, <2>2 DEF LignesPromotion
  <2> QED BY <1>2, <1>3, <2>1, <2>3 DEF lire_depot
<1>4. ASSUME NEW f \in Fichiers, p = "reprise" /\ promouvoir_en_attente(f) PROVE PasCatalogue
  <2>1. PICK y : y = [fichier |-> f, octets |-> Rien, cle |-> Rien, etape |-> "a_promouvoir"]
    OBVIOUS
  <2>2. y \in LignesPromotion /\ y.cle = Rien /\ y.etape # "cle"
    BY <2>1 DEF LignesPromotion
  <2> QED BY <1>2, <1>4, <2>1, <2>2 DEF promouvoir_en_attente
<1>5. CASE choisir_cle(p)
  <2>1. x # Rien /\ Libres(x.fichier, "lots") # {}
    BY <1>5 DEF choisir_cle, Fait
  <2>2. PICK c \in Cles : c = first_free_key(x.fichier, "lots") /\ c.espace = "lots"
    BY <1>0, <1>1, <2>1, PremiereLibre
  <2>3. PICK y : y = [x EXCEPT !.etape = "cle", !.cle = c]
    OBVIOUS
  <2>4. y \in LignesPromotion /\ y.cle = c
    BY <1>1, <2>1, <2>3 DEF LignesPromotion
  <2>5. Retenir(p, y) /\ UNCHANGED <<ligne, objets>>
    BY <1>5, <2>2, <2>3 DEF choisir_cle
  <2> QED BY <1>2, <2>2, <2>4, <2>5
<1>6. CASE ecrire_objet(p)
  <2>1. x # Rien /\ Present(x.fichier)
    BY <1>6 DEF ecrire_objet, Fait
  <2>2. disque[x.fichier].octets \in Octets
    BY <1>0, <1>1, <2>1 DEF Present, TypeCatalogue, Copies
  <2>3. objets' = [objets EXCEPT ![x.cle] = disque[x.fichier].octets] /\ UNCHANGED ligne
    BY <1>6 DEF ecrire_objet
  <2>4. /\ objets' \in [Cles -> Octets \cup {Rien}]
        /\ \A c \in Cles : c # x.cle => objets'[c] = objets[c]
    BY <1>1, <2>2, <2>3
  <2>5. \A c \in Cles : c.espace # "lots" => objets'[c] = objets[c]
    BY <1>1, <1>6, <2>1, <2>4 DEF ecrire_objet, Fait
  <2>6. PICK y : y = [x EXCEPT !.etape = "envoye"]
    OBVIOUS
  <2>7. y \in LignesPromotion /\ y.cle = x.cle /\ y.etape = "envoye"
    BY <1>1, <2>1, <2>6 DEF LignesPromotion
  <2>8. Retenir(p, y)
    BY <1>6, <2>6 DEF ecrire_objet
  <2> QED BY <1>1, <2>1, <2>3, <2>4, <2>5, <2>7, <2>8, Inchange, PromotionAvance
<1>7. CASE relire_promotion(p)
  <2>1. x # Rien
    BY <1>7 DEF relire_promotion, Fait
  <2>2. PICK c \in {x.cle, Rien} : Retenir(p, [x EXCEPT !.etape = "relu", !.cle = c])
    BY <1>7 DEF relire_promotion
  <2>3. PICK y : y = [x EXCEPT !.etape = "relu", !.cle = c]
    OBVIOUS
  <2>4. y \in LignesPromotion /\ y.cle = c /\ y.etape = "relu"
    BY <1>1, <2>1, <2>3 DEF LignesPromotion
  <2> QED BY <1>1, <1>2, <1>7, <2>1, <2>2, <2>3, <2>4 DEF relire_promotion
<1>8. CASE echec_promotion(p)
  <2>1. x # Rien
    BY <1>8 DEF echec_promotion
  <2>2. PICK y : y = [x EXCEPT !.etape = "relu", !.cle = Rien]
    OBVIOUS
  <2>3. y \in LignesPromotion /\ y.cle = Rien /\ y.etape # "cle"
    BY <1>1, <2>1, <2>2 DEF LignesPromotion
  <2> QED BY <1>2, <1>8, <2>2, <2>3 DEF echec_promotion
<1>9. CASE maj_document(p)
  <2>1. x # Rien /\ Retenir(p, Rien) /\ UNCHANGED objets
    BY <1>9 DEF maj_document, Fait
  <2>2. PICK e : e = (x.cle # Rien)
    OBVIOUS
  <2>3. PICK a : a = [ligne[x.fichier] EXCEPT !.cle = x.cle, !.envoye = e]
    OBVIOUS
  <2>4. ligne[x.fichier] # Rien =>
          a \in LignesCatalogue /\ a.sha = ligne[x.fichier].sha /\ a.fiche = ligne[x.fichier].fiche
    BY <1>1, <2>1, <2>2, <2>3 DEF LignesCatalogue
  <2>5. ligne[x.fichier] # Rien => a # Rien
    BY <2>4, HypCatalogue
  <2>6. ligne' = IF ligne[x.fichier] = Rien THEN ligne ELSE [ligne EXCEPT ![x.fichier] = a]
    BY <1>1, <1>9, <2>1, <2>2, <2>3 DEF maj_document
  <2>7. /\ ligne' \in [Fichiers -> LignesCatalogue \cup {Rien}]
        /\ \A f \in Fichiers : \/ ligne'[f] = ligne[f]
                               \/ f = x.fichier /\ ligne[f] # Rien /\ ligne'[f] = a
    BY <1>1, <2>1, <2>4, <2>6
  <2>8. RangeesGardees
    BY <2>4, <2>5, <2>7 DEF RangeesGardees
  <2> QED BY <1>1, <2>1, <2>7, <2>8, PromotionAvance
<1>10. CASE mort_promotion(p)
  BY <1>2, <1>10 DEF mort_promotion
<1>11. ASSUME NEW f \in Fichiers, p = "depot" /\ deposer(f) PROVE PasCatalogue
  BY <1>11, UnDepot
<1> QED BY <1>3, <1>4, <1>5, <1>6, <1>7, <1>8, <1>9, <1>10, <1>11 DEF NextPromotion

----------------------------------------------------------------------------
(* Readers.                                                                 *)

(* What published imports captured of a file is the identity of its row.    *)
LEMMA IdentiteCapturee ==
  ASSUME InvCatalogue, NEW f \in Fichiers, NEW s \in Captures(f)
  PROVE  s # Rien /\ s = ligne[f].sha
<1>1. PICK i \in Imports : /\ Publie(i) /\ imports[i].fichier = f /\ ~imports[i].conflit
                           /\ ~ligne[f].fiche /\ s = imports[i].sha
  BY DEF Captures
<1>2. ImportSur(i) /\ imports[i].sha # Rien
  BY <1>1, ImportConnu DEF Publie
<1> QED BY <1>1, <1>2 DEF Publie, ImportSur

LEMMA LectureCommencee ==
  ASSUME NEW f, NEW sha, NEW cle, NEW captures, NEW places,
         CommencerLecture(f, sha, cle, captures, places),
         \A s \in captures : s # Rien /\ s = sha
  PROVE  InvPieces' /\ UNCHANGED varsCatalogue
BY DEF CommencerLecture, SuiteOuverture, InvPieces

LEMMA UneReponse ==
  ASSUME InvPieces, ouverture # Rien, NEW o, Servir(o)
  PROVE  InvPieces' /\ UNCHANGED varsCatalogue
<1>1. CASE Convient(o)
  <2>1. PICK y : y = [ouverture EXCEPT !.places = <<>>, !.etape = "servi", !.servi = o]
    OBVIOUS
  <2>2. ouverture' = y /\ UNCHANGED varsCatalogue
    BY <1>1, <2>1 DEF Servir, SuiteOuverture
  <2>3. y = [fichier |-> ouverture.fichier, sha |-> ouverture.sha, cle |-> ouverture.cle,
             captures |-> ouverture.captures, places |-> <<>>, etape |-> "servi", servi |-> o]
    BY <2>1 DEF InvPieces
  <2> QED BY <1>1, <2>2, <2>3 DEF InvPieces, Convient
<1>2. CASE ~Convient(o)
  <2>1. PICK t : t = Tail(ouverture.places)
    OBVIOUS
  <2>2. PICK y : y = [ouverture EXCEPT !.places = t]
    OBVIOUS
  <2>3. ouverture' = y /\ UNCHANGED varsCatalogue
    BY <1>2, <2>1, <2>2 DEF Servir, SuiteOuverture, InvPieces
  <2>4. y = [fichier |-> ouverture.fichier, sha |-> ouverture.sha, cle |-> ouverture.cle,
             captures |-> ouverture.captures, places |-> t, etape |-> ouverture.etape,
             servi |-> ouverture.servi]
    BY <2>2 DEF InvPieces
  <2> QED BY <2>3, <2>4 DEF InvPieces
<1> QED BY <1>1, <1>2

LEMMA UnPasDeLecteur ==
  ASSUME InvCatalogue, InvPieces, NextPieces
  PROVE  PasCatalogue /\ InvPieces'
<1>0. TypeCatalogue
  BY DEF InvCatalogue
<1>1. ASSUME NEW f \in Fichiers, document_fiche_par_chemin(f) PROVE PasCatalogue /\ InvPieces'
  <2>1. PICK a : a = [date |-> disque[f].date, texte |-> Rien, sha |-> Rien, hash |-> Rien,
                      cle |-> Rien, envoye |-> FALSE, fiche |-> TRUE]
    OBVIOUS
  <2>2. disque[f].date \in Nat
    BY <1>0, <1>1 DEF document_fiche_par_chemin, Present, TypeCatalogue, Copies
  <2>3. a \in LignesCatalogue
    BY <2>1, <2>2 DEF LignesCatalogue
  <2>4. /\ ligne' = [ligne EXCEPT ![f] = a] /\ ligne[f] = Rien
        /\ UNCHANGED <<disque, horloge, pertes, objets, balayage, imports, promotions, ouverture>>
    BY <1>1, <2>1 DEF document_fiche_par_chemin
  <2>5. /\ ligne' \in [Fichiers -> LignesCatalogue \cup {Rien}]
        /\ \A g \in Fichiers : ligne[g] # Rien => ligne'[g] = ligne[g]
    BY <1>0, <2>3, <2>4 DEF TypeCatalogue
  <2>6. RangeesGardees
    BY <2>5 DEF RangeesGardees
  <2>7. \A p \in Promoteurs : PromotionSure(p)'
    BY <2>4 DEF InvCatalogue, PromotionSure
  <2>8. InvPieces'
    BY <2>4 DEF InvPieces
  <2> QED BY <1>0, <2>4, <2>5, <2>6, <2>7, <2>8, RienQueLesRangees DEF TypeCatalogue
<1>2. ASSUME InvPieces', UNCHANGED varsCatalogue PROVE PasCatalogue /\ InvPieces'
  <2>1. UNCHANGED <<disque, horloge, pertes, ligne, objets, balayage, imports, promotions>>
    BY <1>2 DEF varsCatalogue
  <2>2. \A p \in Promoteurs : PromotionSure(p)'
    BY <2>1 DEF InvCatalogue, PromotionSure
  <2> QED BY <1>0, <1>2, <2>1, <2>2, Inchange, RienQueLesRangees DEF TypeCatalogue
<1>3. ASSUME NEW f \in Fichiers, charger_document(f) \/ open_path(f)
      PROVE  InvPieces' /\ UNCHANGED varsCatalogue
  BY <1>3, IdentiteCapturee, LectureCommencee DEF charger_document, open_path
<1>4. ASSUME NEW i \in Imports, get_import_artifact(i) PROVE InvPieces' /\ UNCHANGED varsCatalogue
  BY <1>4, ImportConnu, LectureCommencee DEF get_import_artifact, Publie
<1>5. CASE servir_local
  BY <1>2, <1>5, UneReponse DEF servir_local, EnPlace
<1>6. CASE servir_objet
  BY <1>2, <1>6, UneReponse DEF servir_objet, EnPlace
<1>7. CASE suivre_renvoi
  <2>1. PICK o : o = objets[ouverture.cle]
    OBVIOUS
  <2>2. PICK y : y = [ouverture EXCEPT !.places = <<>>, !.etape = "suivi", !.servi = o]
    OBVIOUS
  <2>3. ouverture' = y /\ UNCHANGED varsCatalogue /\ ouverture # Rien
    BY <1>7, <2>1, <2>2 DEF suivre_renvoi, SuiteOuverture, EnPlace
  <2>4. y = [fichier |-> ouverture.fichier, sha |-> ouverture.sha, cle |-> ouverture.cle,
             captures |-> ouverture.captures, places |-> <<>>, etape |-> "suivi", servi |-> o]
    BY <2>2, <2>3 DEF InvPieces
  <2>5. InvPieces'
    BY <2>3, <2>4 DEF InvPieces
  <2> QED BY <1>2, <2>3, <2>5
<1>8. CASE fermer_reponse
  <2>1. InvPieces' /\ UNCHANGED varsCatalogue
    BY <1>8 DEF fermer_reponse, SuiteOuverture, InvPieces
  <2> QED BY <1>2, <2>1
<1> QED BY <1>1, <1>2, <1>3, <1>4, <1>5, <1>6, <1>7, <1>8 DEF NextPieces
----------------------------------------------------------------------------
(* Backups.                                                                 *)

LEMMA SansCatalogue ==
  ASSUME InvCatalogue, UNCHANGED varsCatalogue
  PROVE  PasCatalogue
<1>1. UNCHANGED <<disque, horloge, pertes, ligne, objets, balayage, imports, promotions>>
  BY DEF varsCatalogue
<1>2. (\A p \in Promoteurs : PromotionSure(p)') /\ TypeCatalogue
  BY <1>1 DEF InvCatalogue, PromotionSure
<1> QED BY <1>1, <1>2, Inchange, RienQueLesRangees DEF TypeCatalogue

(* What the others write while a backup copies files.                       *)
LEMMA SauvegardePendant ==
  ASSUME InvCatalogue, InvSauvegarde, UNCHANGED varsSauvegarde, DatesAvancent, InvCatalogue'
  PROVE  InvSauvegarde'
<1>1. UNCHANGED <<sauvegarde, manifeste, bundle, restauration, seau>>
  BY DEF varsSauvegarde
<1>2. TypeSauvegarde' /\ PerimetreTenu' /\ RestaurationSure'
  BY <1>1 DEF InvSauvegarde, TypeSauvegarde, PerimetreTenu, RestaurationSure
<1>3. ASSUME sauvegarde # Rien, NEW f \in Fichiers, CopieDatee(f) PROVE CopieDatee(f)'
  <2>1. sauvegarde.copies[f] # Rien => sauvegarde.copies[f].date \in Nat
    BY <1>3 DEF InvSauvegarde, TypeSauvegarde, Sauvegardes, Releves, Copies
  <2>2. horloge \in Nat /\ horloge' \in Nat /\ horloge <= horloge'
    BY DEF InvCatalogue, TypeCatalogue, DatesAvancent
  <2>3. disque'[f] = disque[f] \/ disque'[f] = Rien \/ disque'[f].date > horloge
    BY DEF DatesAvancent
  <2>4. disque'[f] # Rien => disque'[f].date \in Nat
    BY DEF InvCatalogue, TypeCatalogue, Copies
  <2>5. sauvegarde.copies[f] # Rien => sauvegarde.copies[f].date <= horloge
    BY <1>3 DEF CopieDatee
  <2>6. CASE disque'[f] = disque[f]
    BY <1>1, <1>3, <2>1, <2>2, <2>5, <2>6 DEF CopieDatee
  <2>7. CASE disque'[f] # disque[f]
    BY <1>1, <2>1, <2>2, <2>3, <2>4, <2>5, <2>7 DEF CopieDatee
  <2> QED BY <2>6, <2>7
<1>4. ASSUME NEW f \in Fichiers
      PROVE  (FichierVu(f) => FichierVu(f)') /\ (ObjetVu(f) => ObjetVu(f)')
             /\ (SansDerive(f) => SansDerive(f)')
  BY <1>1 DEF FichierVu, ObjetVu, SansDerive
<1>5. SauvegardeSure'
  BY <1>1, <1>3, <1>4 DEF InvSauvegarde, SauvegardeSure
<1> QED BY <1>2, <1>5 DEF InvSauvegarde

(* A step of the backup alone.                                              *)
LEMMA UneSauvegardeTenue ==
  ASSUME InvSauvegarde, NEW s \in Sauvegardes \cup {Rien}, Tenir(s), SauvegardeSure'
  PROVE  InvSauvegarde' /\ UNCHANGED varsCatalogue
BY DEF Tenir, InvSauvegarde, TypeSauvegarde, PerimetreTenu, RestaurationSure

LEMMA UnInstantane ==
  ASSUME InvCatalogue, InvSauvegarde, prendre_instantane
  PROVE  InvSauvegarde' /\ UNCHANGED varsCatalogue
<1>1. PICK v : v = Vide
  OBVIOUS
<1>2. /\ v \in Releves(Copies) /\ v \in Releves(Octets) /\ v = Vide
      /\ \A f \in Fichiers : v[f] = Rien
  BY <1>1 DEF Vide, Releves
<1>3. PICK s : s = [etape |-> "fichiers", lignes |-> ligne, reste |-> Fichiers, copies |-> v,
                    manquants |-> {}, derive |-> {}, objets |-> v, temoin |-> v]
  OBVIOUS
<1>4. ligne \in Releves(LignesCatalogue)
  BY DEF InvCatalogue, TypeCatalogue, Releves
<1>5. s \in Sauvegardes
  BY <1>2, <1>3, <1>4 DEF Sauvegardes
<1>6. Tenir(s) /\ manifeste = Rien
  BY <1>1, <1>3 DEF prendre_instantane
<1>7. restauration = Rien
  BY <1>6 DEF InvSauvegarde, RestaurationSure
<1>8. sauvegarde' = s /\ UNCHANGED <<manifeste, restauration>>
  BY <1>6 DEF Tenir
<1>9. s.etape = "fichiers" /\ s.objets = v /\ s.copies = v /\ s.reste = Fichiers
  BY <1>3
<1>10. SauvegardeSure'
  BY <1>2, <1>6, <1>7, <1>8, <1>9 DEF SauvegardeSure, CopieDatee, Vide
<1> QED BY <1>5, <1>6, <1>10, UneSauvegardeTenue

LEMMA UneCopieDeFichier ==
  ASSUME InvCatalogue, InvSauvegarde, NEW f \in Fichiers, copier_fichiers_locaux(f)
  PROVE  InvSauvegarde' /\ UNCHANGED varsCatalogue
<1> DEFINE s == sauvegarde
           l == s.lignes[f]
<1>1. /\ s # Rien /\ s \in Sauvegardes /\ s.etape = "fichiers" /\ f \in s.reste
      /\ manifeste = Rien /\ restauration = Rien /\ s.objets = Vide
      /\ \A g \in Fichiers : CopieDatee(g)
      /\ \A g \in Fichiers : IF g \in s.reste THEN s.copies[g] = Rien ELSE FichierVu(g)
  BY DEF copier_fichiers_locaux, EnCours, InvSauvegarde, TypeSauvegarde, SauvegardeSure
<1>2. /\ s.lignes \in Releves(LignesCatalogue) /\ s.reste \in SUBSET Fichiers
      /\ s.copies \in Releves(Copies) /\ s.manquants \in SUBSET Fichiers
  BY <1>1 DEF Sauvegardes
(* What is kept of the file: nothing, that it is missed, or a copy.          *)
<1>3. ASSUME NEW copies \in Releves(Copies), NEW manquants \in SUBSET Fichiers, NEW t,
             t = [s EXCEPT !.reste = @ \ {f}, !.copies = copies, !.manquants = manquants],
             Tenir(t),
             \A g \in Fichiers : g # f => copies[g] = s.copies[g],
             copies[f] # Rien => copies[f] \in {s.copies[f], disque[f]},
             s.manquants \subseteq manquants,
             l # Rien /\ f \notin manquants =>
               /\ copies[f] = Rien => l.cle # Rien
               /\ l.sha # Rien /\ copies[f] # Rien => copies[f].octets = l.sha
      PROVE  InvSauvegarde' /\ UNCHANGED varsCatalogue
  <2>1. /\ t \in Sauvegardes
        /\ t.reste = s.reste \ {f} /\ t.copies = copies /\ t.manquants = manquants
        /\ t.etape = "fichiers" /\ t.lignes = s.lignes /\ t.objets = Vide
    BY <1>1, <1>2, <1>3 DEF Sauvegardes
  <2>2. sauvegarde' = t /\ UNCHANGED <<manifeste, restauration>> /\ UNCHANGED <<disque, horloge>>
    BY <1>3 DEF Tenir, varsCatalogue
  <2>3. ASSUME NEW g \in Fichiers PROVE CopieDatee(g)'
    <3>1. CASE copies[g] = s.copies[g]
      BY <1>1, <2>1, <2>2, <3>1 DEF CopieDatee
    <3>2. CASE copies[g] # Rien /\ copies[g] = disque[g]
      BY <2>1, <2>2, <3>2 DEF CopieDatee, InvCatalogue, Datee
    <3>3. CASE copies[g] = Rien
      BY <2>1, <2>2, <3>3 DEF CopieDatee
    <3> QED BY <1>3, <3>1, <3>2, <3>3
  <2>4. ASSUME NEW g \in Fichiers
        PROVE  IF g \in t.reste THEN copies[g] = Rien ELSE FichierVu(g)'
    <3>1. CASE g = f
      BY <1>3, <2>1, <2>2, <3>1 DEF FichierVu
    <3>2. CASE g # f
      <4>1. (IF g \in t.reste THEN s.copies[g] = Rien ELSE FichierVu(g)) /\ copies[g] = s.copies[g]
        BY <1>1, <1>3, <2>1, <3>2
      <4> QED BY <1>3, <2>1, <2>2, <4>1 DEF FichierVu
    <3> QED BY <3>1, <3>2
  <2>5. SauvegardeSure'
    BY <1>1, <2>1, <2>2, <2>3, <2>4 DEF SauvegardeSure
  <2> QED BY <1>3, <2>1, <2>5, UneSauvegardeTenue
<1>4. PICK suite : suite = [s EXCEPT !.reste = @ \ {f}]
  OBVIOUS
<1>5. CASE l = Rien \/ (~Present(f) /\ l.cle # Rien)
  <2>1. Tenir(suite)
    BY <1>4, <1>5 DEF copier_fichiers_locaux
  <2>2. suite = [s EXCEPT !.reste = @ \ {f}, !.copies = s.copies, !.manquants = s.manquants]
    BY <1>1, <1>4 DEF Sauvegardes
  <2>3. l # Rien /\ f \notin s.manquants =>
          /\ s.copies[f] = Rien => l.cle # Rien
          /\ l.sha # Rien /\ s.copies[f] # Rien => s.copies[f].octets = l.sha
    BY <1>1, <1>5
  <2> QED BY <1>2, <1>3, <2>1, <2>2, <2>3
<1>6. CASE /\ ~(l = Rien \/ (~Present(f) /\ l.cle # Rien))
           /\ ~Present(f) \/ ContreditIdentite(l, disque[f].octets)
  <2>1. Tenir([suite EXCEPT !.manquants = @ \cup {f}])
    BY <1>4, <1>6 DEF copier_fichiers_locaux
  <2>2. PICK m : m = s.manquants \cup {f}
    OBVIOUS
  <2>3. m \in SUBSET Fichiers /\ f \in m /\ s.manquants \subseteq m
    BY <1>2, <2>2
  <2>4. [suite EXCEPT !.manquants = @ \cup {f}]
          = [s EXCEPT !.reste = @ \ {f}, !.copies = s.copies, !.manquants = m]
    BY <1>1, <1>4, <2>2 DEF Sauvegardes
  <2> QED BY <1>2, <1>3, <2>1, <2>3, <2>4
<1>7. CASE /\ ~(l = Rien \/ (~Present(f) /\ l.cle # Rien))
           /\ ~(~Present(f) \/ ContreditIdentite(l, disque[f].octets))
  <2>1. Tenir([suite EXCEPT !.copies[f] = disque[f]])
    BY <1>4, <1>7 DEF copier_fichiers_locaux
  <2>2. PICK c : c = [s.copies EXCEPT ![f] = disque[f]]
    OBVIOUS
  <2>3. disque[f] \in Copies
    BY <1>7 DEF Present, InvCatalogue, TypeCatalogue
  <2>4. c \in Releves(Copies) /\ c[f] = disque[f] /\ \A g \in Fichiers : g # f => c[g] = s.copies[g]
    BY <1>2, <2>2, <2>3 DEF Releves
  <2>5. [suite EXCEPT !.copies[f] = disque[f]]
          = [s EXCEPT !.reste = @ \ {f}, !.copies = c, !.manquants = s.manquants]
    BY <1>1, <1>4, <2>2 DEF Sauvegardes
  <2>6. l # Rien /\ f \notin s.manquants =>
          /\ c[f] = Rien => l.cle # Rien
          /\ l.sha # Rien /\ c[f] # Rien => c[f].octets = l.sha
    BY <1>7, <2>4 DEF ContreditIdentite, Present
  <2> QED BY <1>2, <1>3, <2>1, <2>4, <2>5, <2>6
<1> QED BY <1>5, <1>6, <1>7

LEMMA UnDump ==
  ASSUME InvCatalogue, InvSauvegarde, pg_dump
  PROVE  InvSauvegarde' /\ UNCHANGED varsCatalogue
<1> DEFINE s == sauvegarde
<1>1. /\ s # Rien /\ s \in Sauvegardes /\ s.etape = "fichiers" /\ s.reste = {}
      /\ manifeste = Rien /\ restauration = Rien /\ s.objets = Vide
      /\ \A g \in Fichiers : CopieDatee(g) /\ FichierVu(g)
  BY DEF pg_dump, EnCours, InvSauvegarde, TypeSauvegarde, SauvegardeSure
<1>2. PICK d : d = DeriveLocale(s.copies)
  OBVIOUS
<1>3. PICK t : t = [s EXCEPT !.etape = "objets", !.reste = Fichiers, !.derive = d, !.temoin = disque]
  OBVIOUS
<1>4. /\ d \in SUBSET Fichiers
      /\ \A f \in Fichiers : s.copies[f] # Rien /\ f \notin d =>
           disque[f] # Rien /\ disque[f].date = s.copies[f].date
  BY <1>2 DEF DeriveLocale, Present
<1>5. disque \in Releves(Copies)
  BY DEF InvCatalogue, TypeCatalogue, Releves
<1>6. /\ t \in Sauvegardes /\ t.etape = "objets" /\ t.reste = Fichiers /\ t.derive = d
      /\ t.temoin = disque /\ t.copies = s.copies /\ t.lignes = s.lignes
      /\ t.manquants = s.manquants /\ t.objets = Vide
  BY <1>1, <1>3, <1>4, <1>5 DEF Sauvegardes
<1>7. Tenir(t)
  BY <1>2, <1>3 DEF pg_dump
<1>8. sauvegarde' = t /\ UNCHANGED <<manifeste, restauration>>
  BY <1>7 DEF Tenir
<1>9. ASSUME NEW f \in Fichiers PROVE FichierVu(f)' /\ SansDerive(f)'
  BY <1>1, <1>4, <1>6, <1>8 DEF FichierVu, SansDerive, CopieDatee
<1>10. SauvegardeSure'
  <2>1. \A f \in Fichiers : t.objets[f] = Rien
    BY <1>6 DEF Vide
  <2> QED BY <1>1, <1>6, <1>8, <1>9, <2>1 DEF SauvegardeSure
<1> QED BY <1>6, <1>7, <1>10, UneSauvegardeTenue

LEMMA UneCopieDObjet ==
  ASSUME InvCatalogue, InvSauvegarde, NEW f \in Fichiers, copier_objets_s3(f)
  PROVE  InvSauvegarde' /\ UNCHANGED varsCatalogue
<1> DEFINE s == sauvegarde
           l == s.lignes[f]
<1>1. /\ s # Rien /\ s \in Sauvegardes /\ s.etape = "objets" /\ f \in s.reste
      /\ manifeste = Rien /\ restauration = Rien
      /\ \A g \in Fichiers : SansDerive(g) /\ FichierVu(g)
      /\ \A g \in Fichiers : IF g \in s.reste THEN s.objets[g] = Rien ELSE ObjetVu(g)
  BY DEF copier_objets_s3, EnCours, InvSauvegarde, TypeSauvegarde, SauvegardeSure
<1>2. /\ s.lignes \in Releves(LignesCatalogue) /\ s.reste \in SUBSET Fichiers
      /\ s.objets \in Releves(Octets) /\ s.manquants \in SUBSET Fichiers
  BY <1>1 DEF Sauvegardes
<1>3. ASSUME NEW copies \in Releves(Octets), NEW manquants \in SUBSET Fichiers, NEW t,
             t = [s EXCEPT !.reste = @ \ {f}, !.objets = copies, !.manquants = manquants],
             Tenir(t),
             \A g \in Fichiers : g # f => copies[g] = s.objets[g],
             s.manquants \subseteq manquants,
             l # Rien /\ f \notin manquants =>
               /\ l.cle # Rien => copies[f] # Rien
               /\ l.sha # Rien => copies[f] \in {Rien, l.sha}
      PROVE  InvSauvegarde' /\ UNCHANGED varsCatalogue
  <2>1. /\ t \in Sauvegardes
        /\ t.reste = s.reste \ {f} /\ t.copies = s.copies /\ t.manquants = manquants
        /\ t.etape = "objets" /\ t.lignes = s.lignes /\ t.objets = copies
        /\ t.derive = s.derive /\ t.temoin = s.temoin
    BY <1>1, <1>2, <1>3 DEF Sauvegardes
  <2>2. sauvegarde' = t /\ UNCHANGED <<manifeste, restauration>>
    BY <1>3 DEF Tenir
  <2>3. ASSUME NEW g \in Fichiers PROVE SansDerive(g)' /\ FichierVu(g)'
    BY <1>1, <1>3, <2>1, <2>2 DEF SansDerive, FichierVu
  <2>4. ASSUME NEW g \in Fichiers
        PROVE  IF g \in t.reste THEN copies[g] = Rien ELSE ObjetVu(g)'
    <3>1. CASE g = f
      BY <1>3, <2>1, <2>2, <3>1 DEF ObjetVu
    <3>2. CASE g # f
      <4>1. (IF g \in t.reste THEN s.objets[g] = Rien ELSE ObjetVu(g)) /\ copies[g] = s.objets[g]
        BY <1>1, <1>3, <2>1, <3>2
      <4> QED BY <1>3, <2>1, <2>2, <4>1 DEF ObjetVu
    <3> QED BY <3>1, <3>2
  <2>5. SauvegardeSure'
    BY <1>1, <2>1, <2>2, <2>3, <2>4 DEF SauvegardeSure
  <2> QED BY <1>3, <2>1, <2>5, UneSauvegardeTenue
<1>4. PICK suite : suite = [s EXCEPT !.reste = @ \ {f}]
  OBVIOUS
<1>5. CASE l = Rien \/ l.cle = Rien
  <2>1. Tenir(suite)
    BY <1>4, <1>5 DEF copier_objets_s3
  <2>2. suite = [s EXCEPT !.reste = @ \ {f}, !.objets = s.objets, !.manquants = s.manquants]
    BY <1>1, <1>4 DEF Sauvegardes
  <2>3. s.objets[f] = Rien
    BY <1>1
  <2> QED BY <1>2, <1>3, <1>5, <2>1, <2>2, <2>3
<1>6. CASE /\ ~(l = Rien \/ l.cle = Rien)
           /\ objets[l.cle] = Rien \/ ContreditIdentite(l, objets[l.cle])
  <2>1. Tenir([suite EXCEPT !.manquants = @ \cup {f}])
    BY <1>4, <1>6 DEF copier_objets_s3
  <2>2. PICK m : m = s.manquants \cup {f}
    OBVIOUS
  <2>3. m \in SUBSET Fichiers /\ f \in m /\ s.manquants \subseteq m
    BY <1>2, <2>2
  <2>4. [suite EXCEPT !.manquants = @ \cup {f}]
          = [s EXCEPT !.reste = @ \ {f}, !.objets = s.objets, !.manquants = m]
    BY <1>1, <1>4, <2>2 DEF Sauvegardes
  <2> QED BY <1>2, <1>3, <2>1, <2>3, <2>4
<1>7. CASE /\ ~(l = Rien \/ l.cle = Rien)
           /\ ~(objets[l.cle] = Rien \/ ContreditIdentite(l, objets[l.cle]))
  <2>1. PICK o : o = objets[l.cle]
    OBVIOUS
  <2>2. Tenir([suite EXCEPT !.objets[f] = o])
    BY <1>4, <1>7, <2>1 DEF copier_objets_s3
  <2>3. PICK c : c = [s.objets EXCEPT ![f] = o]
    OBVIOUS
  <2>4. l \in LignesCatalogue /\ l.cle \in Cles
    BY <1>2, <1>7 DEF Releves, LignesCatalogue
  <2>5. o \in Octets
    BY <1>7, <2>1, <2>4 DEF InvCatalogue, TypeCatalogue
  <2>6. c \in Releves(Octets) /\ c[f] = o /\ \A g \in Fichiers : g # f => c[g] = s.objets[g]
    BY <1>2, <2>3, <2>5 DEF Releves
  <2>7. [suite EXCEPT !.objets[f] = o]
          = [s EXCEPT !.reste = @ \ {f}, !.objets = c, !.manquants = s.manquants]
    BY <1>1, <1>4, <2>3 DEF Sauvegardes
  <2>8. l # Rien /\ f \notin s.manquants =>
          /\ l.cle # Rien => c[f] # Rien
          /\ l.sha # Rien => c[f] \in {Rien, l.sha}
    BY <1>7, <2>1, <2>6 DEF ContreditIdentite
  <2> QED BY <1>2, <1>3, <2>2, <2>6, <2>7, <2>8
<1> QED BY <1>5, <1>6, <1>7
(* A perimeter is only declared when nothing was missed and nothing moved.  *)
LEMMA UnManifeste ==
  ASSUME InvCatalogue, InvSauvegarde, ecrire_manifeste
  PROVE  InvSauvegarde' /\ UNCHANGED varsCatalogue
<1> DEFINE s == sauvegarde
<1>1. /\ s # Rien /\ s \in Sauvegardes /\ s.etape = "objets" /\ s.reste = {}
      /\ manifeste = Rien /\ restauration = Rien
      /\ \A g \in Fichiers : SansDerive(g) /\ FichierVu(g) /\ ObjetVu(g)
  BY DEF ecrire_manifeste, EnCours, InvSauvegarde, TypeSauvegarde, SauvegardeSure
<1>2. PICK o : o = [f \in Fichiers |-> IF s.copies[f] = Rien THEN Rien ELSE s.copies[f].octets]
  OBVIOUS
<1>3. /\ s.lignes \in Releves(LignesCatalogue) /\ s.copies \in Releves(Copies)
      /\ s.objets \in Releves(Octets) /\ s.manquants \in SUBSET Fichiers
      /\ s.temoin \in Releves(Copies) /\ s.derive \in SUBSET Fichiers
  BY <1>1 DEF Sauvegardes
<1>4. /\ o \in Releves(Octets)
      /\ \A f \in Fichiers : o[f] = IF s.copies[f] = Rien THEN Rien ELSE s.copies[f].octets
  BY <1>2, <1>3 DEF Releves, Copies
<1>5. PICK p \in BOOLEAN : p = PerimetreComplet(s)
  BY DEF PerimetreComplet
<1>6. PICK m : m = [lignes |-> s.lignes, fichiers |-> o, objets |-> s.objets,
                    manquants |-> s.manquants, temoin |-> s.temoin,
                    perimetre |-> p, complet |-> FALSE]
  OBVIOUS
<1>7. m \in Manifestes
  BY <1>3, <1>4, <1>6 DEF Manifestes, Copies
<1>8. /\ m.lignes = s.lignes /\ m.fichiers = o /\ m.objets = s.objets /\ m.temoin = s.temoin
      /\ m.perimetre = p
  BY <1>6
<1>9. /\ manifeste' = m /\ sauvegarde' = Rien /\ bundle' = [fichiers |-> o, objets |-> s.objets]
      /\ UNCHANGED <<restauration, seau>> /\ UNCHANGED varsCatalogue
  BY <1>2, <1>5, <1>6 DEF ecrire_manifeste
<1>10. bundle' \in [fichiers : Gardes, objets : Gardes]
  BY <1>3, <1>4, <1>9 DEF Gardes, Releves
<1>11. TypeSauvegarde'
  BY <1>7, <1>9, <1>10 DEF InvSauvegarde, TypeSauvegarde
<1>12. SauvegardeSure' /\ RestaurationSure'
  BY <1>1, <1>9 DEF SauvegardeSure, RestaurationSure
<1>13. ASSUME p = TRUE, NEW f \in Fichiers, s.lignes[f] # Rien
       PROVE  /\ o[f] # Rien \/ s.objets[f] # Rien
              /\ s.lignes[f].cle # Rien => s.objets[f] # Rien
              /\ s.lignes[f].sha # Rien => {o[f], s.objets[f]} \subseteq {Rien, s.lignes[f].sha}
              /\ o[f] # Rien => s.temoin[f] # Rien /\ s.temoin[f].octets = o[f]
  <2>1. f \notin s.manquants /\ f \notin s.derive
    BY <1>5, <1>13 DEF PerimetreComplet
  <2>2. FichierVu(f) /\ ObjetVu(f) /\ SansDerive(f)
    BY <1>1
  <2>3. s.copies[f] # Rien => o[f] = s.copies[f].octets /\ s.copies[f].octets # Rien
    BY <1>3, <1>4, HypCatalogue DEF Releves, Copies
  <2>4. s.copies[f] = Rien => o[f] = Rien
    BY <1>4
  <2>5. s.lignes[f].cle # Rien => s.objets[f] # Rien
    BY <1>13, <2>1, <2>2 DEF ObjetVu
  <2>6. o[f] # Rien \/ s.objets[f] # Rien
    BY <1>13, <2>1, <2>2, <2>3, <2>5 DEF FichierVu
  <2>7. s.lignes[f].sha # Rien => {o[f], s.objets[f]} \subseteq {Rien, s.lignes[f].sha}
    BY <1>13, <2>1, <2>2, <2>3, <2>4 DEF FichierVu, ObjetVu
  <2>8. o[f] # Rien => s.temoin[f] # Rien /\ s.temoin[f].octets = o[f]
    BY <2>1, <2>2, <2>3, <2>4 DEF SansDerive
  <2> QED BY <2>5, <2>6, <2>7, <2>8
<1>14. PerimetreTenu'
  BY <1>8, <1>9, <1>13 DEF PerimetreTenu
<1> QED BY <1>9, <1>11, <1>12, <1>14 DEF InvSauvegarde

(* Nothing of a restoration changes while the bundle rots or others write.  *)
LEMMA AutourDuManifeste ==
  ASSUME InvSauvegarde, NEW f \in Fichiers, alterer_bundle(f) \/ \E o \in Octets : ecrire_seau(f, o)
  PROVE  InvSauvegarde' /\ UNCHANGED varsCatalogue
<1>1. CASE alterer_bundle(f)
  <2>1. /\ UNCHANGED <<sauvegarde, manifeste, restauration, seau>> /\ UNCHANGED varsCatalogue
        /\ \/ bundle' = [bundle EXCEPT !.fichiers[f] = Altere]
           \/ bundle' = [bundle EXCEPT !.objets[f] = Altere]
        /\ restauration = Rien /\ manifeste # Rien
    BY <1>1 DEF alterer_bundle
  <2>2. bundle' \in [fichiers : Gardes, objets : Gardes]
    BY <2>1 DEF InvSauvegarde, TypeSauvegarde, Gardes, Releves
  <2>3. sauvegarde = Rien
    BY <2>1 DEF InvSauvegarde, SauvegardeSure
  <2>4. SauvegardeSure' /\ RestaurationSure' /\ PerimetreTenu'
    BY <2>1, <2>3 DEF InvSauvegarde, SauvegardeSure, RestaurationSure, PerimetreTenu
  <2> QED BY <2>1, <2>2, <2>4 DEF InvSauvegarde, TypeSauvegarde
<1>2. ASSUME NEW o \in Octets, ecrire_seau(f, o) PROVE InvSauvegarde' /\ UNCHANGED varsCatalogue
  <2>1. /\ UNCHANGED <<sauvegarde, manifeste, bundle, restauration>> /\ UNCHANGED varsCatalogue
        /\ seau[f] = Rien /\ manifeste # Rien /\ manifeste.objets[f] # Rien
        /\ seau' = [seau EXCEPT ![f] = o]
    BY <1>2 DEF ecrire_seau
  <2>2. seau' \in Gardes /\ \A g \in Fichiers : seau[g] # Rien => seau'[g] = seau[g]
    BY <2>1 DEF InvSauvegarde, TypeSauvegarde, Gardes, Releves
  <2>3. sauvegarde = Rien
    BY <2>1 DEF InvSauvegarde, SauvegardeSure
  <2>4. SauvegardeSure' /\ PerimetreTenu'
    BY <2>1, <2>3 DEF InvSauvegarde, SauvegardeSure, PerimetreTenu
  <2>5. restauration # Rien => restauration.faits \in SUBSET Fichiers
    BY DEF InvSauvegarde, TypeSauvegarde, Restaurations
  <2>6. RestaurationSure'
    BY <2>1, <2>2, <2>5 DEF InvSauvegarde, RestaurationSure
  <2> QED BY <2>1, <2>2, <2>4, <2>6 DEF InvSauvegarde, TypeSauvegarde
<1> QED BY <1>1, <1>2

(* A step of a restoration that leaves the manifest.                        *)
LEMMA UneRestaurationTenue ==
  ASSUME InvSauvegarde, NEW r \in Restaurations \cup {Rien}, Noter(r), manifeste # Rien,
         UNCHANGED manifeste, seau' \in Gardes, RestaurationSure'
  PROVE  InvSauvegarde' /\ UNCHANGED varsCatalogue
<1>1. sauvegarde = Rien
  BY DEF InvSauvegarde, SauvegardeSure
<1> QED BY <1>1 DEF Noter, InvSauvegarde, TypeSauvegarde, PerimetreTenu, SauvegardeSure

LEMMA UneRestauration ==
  ASSUME InvSauvegarde, NEW a \in BOOLEAN, NEW b \in BOOLEAN, restaurer(a, b)
  PROVE  InvSauvegarde' /\ UNCHANGED varsCatalogue
<1>1. PICK v : v = Vide
  OBVIOUS
<1>2. PICK r : r = [etape |-> "fichiers", avecFichiers |-> a, avecObjets |-> b,
                    fichiers |-> v, faits |-> {}, objets |-> v]
  OBVIOUS
<1>3. v \in Gardes
  BY <1>1 DEF Vide, Gardes, Releves
<1>4. r \in Restaurations /\ r.etape = "fichiers" /\ r.faits = {}
  BY <1>2, <1>3 DEF Restaurations, EtapesRestauration
<1>5. Noter(r) /\ UNCHANGED <<manifeste, seau>> /\ manifeste # Rien
  BY <1>1, <1>2 DEF restaurer
<1>6. restauration' = r
  BY <1>5 DEF Noter
<1>7. RestaurationSure'
  BY <1>4, <1>5, <1>6 DEF RestaurationSure
<1> QED BY <1>4, <1>5, <1>7, UneRestaurationTenue DEF InvSauvegarde, TypeSauvegarde

(* A restoration that fails promises nothing.                               *)
LEMMA UnEchec ==
  ASSUME InvSauvegarde, restauration # Rien, NEW r, r = [restauration EXCEPT !.etape = "echec"],
         Noter(r), UNCHANGED manifeste, seau' \in Gardes
  PROVE  InvSauvegarde' /\ UNCHANGED varsCatalogue
<1>1. restauration \in Restaurations /\ manifeste # Rien
  BY DEF InvSauvegarde, TypeSauvegarde, RestaurationSure
<1>2. r \in Restaurations /\ r.etape = "echec"
  BY <1>1 DEF Restaurations, EtapesRestauration
<1>3. restauration' = r
  BY DEF Noter
<1>4. RestaurationSure'
  BY <1>1, <1>2, <1>3 DEF RestaurationSure
<1> QED BY <1>1, <1>2, <1>4, UneRestaurationTenue

LEMMA UnPlan ==
  ASSUME InvSauvegarde, restaurer_fichiers_locaux \/ figer_plan_restauration
  PROVE  InvSauvegarde' /\ UNCHANGED varsCatalogue
<1> DEFINE r == restauration
<1>1. /\ r \in Restaurations /\ r # Rien /\ manifeste # Rien /\ seau' \in Gardes
      /\ UNCHANGED <<manifeste, seau>> /\ RestaurationSure
      /\ bundle.fichiers \in Gardes /\ bundle.objets \in Gardes
  BY DEF restaurer_fichiers_locaux, figer_plan_restauration, Restaure, InvSauvegarde,
         TypeSauvegarde, RestaurationSure
<1> USE DEF EtapesRestauration
<1>2. CASE restaurer_fichiers_locaux /\ ~r.avecFichiers
  <2>1. PICK t : t = [r EXCEPT !.etape = "plan"]
    OBVIOUS
  <2>2. /\ t \in Restaurations /\ t.etape = "plan" /\ t.avecFichiers = r.avecFichiers
        /\ t.faits = r.faits /\ r.etape = "fichiers"
    BY <1>1, <1>2, <2>1 DEF Restaurations, restaurer_fichiers_locaux, Restaure
  <2>3. Noter(t) /\ restauration' = t
    BY <1>2, <2>1 DEF restaurer_fichiers_locaux, Noter
  <2>4. RestaurationSure'
    BY <1>1, <1>2, <2>2, <2>3 DEF RestaurationSure
  <2> QED BY <1>1, <2>2, <2>3, <2>4, UneRestaurationTenue
<1>3. CASE /\ restaurer_fichiers_locaux /\ r.avecFichiers
           /\ PlanFidele(bundle.fichiers, manifeste.fichiers)
  <2>1. PICK t : t = [r EXCEPT !.etape = "plan", !.fichiers = bundle.fichiers]
    OBVIOUS
  <2>2. /\ t \in Restaurations /\ t.etape = "plan" /\ t.fichiers = bundle.fichiers
        /\ t.faits = r.faits /\ r.etape = "fichiers"
    BY <1>1, <1>3, <2>1 DEF Restaurations, restaurer_fichiers_locaux, Restaure
  <2>3. Noter(t) /\ restauration' = t
    BY <1>3, <2>1 DEF restaurer_fichiers_locaux, Noter
  <2>4. RestaurationSure'
    BY <1>1, <1>3, <2>2, <2>3 DEF RestaurationSure, PlanFidele
  <2> QED BY <1>1, <2>2, <2>3, <2>4, UneRestaurationTenue
<1>4. CASE /\ restaurer_fichiers_locaux /\ r.avecFichiers
           /\ ~PlanFidele(bundle.fichiers, manifeste.fichiers)
  BY <1>1, <1>4, UnEchec DEF restaurer_fichiers_locaux
<1>5. CASE figer_plan_restauration /\ ~r.avecObjets
  <2>1. PICK t : t = [r EXCEPT !.etape = "verifier"]
    OBVIOUS
  <2>2. /\ t \in Restaurations /\ t.etape = "verifier" /\ t.avecFichiers = r.avecFichiers
        /\ t.avecObjets = r.avecObjets /\ t.fichiers = r.fichiers
    BY <1>1, <2>1 DEF Restaurations
  <2>3. Noter(t) /\ restauration' = t /\ r.etape = "plan"
    BY <1>5, <2>1 DEF figer_plan_restauration, Noter, Restaure
  <2>4. RestaurationSure'
    BY <1>1, <1>5, <2>2, <2>3 DEF RestaurationSure
  <2> QED BY <1>1, <2>2, <2>3, <2>4, UneRestaurationTenue
<1>6. CASE /\ figer_plan_restauration /\ r.avecObjets
           /\ PlanFidele(bundle.objets, manifeste.objets)
  <2>1. PICK t : t = [r EXCEPT !.etape = "publier", !.objets = bundle.objets]
    OBVIOUS
  <2>2. /\ t \in Restaurations /\ t.etape = "publier" /\ t.avecFichiers = r.avecFichiers
        /\ t.avecObjets = r.avecObjets /\ t.fichiers = r.fichiers /\ t.objets = bundle.objets
        /\ t.faits = r.faits
    BY <1>1, <2>1 DEF Restaurations
  <2>3. Noter(t) /\ restauration' = t /\ r.etape = "plan"
    BY <1>6, <2>1 DEF figer_plan_restauration, Noter, Restaure
  <2>4. RestaurationSure'
    BY <1>1, <1>6, <2>2, <2>3 DEF RestaurationSure, PlanFidele
  <2> QED BY <1>1, <2>2, <2>3, <2>4, UneRestaurationTenue
<1>7. CASE /\ figer_plan_restauration /\ r.avecObjets
           /\ ~PlanFidele(bundle.objets, manifeste.objets)
  BY <1>1, <1>7, UnEchec DEF figer_plan_restauration
<1> QED BY <1>2, <1>3, <1>4, <1>5, <1>6, <1>7

(* An object is put back, found there already, or refuses the restoration.  *)
LEMMA UnObjetRestaure ==
  ASSUME InvSauvegarde, NEW f \in Fichiers, publier_objets_restaures(f)
  PROVE  InvSauvegarde' /\ UNCHANGED varsCatalogue
<1> DEFINE r == restauration
<1>1. /\ r \in Restaurations /\ r # Rien /\ manifeste # Rien /\ r.etape = "publier"
      /\ UNCHANGED manifeste /\ RestaurationSure /\ seau \in Gardes
      /\ r.objets \in Gardes /\ r.faits \in SUBSET Fichiers
  BY DEF publier_objets_restaures, Restaure, InvSauvegarde, TypeSauvegarde, RestaurationSure,
         Restaurations
<1>2. PICK t : t = [r EXCEPT !.faits = @ \cup {f}]
  OBVIOUS
<1>3. /\ t \in Restaurations /\ t.etape = "publier" /\ t.avecFichiers = r.avecFichiers
      /\ t.avecObjets = r.avecObjets /\ t.fichiers = r.fichiers /\ t.objets = r.objets
      /\ t.faits = r.faits \cup {f}
  BY <1>1, <1>2 DEF Restaurations
<1>4. CASE r.objets[f] = Rien
  <2>1. Noter(t) /\ UNCHANGED seau /\ restauration' = t
    BY <1>2, <1>4 DEF publier_objets_restaures, Noter
  <2>2. RestaurationSure'
    BY <1>1, <1>3, <1>4, <2>1 DEF RestaurationSure
  <2> QED BY <1>1, <1>3, <2>1, <2>2, UneRestaurationTenue
<1>5. CASE r.objets[f] # Rien
  <2>1. seau' = IF seau[f] = Rien THEN [seau EXCEPT ![f] = r.objets[f]] ELSE seau
    BY <1>5 DEF publier_objets_restaures, creer_fichier_exclusif
  <2>2. seau' \in Gardes /\ \A g \in Fichiers : seau[g] # Rien => seau'[g] = seau[g]
    BY <1>1, <2>1 DEF Gardes, Releves
  <2>3. CASE seau'[f] = r.objets[f]
    <3>1. Noter(t) /\ restauration' = t
      BY <1>2, <1>5, <2>3 DEF publier_objets_restaures, Noter
    <3>2. ASSUME NEW g \in t.faits, t.objets[g] # Rien PROVE seau'[g] = t.objets[g]
      BY <1>1, <1>3, <2>2, <2>3, <3>2 DEF RestaurationSure
    <3>3. RestaurationSure'
      BY <1>1, <1>3, <3>1, <3>2 DEF RestaurationSure
    <3> QED BY <1>1, <1>3, <2>2, <3>1, <3>3, UneRestaurationTenue
  <2>4. CASE seau'[f] # r.objets[f]
    BY <1>1, <1>5, <2>2, <2>4, UnEchec DEF publier_objets_restaures
  <2> QED BY <2>3, <2>4
<1> QED BY <1>4, <1>5

(* The restoration is over: what it was asked to fill is there.             *)
LEMMA UneQualification ==
  ASSUME InvSauvegarde, qualifier_apres_restauration_prouvee
  PROVE  InvSauvegarde' /\ UNCHANGED varsCatalogue
<1> DEFINE r == restauration
<1>1. /\ r \in Restaurations /\ r # Rien /\ manifeste # Rien /\ manifeste \in Manifestes
      /\ RestaurationSure /\ r.etape \in {"verifier", "publier"}
      /\ r.etape = "publier" => r.faits = Fichiers
  BY DEF qualifier_apres_restauration_prouvee, Restaure, InvSauvegarde, TypeSauvegarde,
         RestaurationSure
<1>2. PICK t : t = [r EXCEPT !.etape = "finie"]
  OBVIOUS
<1>3. /\ t \in Restaurations /\ t.etape = "finie" /\ t.avecFichiers = r.avecFichiers
      /\ t.avecObjets = r.avecObjets /\ t.fichiers = r.fichiers
  BY <1>1, <1>2 DEF Restaurations, EtapesRestauration
<1>4. PICK m : m = [manifeste EXCEPT !.perimetre = TRUE, !.complet = TRUE]
  OBVIOUS
<1>5. /\ m \in Manifestes /\ m.complet /\ m.fichiers = manifeste.fichiers
      /\ m.objets = manifeste.objets
  BY <1>1, <1>4 DEF Manifestes
<1>6. m # Rien
  BY <1>5, HypSauvegarde
<1>7. /\ restauration' = t /\ manifeste' = m
      /\ UNCHANGED <<sauvegarde, bundle, seau>> /\ UNCHANGED varsCatalogue
  BY <1>2, <1>4 DEF qualifier_apres_restauration_prouvee, Noter
<1>8. sauvegarde = Rien
  BY <1>1 DEF InvSauvegarde, SauvegardeSure
<1>9. SauvegardeSure' /\ PerimetreTenu'
  BY <1>5, <1>7, <1>8 DEF SauvegardeSure, PerimetreTenu
<1>10. r.avecObjets =>
         \A f \in Fichiers : manifeste.objets[f] # Rien => seau[f] = manifeste.objets[f]
  BY <1>1 DEF RestaurationSure
<1>11. RestaurationSure'
  BY <1>1, <1>3, <1>5, <1>6, <1>7, <1>10 DEF RestaurationSure
<1>12. TypeSauvegarde'
  BY <1>3, <1>5, <1>7 DEF InvSauvegarde, TypeSauvegarde
<1> QED BY <1>7, <1>9, <1>11, <1>12 DEF InvSauvegarde

LEMMA UnPasDeSauvegarde ==
  ASSUME InvCatalogue, InvSauvegarde, NextSauvegarde
  PROVE  InvSauvegarde' /\ UNCHANGED varsCatalogue
<1>1. CASE echec_sauvegarde
  <2>1. Tenir(Rien) /\ sauvegarde' = Rien
    BY <1>1 DEF echec_sauvegarde, Tenir
  <2>2. SauvegardeSure'
    BY <2>1 DEF SauvegardeSure
  <2> QED BY <2>1, <2>2, UneSauvegardeTenue
<1>2. CASE echec_restauration
  BY <1>2, UnEchec DEF echec_restauration, InvSauvegarde, TypeSauvegarde
<1>3. ASSUME NEW f \in Fichiers, alterer_bundle(f) PROVE InvSauvegarde' /\ UNCHANGED varsCatalogue
  BY <1>3, AutourDuManifeste
<1>4. ASSUME NEW f \in Fichiers, NEW o \in Octets, ecrire_seau(f, o)
      PROVE  InvSauvegarde' /\ UNCHANGED varsCatalogue
  BY <1>4, AutourDuManifeste
<1> QED BY <1>1, <1>2, <1>3, <1>4, UnInstantane, UneCopieDeFichier, UnDump, UneCopieDObjet,
           UnManifeste, UneRestauration, UnPlan, UnObjetRestaure, UneQualification
     DEF NextSauvegarde

----------------------------------------------------------------------------
(* The start, and every step.                                               *)

InvStockage == InvCatalogue /\ InvPieces /\ InvSauvegarde

LEMMA DebutStockage == InitStockage => InvStockage
<1> SUFFICES ASSUME InitStockage PROVE InvStockage
  OBVIOUS
<1>1. InvCatalogue
  <2>1. /\ disque \in [Fichiers -> Copies \cup {Rien}]
        /\ \A f \in Fichiers : disque[f] # Rien => disque[f].date = 1
    BY DEF InitStockage, InitCatalogue, Copies
  <2>2. TypeCatalogue
    BY <2>1 DEF InitStockage, InitCatalogue, TypeCatalogue
  <2>3. \A f \in Fichiers : Datee(f)
    BY <2>1 DEF InitStockage, InitCatalogue, Datee
  <2>4. (\A i \in Imports : ImportSur(i)) /\ (\A p \in Promoteurs : PromotionSure(p))
    BY DEF InitStockage, InitCatalogue, ImportSur, PromotionSure
  <2> QED BY <2>2, <2>3, <2>4 DEF InvCatalogue
<1>2. InvPieces
  BY DEF InitStockage, InitPieces, InvPieces
<1>3. InvSauvegarde
  <2>1. Vide \in Gardes /\ seau = Vide /\ bundle = [fichiers |-> Vide, objets |-> Vide]
    BY DEF InitStockage, InitSauvegarde, Vide, Gardes, Releves
  <2>2. bundle \in [fichiers : Gardes, objets : Gardes]
    BY <2>1
  <2> QED BY <2>1, <2>2 DEF InitStockage, InitSauvegarde, InvSauvegarde, TypeSauvegarde,
             SauvegardeSure, PerimetreTenu, RestaurationSure
<1> QED BY <1>1, <1>2, <1>3 DEF InvStockage

LEMMA UnPasDuStockage ==
  ASSUME InvStockage, NextStockage
  PROVE  InvStockage' /\ PurgeSure
<1>1. ASSUME PasCatalogue, InvPieces', UNCHANGED varsSauvegarde PROVE InvStockage' /\ PurgeSure
  BY <1>1, SauvegardePendant DEF InvStockage, PasCatalogue
<1>2. ASSUME PasCatalogue, UNCHANGED varsSauvegarde, UNCHANGED ouverture
      PROVE  InvStockage' /\ PurgeSure
  <2>1. InvPieces'
    BY <1>2 DEF InvStockage, InvPieces
  <2> QED BY <1>1, <1>2, <2>1
<1>3. CASE "sauvegarde" \in presents /\ NextSauvegarde /\ UNCHANGED ouverture
  <2>1. InvSauvegarde' /\ UNCHANGED varsCatalogue
    BY <1>3, UnPasDeSauvegarde DEF InvStockage
  <2>2. PasCatalogue
    BY <2>1, SansCatalogue DEF InvStockage
  <2>3. InvPieces'
    BY <1>3 DEF InvStockage, InvPieces
  <2> QED BY <2>1, <2>2, <2>3 DEF InvStockage, PasCatalogue
<1>4. CASE "lecteur" \in presents /\ NextPieces /\ UNCHANGED varsSauvegarde
  BY <1>1, <1>4, UnPasDeLecteur DEF InvStockage
<1>5. ASSUME NEW p \in Promoteurs \cap presents, NextPromotion(p) PROVE PasCatalogue
  BY <1>5, UnPasDePromotion DEF InvStockage
<1>6. CASE /\ UNCHANGED <<varsSauvegarde, ouverture>>
           /\ \/ NextExterne
              \/ "balayage" \in presents /\ NextBalayage
              \/ "import" \in presents /\ NextImport
              \/ \E p \in Promoteurs \cap presents : NextPromotion(p)
  BY <1>2, <1>5, <1>6, DuDehors, UnBalayage, DesImports DEF InvStockage
<1> QED BY <1>3, <1>4, <1>6 DEF NextStockage

LEMMA SansStockage ==
  ASSUME InvStockage, UNCHANGED varsStockage
  PROVE  InvStockage' /\ PurgeSure
<1>1. UNCHANGED varsCatalogue /\ UNCHANGED varsSauvegarde /\ UNCHANGED ouverture
  BY DEF varsStockage
<1>2. PasCatalogue
  BY <1>1, SansCatalogue DEF InvStockage
<1>3. InvPieces'
  BY <1>1 DEF InvStockage, InvPieces
<1> QED BY <1>1, <1>2, <1>3, SauvegardePendant DEF InvStockage, PasCatalogue

LEMMA LeStockage == Spec => []InvStockage /\ [][PurgeSure]_varsServices
<1>1. Init => InvStockage
  BY DebutStockage DEF Init
<1>2. ASSUME InvStockage, [Next]_varsServices PROVE InvStockage' /\ PurgeSure
  <2>1. UNCHANGED varsStockage \/ NextStockage
    BY <1>2 DEF Next, varsServices
  <2> QED BY <1>2, <2>1, UnPasDuStockage, SansStockage
<1>3. InvStockage /\ [Next]_varsServices => InvStockage' /\ [PurgeSure]_varsServices
  BY <1>2
<1> QED BY <1>1, <1>3, PTL DEF Spec

(* What an import published stays in the catalogue under the identity of    *)
(* what it captured, whatever scans, deposits, retries and purges do        *)
(* (upsert_documents, remove_missing).                                      *)
THEOREM CaptureGardeeProuvee == Spec => []CaptureGardee
<1>1. InvStockage => CaptureGardee
  BY DEF InvStockage, InvCatalogue, ImportSur, CaptureGardee
<1> QED BY <1>1, LeStockage, PTL

(* Of the local bytes that a purge removes, only what a user wrote after    *)
(* the last reading was never captured; and they are in the bucket, under   *)
(* the key of the saved import, unless the bucket lost an object after the  *)
(* remote reading (purger_copie_prouvee).                                   *)
THEOREM PurgeSansPerteProuvee == Spec => PurgeSansPerte
<1>1. [PurgeSure]_varsServices =>
        [\A i \in Imports :
           imports[i] # Rien /\ imports'[i] # Rien
             /\ imports[i].etape # "purge" /\ imports'[i].etape = "purge" =>
             LET x == imports[i]
                 local == disque[x.fichier] IN
             /\ local # Rien
             /\ local.octets = x.sha \/ local.date > x.luLe
             /\ objets[x.cle] = x.sha \/ pertes > x.perdus]_varsStockage
  BY DEF PurgeSure, PurgeDe, varsServices
<1> QED BY <1>1, LeStockage, PTL DEF PurgeSansPerte

(* What the API serves of a document with an identity has this identity,    *)
(* and of a published file the one that was captured (fiches/routes.py,     *)
(* api.py).                                                                 *)
THEOREM ServiConformeProuvee == Spec => []ServiConforme
<1>1. InvStockage => ServiConforme
  BY DEF InvStockage, InvPieces, ServiConforme
<1> QED BY <1>1, LeStockage, PTL

(* A perimeter declared complete holds every document of its snapshot, and  *)
(* a finished restoration the bytes of its manifest (sauvegarde.py).        *)
THEOREM SauvegardeFideleProuvee == Spec => []SauvegardeFidele
<1>1. InvStockage => SauvegardeFidele
  BY DEF InvStockage, InvSauvegarde, RestaurationSure, RestaurationFidele, SauvegardeFidele
<1> QED BY <1>1, LeStockage, PTL
=============================================================================
