------------------------ MODULE Televersement_preuves ------------------------
(***************************************************************************)
(* Proofs about upload sessions, for any number of processes, files,       *)
(* contents and faults.                                                    *)
(***************************************************************************)
EXTENDS Televersement, FiniteSetTheorems, TLAPS

-----------------------------------------------------------------------------
(* Functions on some of the files.                                         *)
LEMMA PartielleDef ==
  ASSUME NEW S, NEW f
  PROVE  f \in Partielles(S) <=> \E D \in SUBSET Fichiers : f \in [D -> S]
BY DEF Partielles

LEMMA PartielleUsage ==
  ASSUME NEW S, NEW f \in Partielles(S)
  PROVE  DOMAIN f \subseteq Fichiers /\ f \in [DOMAIN f -> S]
BY PartielleDef

LEMMA PartielleIntro ==
  ASSUME NEW S, NEW D \in SUBSET Fichiers, NEW f \in [D -> S]
  PROVE  f \in Partielles(S)
BY PartielleDef

LEMMA AvecType ==
  ASSUME NEW S, NEW g \in Partielles(S), NEW f \in Partielles(S)
  PROVE  Avec(g, f) \in Partielles(S)
<1> DEFINE D == DOMAIN g \cup DOMAIN f
<1>1. D \in SUBSET Fichiers
  BY PartielleUsage
<1>2. \A x \in D : (IF x \in DOMAIN g THEN g[x] ELSE f[x]) \in S
  BY PartielleUsage
<1>3. Avec(g, f) \in [D -> S]
  BY <1>2 DEF Avec
<1> QED BY <1>1, <1>3, PartielleIntro

LEMMA AvecVers ==
  ASSUME NEW D, NEW S, NEW f \in [D -> S], NEW g, g \in [DOMAIN g -> S], DOMAIN g \subseteq D
  PROVE  Avec(g, f) \in [D -> S]
BY DEF Avec

LEMMA RestrictType ==
  ASSUME NEW S, NEW f \in Partielles(S), NEW D
  PROVE  Restrict(f, DOMAIN f \ D) \in Partielles(S)
<1>1. DOMAIN f \ D \in SUBSET Fichiers
  BY PartielleUsage
<1>2. Restrict(f, DOMAIN f \ D) \in [DOMAIN f \ D -> S]
  BY PartielleUsage DEF Restrict
<1> QED BY <1>1, <1>2, PartielleIntro

LEMMA UnType ==
  ASSUME NEW S, NEW f \in Fichiers, NEW v \in S
  PROVE  Un(f, v) \in Partielles(S)
<1>1. Un(f, v) \in [{f} -> S]
  BY DEF Un
<1> QED BY <1>1, PartielleIntro

LEMMA VideType == ASSUME NEW S PROVE Vide \in Partielles(S)
<1>1. Vide \in [{} -> S]
  BY DEF Vide
<1> QED BY <1>1, PartielleIntro

LEMMA EnvoiType == ASSUME NEW e \in Partielles(Contenus) PROVE e \in Recus
<1>1. e \in [DOMAIN e -> SurDisque] /\ DOMAIN e \in SUBSET Fichiers
  BY PartielleUsage DEF SurDisque
<1> QED BY <1>1, PartielleIntro DEF Recus

(* What becomes of the received files.                                     *)
LEMMA RecusType ==
  /\ Vide \in Recus
  /\ \A r \in Recus : DOMAIN r \subseteq Fichiers /\ r \in [DOMAIN r -> SurDisque]
  /\ \A g, f \in Recus : Avec(g, f) \in Recus
  /\ \A f \in Recus : \A D : Restrict(f, DOMAIN f \ D) \in Recus
  /\ \A f \in Fichiers : \A v \in SurDisque : Un(f, v) \in Recus
  /\ \A r \in Recus : \A f : [r EXCEPT ![f] = Abime] \in Recus
<1>1. \A r \in Recus : DOMAIN r \subseteq Fichiers /\ r \in [DOMAIN r -> SurDisque]
  BY PartielleUsage DEF Recus
<1>2. \A r \in Recus : \A f : [r EXCEPT ![f] = Abime] \in Recus
  <2> TAKE r \in Recus
  <2> TAKE f
  <2>1. [r EXCEPT ![f] = Abime] \in [DOMAIN r -> SurDisque]
    BY <1>1 DEF SurDisque
  <2> QED BY <2>1, <1>1, PartielleIntro DEF Recus
<1>3. \A g, f \in Recus : Avec(g, f) \in Recus
  BY AvecType DEF Recus
<1>4. \A f \in Recus : \A D : Restrict(f, DOMAIN f \ D) \in Recus
  BY RestrictType DEF Recus
<1>5. \A f \in Fichiers : \A v \in SurDisque : Un(f, v) \in Recus
  BY UnType DEF Recus
<1> QED BY <1>1, <1>2, <1>3, <1>4, <1>5, VideType DEF Recus

(* The manifests that the requests save.                                   *)
LEMMA ManifesteType ==
  /\ ManifesteVierge \in Manifestes
  /\ ManifesteVierge.statut = "en_cours" /\ ManifesteVierge.idLot = SansLot
  /\ \A m \in Manifestes :
       /\ m # Absent
       /\ m.statut \in {"en_cours", "pret"} /\ m.recus \in Recus /\ m.idLot \in Nat /\ m.cles \in Cles
       /\ \A r \in Recus : /\ [m EXCEPT !.recus = r] \in Manifestes
                           /\ [m EXCEPT !.recus = r].statut = m.statut
                           /\ [m EXCEPT !.recus = r].idLot = m.idLot
       /\ \A n \in Nat : /\ [m EXCEPT !.idLot = n] \in Manifestes
                         /\ [m EXCEPT !.idLot = n].statut = m.statut
                         /\ [m EXCEPT !.idLot = n].idLot = n
       /\ \A c \in Cles : /\ [m EXCEPT !.cles = c] \in Manifestes
                          /\ [m EXCEPT !.cles = c].statut = m.statut
                          /\ [m EXCEPT !.cles = c].idLot = m.idLot
       /\ [m EXCEPT !.statut = "pret"] \in Manifestes
       /\ [m EXCEPT !.statut = "pret"].idLot = m.idLot
       /\ [m EXCEPT !.statut = "pret"].statut = "pret"
BY HypAbsent, RecusType DEF Manifestes, ManifesteVierge, Cles, SansCle, SansLot

(* Reconciliation keeps the lot, and the state of a session that has one.  *)
LEMMA ReconcilieType ==
  ASSUME NEW m \in Manifestes, disque \in Recus
  PROVE  /\ Reconcilie(m) \in Manifestes
         /\ Reconcilie(m).idLot = m.idLot
         /\ m.idLot # SansLot => Reconcilie(m).statut = m.statut
         /\ m.statut = "en_cours" => Reconcilie(m).statut = "en_cours"
<1> DEFINE c == [f \in Fichiers |-> IF f \in DOMAIN disque THEN m.cles[f] ELSE 0]
<1>1. c \in Cles
  BY DEF Manifestes, Cles
<1> QED BY <1>1 DEF Reconcilie, Manifestes

-----------------------------------------------------------------------------
(* Leaving: the other processes keep their locals, and the lock its holder *)
(* if it is another.                                                       *)
LEMMA OublierType ==
  ASSUME TypeLocales, NEW p \in Processus, Oublier(p)
  PROVE  /\ TypeLocales' /\ pc'[p] = "repos"
         /\ \A q \in Processus \ {p} :
              /\ pc'[q] = pc[q] /\ lu'[q] = lu[q] /\ envoi'[q] = envoi[q]
              /\ reste'[q] = reste[q] /\ tampon'[q] = tampon[q] /\ nouveau'[q] = nouveau[q]
BY RecusType DEF TypeLocales, Oublier, Pcs, SansLot

LEMMA RendreType ==
  ASSUME TypeSession, NEW p \in Processus, Rendre(p)
  PROVE  /\ verrou' \in [present : BOOLEAN, tenant : Processus \cup {Personne}]
         /\ verrou'.present = verrou.present
         /\ verrou'.tenant = IF verrou.tenant = p THEN Personne ELSE verrou.tenant
BY DEF TypeSession, Rendre

LEMMA SortirType ==
  ASSUME TypeTeleversement, NEW p \in Processus, Sortir(p)
  PROVE  /\ TypeLocales' /\ pc'[p] = "repos"
         /\ \A q \in Processus \ {p} :
              /\ pc'[q] = pc[q] /\ lu'[q] = lu[q] /\ envoi'[q] = envoi[q]
              /\ reste'[q] = reste[q] /\ tampon'[q] = tampon[q] /\ nouveau'[q] = nouveau[q]
         /\ verrou' \in [present : BOOLEAN, tenant : Processus \cup {Personne}]
         /\ verrou'.present = verrou.present
         /\ verrou'.tenant = IF verrou.tenant = p THEN Personne ELSE verrou.tenant
         /\ verrou'.tenant # Personne => verrou'.present
BY OublierType, RendreType DEF Sortir, TypeTeleversement, Coherence

LEMMA InitType == InitTeleversement => TypeTeleversement
<1> SUFFICES ASSUME InitTeleversement PROVE TypeTeleversement
  OBVIOUS
<1>1. TypeSession
  BY RecusType DEF InitTeleversement, TypeSession
<1>2. TypeCopies
  <2>1. <<>> \in Seq(SurDisque \cup {Tronque})
    OBVIOUS
  <2> QED BY <2>1 DEF InitTeleversement, TypeCopies
<1>3. TypeLocales
  BY RecusType DEF InitTeleversement, TypeLocales, Pcs, SansLot
<1>4. TypeTemoins
  BY RecusType DEF InitTeleversement, TypeTemoins
<1>5. Coherence
  BY HypContenus DEF InitTeleversement, Coherence
<1> QED BY <1>1, <1>2, <1>3, <1>4, <1>5 DEF TypeTeleversement

(* Creation of the session.                                                *)
LEMMA TypeCreer ==
  ASSUME TypeTeleversement, NEW p \in Processus,
         CreerReserver(p) \/ CreerRelire(p) \/ CreerDossier(p) \/ CreerRefuse(p) \/ CreerMarquer(p)
  PROVE  TypeTeleversement'
<1> USE DEF TypeTeleversement, session, copies, base, temoins, ReponseEventuelle
<1>1. CASE CreerReserver(p)
  <2>1. TypeSession' /\ TypeCopies' /\ TypeTemoins'
    BY <1>1 DEF CreerReserver, TypeSession, TypeCopies, TypeTemoins
  <2>2. TypeLocales'
    BY <1>1 DEF CreerReserver, TypeLocales, Pcs
  <2>3. Coherence'
    BY <1>1, HypContenus DEF CreerReserver, Coherence, TypeLocales, TypeSession
  <2> QED BY <2>1, <2>2, <2>3
<1>2. CASE CreerRelire(p)
  <2>1. TypeSession' /\ TypeCopies' /\ TypeTemoins'
    BY <1>2 DEF CreerRelire, TypeSession, TypeCopies, TypeTemoins, Coherence
  <2>2. TypeLocales'
    BY <1>2, OublierType DEF CreerRelire
  <2>3. Coherence'
    BY <1>2, OublierType, HypContenus DEF CreerRelire, Coherence
  <2> QED BY <2>1, <2>2, <2>3
<1>3. CASE CreerDossier(p)
  <2>1. TypeSession' /\ TypeCopies' /\ TypeTemoins'
    BY <1>3, ManifesteType DEF CreerDossier, TypeSession, TypeCopies, TypeTemoins
  <2>2. TypeLocales'
    BY <1>3 DEF CreerDossier, TypeLocales, Pcs
  <2>3. Coherence'
    BY <1>3, HypContenus, ManifesteType DEF CreerDossier, Coherence, TypeLocales
  <2> QED BY <2>1, <2>2, <2>3
<1>4. CASE CreerRefuse(p)
  <2>1. TypeSession' /\ TypeCopies' /\ TypeTemoins'
    BY <1>4 DEF CreerRefuse, TypeSession, TypeCopies, TypeTemoins
  <2>2. TypeLocales'
    BY <1>4, OublierType DEF CreerRefuse
  <2>3. Coherence'
    BY <1>4, OublierType, HypContenus DEF CreerRefuse, Coherence
  <2> QED BY <2>1, <2>2, <2>3
<1>5. CASE CreerMarquer(p)
  <2>1. TypeSession' /\ TypeCopies' /\ TypeTemoins'
    BY <1>5 DEF CreerMarquer, TypeSession, TypeCopies, TypeTemoins, Coherence
  <2>2. TypeLocales'
    BY <1>5, OublierType DEF CreerMarquer
  <2>3. Coherence'
    BY <1>5, OublierType, HypContenus DEF CreerMarquer, Coherence
  <2> QED BY <2>1, <2>2, <2>3
<1> QED BY <1>1, <1>2, <1>3, <1>4, <1>5

(* Reception and completion.                                              *)
LEMMA TypeRecevoir ==
  ASSUME TypeTeleversement, NEW p \in Processus,
         Recevoir(p) \/ PromouvoirFichier(p) \/ PromotionRompue(p) \/ SauverEnvoi(p)
         \/ Etat(p) \/ Terminer(p)
  PROVE  TypeTeleversement'
<1> USE DEF TypeTeleversement, session, copies, base, locales, temoins, ReponseEventuelle
<1>1. CASE Recevoir(p)
  <2>1. TypeSession' /\ TypeCopies' /\ TypeTemoins'
    BY <1>1 DEF Recevoir, TypeSession, TypeCopies, TypeTemoins, Entrer, Prendre
  <2>2. TypeLocales'
    <3>1. PICK e \in Partielles(Contenus) :
             /\ envoi' = [envoi EXCEPT ![p] = e]
             /\ reste' = [reste EXCEPT ![p] = DOMAIN e \ (DOMAIN manifeste.recus \cup DOMAIN disque)]
      BY <1>1 DEF Recevoir
    <3>2. e \in Recus /\ DOMAIN e \subseteq Fichiers
      BY EnvoiType, RecusType
    <3>3. manifeste \in Manifestes
      BY <1>1 DEF Recevoir, Entrer, TypeSession
    <3> QED BY <1>1, <3>1, <3>2, <3>3 DEF Recevoir, TypeLocales, Pcs
  <2>3. Coherence'
    BY <1>1, HypContenus DEF Recevoir, Coherence, Entrer, Prendre, TypeLocales, TypeSession
  <2> QED BY <2>1, <2>2, <2>3
<1>2. CASE PromouvoirFichier(p)
  <2>1. TypeSession' /\ TypeCopies' /\ TypeTemoins'
    BY <1>2, RecusType DEF PromouvoirFichier, TypeSession, TypeCopies, TypeTemoins, TypeLocales
  <2>2. TypeLocales'
    BY <1>2 DEF PromouvoirFichier, TypeLocales
  <2>3. Coherence'
    BY <1>2, HypContenus DEF PromouvoirFichier, Coherence, TypeLocales
  <2> QED BY <2>1, <2>2, <2>3
<1>3. CASE PromotionRompue(p)
  <2>1. TypeSession' /\ TypeCopies' /\ TypeTemoins'
    BY <1>3, SortirType DEF PromotionRompue, TypeSession, TypeCopies, TypeTemoins
  <2>2. TypeLocales'
    BY <1>3, SortirType DEF PromotionRompue
  <2>3. Coherence'
    BY <1>3, SortirType, HypContenus DEF PromotionRompue, Coherence
  <2> QED BY <2>1, <2>2, <2>3
<1>4. CASE SauverEnvoi(p)
  <2>1. TypeSession' /\ TypeCopies' /\ TypeTemoins'
    <3>1. lu[p] \in Manifestes /\ envoi[p] \in Recus
      BY <1>4 DEF SauverEnvoi, TypeLocales, Coherence
    <3>2. Avec(lu[p].recus, envoi[p]) \in Recus /\ Avec(accuses, envoi[p]) \in Recus
      BY <3>1, ManifesteType, RecusType DEF TypeTemoins
    <3>3. manifeste' = [lu[p] EXCEPT !.recus = Avec(lu[p].recus, envoi[p])]
      BY <1>4 DEF SauverEnvoi
    <3>4. /\ manifeste' \in Manifestes
          /\ manifeste'.idLot = lu[p].idLot /\ manifeste'.statut = lu[p].statut
      BY <3>1, <3>2, <3>3, ManifesteType
    <3> QED BY <1>4, <3>2, <3>4, SortirType DEF SauverEnvoi, TypeSession, TypeCopies, TypeTemoins
  <2>2. TypeLocales'
    BY <1>4, SortirType DEF SauverEnvoi
  <2>3. Coherence'
    <3>1. lu[p] \in Manifestes /\ envoi[p] \in Recus
      BY <1>4 DEF SauverEnvoi, TypeLocales, Coherence
    <3>2. Avec(lu[p].recus, envoi[p]) \in Recus /\ Avec(accuses, envoi[p]) \in Recus
      BY <3>1, ManifesteType, RecusType DEF TypeTemoins
    <3>3. manifeste' = [lu[p] EXCEPT !.recus = Avec(lu[p].recus, envoi[p])]
      BY <1>4 DEF SauverEnvoi
    <3>4. /\ manifeste' \in Manifestes
          /\ manifeste'.idLot = lu[p].idLot /\ manifeste'.statut = lu[p].statut
      BY <3>1, <3>2, <3>3, ManifesteType
    <3> QED BY <1>4, <3>4, SortirType, HypContenus DEF SauverEnvoi, Coherence, TypeLocales
  <2> QED BY <2>1, <2>2, <2>3
<1>5. CASE Etat(p)
  <2>1. TypeSession' /\ TypeCopies' /\ TypeTemoins'
    BY <1>5, ReconcilieType DEF Etat, TypeSession, TypeCopies, TypeTemoins, Entrer, EnUnPas
  <2>2. TypeLocales'
    BY <1>5 DEF Etat, TypeLocales, EnUnPas
  <2>3. Coherence'
    BY <1>5, ReconcilieType, HypContenus, ManifesteType DEF Etat, Coherence, Entrer, EnUnPas, TypeSession
  <2> QED BY <2>1, <2>2, <2>3
<1>6. CASE Terminer(p)
  <2>1. TypeSession' /\ TypeCopies' /\ TypeTemoins'
    <3> DEFINE m == Reconcilie(manifeste)
    <3>1. m \in Manifestes
      BY <1>6, ReconcilieType DEF Terminer, Entrer, TypeSession
    <3>2. manifeste' \in {m, [m EXCEPT !.statut = "pret"]}
      <4>1. [m EXCEPT !.statut = m.statut] = m
        BY <3>1 DEF Manifestes
      <4> QED BY <1>6, <4>1 DEF Terminer
    <3>3. manifeste' \in Manifestes
      BY <3>1, <3>2, ManifesteType
    <3> QED BY <1>6, <3>3 DEF Terminer, TypeSession, TypeCopies, TypeTemoins, EnUnPas, Entrer
  <2>2. TypeLocales'
    BY <1>6 DEF Terminer, TypeLocales, EnUnPas
  <2>3. Coherence'
    BY <1>6, ReconcilieType, HypContenus, ManifesteType DEF Terminer, Coherence, Entrer, EnUnPas, TypeSession
  <2> QED BY <2>1, <2>2, <2>3
<1> QED BY <1>1, <1>2, <1>3, <1>4, <1>5, <1>6

(* Cancellation, entry by entry.                                          *)
LEMMA TypeAnnuler ==
  ASSUME TypeTeleversement, NEW p \in Processus,
         Annuler(p) \/ SupprimerManifeste(p) \/ SupprimerVerrou(p) \/ SupprimerTemporaires(p)
         \/ SupprimerFichier(p) \/ FinirSuppression(p) \/ EntrerTropTard(p)
  PROVE  TypeTeleversement'
<1> USE DEF TypeTeleversement, session, copies, base, locales, temoins, ReponseEventuelle
<1>1. CASE Annuler(p)
  <2>1. TypeSession' /\ TypeCopies' /\ TypeTemoins'
    BY <1>1 DEF Annuler, TypeSession, TypeCopies, TypeTemoins, Entrer, Prendre
  <2>2. TypeLocales'
    BY <1>1, RecusType DEF Annuler, TypeLocales, Pcs, TypeSession
  <2>3. Coherence'
    BY <1>1, HypContenus DEF Annuler, Coherence, Entrer, Prendre, TypeLocales, TypeSession
  <2> QED BY <2>1, <2>2, <2>3
<1>2. CASE SupprimerManifeste(p)
  <2>1. TypeSession' /\ TypeCopies' /\ TypeTemoins'
    BY <1>2 DEF SupprimerManifeste, TypeSession, TypeCopies, TypeTemoins
  <2>2. TypeLocales'
    BY <1>2 DEF SupprimerManifeste, TypeLocales
  <2>3. Coherence'
    BY <1>2, HypContenus DEF SupprimerManifeste, Coherence, TypeLocales
  <2> QED BY <2>1, <2>2, <2>3
<1>3. CASE SupprimerVerrou(p)
  <2>1. TypeSession' /\ TypeCopies' /\ TypeTemoins'
    BY <1>3 DEF SupprimerVerrou, TypeSession, TypeCopies, TypeTemoins
  <2>2. TypeLocales'
    BY <1>3 DEF SupprimerVerrou, TypeLocales
  <2>3. Coherence'
    BY <1>3, HypContenus DEF SupprimerVerrou, Coherence, TypeLocales
  <2> QED BY <2>1, <2>2, <2>3
<1>4. CASE SupprimerTemporaires(p)
  <2>1. TypeSession' /\ TypeCopies' /\ TypeTemoins'
    BY <1>4 DEF SupprimerTemporaires, TypeSession, TypeCopies, TypeTemoins
  <2>2. TypeLocales'
    BY <1>4, RecusType DEF SupprimerTemporaires, TypeLocales
  <2>3. Coherence'
    BY <1>4, HypContenus DEF SupprimerTemporaires, Coherence, TypeLocales
  <2> QED BY <2>1, <2>2, <2>3
<1>5. CASE SupprimerFichier(p)
  <2>1. TypeSession' /\ TypeCopies' /\ TypeTemoins'
    <3>1. disque' \in Recus
      <4>1. PICK f \in Fichiers : disque' = Restrict(disque, DOMAIN disque \ {f})
        BY <1>5 DEF SupprimerFichier
      <4> QED BY <4>1, RecusType DEF TypeSession
    <3> QED BY <1>5, <3>1 DEF SupprimerFichier, TypeSession, TypeCopies, TypeTemoins
  <2>2. TypeLocales'
    BY <1>5 DEF SupprimerFichier, TypeLocales
  <2>3. Coherence'
    BY <1>5, HypContenus DEF SupprimerFichier, Coherence, TypeLocales
  <2> QED BY <2>1, <2>2, <2>3
<1>6. CASE FinirSuppression(p)
  <2>1. TypeSession' /\ TypeCopies' /\ TypeTemoins'
    BY <1>6, SortirType DEF FinirSuppression, TypeSession, TypeCopies, TypeTemoins
  <2>2. TypeLocales'
    BY <1>6, SortirType DEF FinirSuppression
  <2>3. Coherence'
    BY <1>6, SortirType, HypContenus DEF FinirSuppression, Coherence
  <2> QED BY <2>1, <2>2, <2>3
<1>7. CASE EntrerTropTard(p)
  <2>1. TypeSession' /\ TypeCopies' /\ TypeTemoins'
    BY <1>7 DEF EntrerTropTard, TypeSession, TypeCopies, TypeTemoins, EnUnPas
  <2>2. TypeLocales'
    BY <1>7 DEF EntrerTropTard, TypeLocales, EnUnPas
  <2>3. Coherence'
    BY <1>7, HypContenus DEF EntrerTropTard, Coherence, EnUnPas, TypeSession
  <2> QED BY <2>1, <2>2, <2>3
<1> QED BY <1>1, <1>2, <1>3, <1>4, <1>5, <1>6, <1>7

(* The lot of the session.                                                *)
LEMMA TypeLot ==
  ASSUME TypeTeleversement, NEW p \in Processus,
         RetrouverLot(p) \/ OuvrirLot(p) \/ LotRefuse(p) \/ CreerLot(p)
         \/ LotImpossible(p) \/ Associer(p)
  PROVE  TypeTeleversement'
<1> USE DEF TypeTeleversement, session, copies, base, locales, temoins, ReponseEventuelle
<1>1. CASE RetrouverLot(p)
  <2>1. TypeSession' /\ TypeCopies' /\ TypeTemoins'
    <3>1. manifeste \in Manifestes /\ manifeste' \in Manifestes
      BY <1>1, ReconcilieType DEF RetrouverLot, EntrerLot, Entrer, TypeSession
    <3>2. manifeste.idLot \in Nat \ {0}
      BY <1>1, <3>1, ManifesteType DEF RetrouverLot, SansLot
    <3> QED BY <1>1, <3>1, <3>2 DEF RetrouverLot, TypeSession, TypeCopies, TypeTemoins, EnUnPas, EntrerLot, Entrer
  <2>2. TypeLocales'
    BY <1>1 DEF RetrouverLot, TypeLocales, EnUnPas
  <2>3. Coherence'
    BY <1>1, ReconcilieType, HypContenus, ManifesteType DEF RetrouverLot, Coherence, EntrerLot, Entrer, EnUnPas, TypeSession
  <2> QED BY <2>1, <2>2, <2>3
<1>2. CASE OuvrirLot(p)
  <2>1. TypeSession' /\ TypeCopies' /\ TypeTemoins'
    BY <1>2, ReconcilieType, ManifesteType DEF OuvrirLot, TypeSession, TypeCopies, TypeTemoins, EntrerLot, Entrer, Prendre
  <2>2. TypeLocales'
    BY <1>2 DEF OuvrirLot, TypeLocales, Pcs
  <2>3. Coherence'
    BY <1>2, ReconcilieType, HypContenus, ManifesteType DEF OuvrirLot, Coherence, EntrerLot, Entrer, Prendre, TypeSession, TypeLocales
  <2> QED BY <2>1, <2>2, <2>3
<1>3. CASE LotRefuse(p)
  <2>1. TypeSession' /\ TypeCopies' /\ TypeTemoins'
    BY <1>3, ReconcilieType, ManifesteType DEF LotRefuse, TypeSession, TypeCopies, TypeTemoins, EntrerLot, Entrer, EnUnPas
  <2>2. TypeLocales'
    BY <1>3 DEF LotRefuse, TypeLocales, EnUnPas
  <2>3. Coherence'
    BY <1>3, ReconcilieType, HypContenus, ManifesteType DEF LotRefuse, Coherence, EntrerLot, Entrer, EnUnPas, TypeSession
  <2> QED BY <2>1, <2>2, <2>3
<1>4. CASE CreerLot(p)
  <2>1. TypeSession' /\ TypeCopies' /\ TypeTemoins'
    BY <1>4 DEF CreerLot, TypeSession, TypeCopies, TypeTemoins
  <2>2. TypeLocales'
    BY <1>4 DEF CreerLot, TypeLocales, Pcs, TypeCopies
  <2>3. Coherence'
    BY <1>4, HypContenus DEF CreerLot, Coherence, TypeLocales, TypeCopies, SansLot
  <2> QED BY <2>1, <2>2, <2>3
<1>5. CASE LotImpossible(p)
  <2>1. TypeSession' /\ TypeCopies' /\ TypeTemoins'
    BY <1>5, SortirType DEF LotImpossible, TypeSession, TypeCopies, TypeTemoins
  <2>2. TypeLocales'
    BY <1>5, SortirType DEF LotImpossible
  <2>3. Coherence'
    BY <1>5, SortirType, HypContenus DEF LotImpossible, Coherence
  <2> QED BY <2>1, <2>2, <2>3
<1>6. CASE Associer(p)
  <2>1. TypeSession' /\ TypeCopies' /\ TypeTemoins'
    <3>1. nouveau[p] \in Nat \ {0}
      BY <1>6 DEF Associer, TypeLocales, Coherence, SansLot
    <3>2. CASE Associable(nouveau[p])
      <4>1. manifeste \in Manifestes /\ manifeste.statut = "pret"
        BY <3>2 DEF Associable, TypeSession
      <4>2. manifeste' = [manifeste EXCEPT !.idLot = nouveau[p]]
        BY <1>6, <3>2 DEF Associer
      <4>3. manifeste' \in Manifestes /\ manifeste'.statut = "pret"
        BY <3>1, <4>1, <4>2, ManifesteType
      <4> QED BY <1>6, <3>1, <3>2, <4>3, SortirType DEF Associer, TypeSession, TypeCopies, TypeTemoins
    <3>3. CASE ~Associable(nouveau[p])
      BY <1>6, <3>3, SortirType DEF Associer, TypeSession, TypeCopies, TypeTemoins
    <3> QED BY <3>2, <3>3
  <2>2. TypeLocales'
    BY <1>6, SortirType DEF Associer
  <2>3. Coherence'
    <3>1. nouveau[p] \in Nat \ {0}
      BY <1>6 DEF Associer, TypeLocales, Coherence, SansLot
    <3>2. CASE Associable(nouveau[p])
      <4>1. manifeste \in Manifestes /\ manifeste.statut = "pret"
        BY <3>2 DEF Associable, TypeSession
      <4>2. manifeste' = [manifeste EXCEPT !.idLot = nouveau[p]]
        BY <1>6, <3>2 DEF Associer
      <4>3. manifeste' \in Manifestes /\ manifeste'.statut = "pret"
        BY <3>1, <4>1, <4>2, ManifesteType
      <4> QED BY <1>6, <3>1, <3>2, <4>3, SortirType, HypContenus DEF Associer, Coherence
    <3>3. CASE ~Associable(nouveau[p])
      BY <1>6, <3>3, SortirType, HypContenus DEF Associer, Coherence
    <3> QED BY <3>2, <3>3
  <2> QED BY <2>1, <2>2, <2>3
<1> QED BY <1>1, <1>2, <1>3, <1>4, <1>5, <1>6

(* Promotion, deposit.                                                     *)
LEMMA EntreeType ==
  ASSUME TypeTeleversement, NEW p \in Processus, pc[p] = "copier",
         NEW f, NEW n \in Nat, SourceFidele(p, f), Noter(p, f, n),
         UNCHANGED <<lu, envoi, nouveau>>
  PROVE  TypeLocales'
<1>1. f \in Fichiers /\ disque[f] \in SurDisque /\ lu[p].recus[f] = disque[f]
  BY RecusType DEF SourceFidele, TypeTeleversement, TypeSession
<1>2. [nom |-> f, cle |-> n, sha |-> lu[p].recus[f]] \in Entrees
  BY <1>1 DEF Entrees
<1> QED BY <1>2 DEF Noter, TypeTeleversement, TypeLocales

LEMMA TypePromotion ==
  ASSUME TypeTeleversement, NEW p \in Processus,
         Promouvoir(p) \/ VerifierCopie(p) \/ Copier(p) \/ Interrompre(p)
         \/ Vider(p) \/ SauverCles(p) \/ EffacerJournal(p) \/ Deposer(p) \/ FinirPasse(p)
  PROVE  TypeTeleversement'
<1> USE DEF TypeTeleversement, session, copies, base, locales, temoins
<1>1. CASE Promouvoir(p)
  <2>1. TypeSession' /\ TypeCopies' /\ TypeTemoins'
    BY <1>1, ReconcilieType DEF Promouvoir, Entrer, Prendre, TypeSession, TypeCopies, TypeTemoins
  <2>2. TypeLocales'
    <3>1. Reconcilie(manifeste) \in Manifestes
      BY <1>1, ReconcilieType DEF Promouvoir, Entrer, TypeSession
    <3>2. DOMAIN Reconcilie(manifeste).recus \subseteq Fichiers
      BY <3>1, ManifesteType, RecusType
    <3> QED BY <1>1, <3>1, <3>2 DEF Promouvoir, TypeLocales, Pcs
  <2>3. Coherence'
    <3>1. /\ manifeste \in Manifestes /\ manifeste.statut = "pret" /\ manifeste.idLot # SansLot
          /\ manifeste' = Reconcilie(manifeste) /\ lu'[p] = manifeste'
      BY <1>1 DEF Promouvoir, Entrer, TypeSession, TypeLocales
    <3>2. manifeste' # Absent /\ manifeste'.statut = "pret"
      <4>1. /\ Reconcilie(manifeste) \in Manifestes
            /\ Reconcilie(manifeste).statut = manifeste.statut
        BY <3>1, ReconcilieType DEF TypeSession
      <4> QED BY <3>1, <4>1, ManifesteType
    <3> QED BY <1>1, <3>1, <3>2, HypContenus DEF Promouvoir, Entrer, Prendre, Coherence, TypeLocales, TypeSession
  <2> QED BY <2>1, <2>2, <2>3
<1>2. CASE VerifierCopie(p)
  <2>1. TypeSession' /\ TypeCopies' /\ TypeTemoins'
    BY <1>2 DEF VerifierCopie, TypeSession, TypeCopies, TypeTemoins
  <2>2. TypeLocales'
    <3>1. PICK f \in reste[p] :
             /\ CleConnue(p, f)
             /\ \/ SourceFidele(p, f) /\ Noter(p, f, Cle(p, f))
                \/ Echouer(p)
      BY <1>2 DEF VerifierCopie, Prouvee
    <3>2. CASE SourceFidele(p, f) /\ Noter(p, f, Cle(p, f))
      <4>1. f \in Fichiers
        BY <3>2, RecusType DEF SourceFidele, TypeSession
      <4>2. lu[p] \in Manifestes
        BY <1>2 DEF VerifierCopie, TypeLocales, Coherence
      <4>3. Cle(p, f) \in Nat
        <5>1. CASE lu[p].cles[f] # 0
          BY <5>1, <4>1, <4>2 DEF Cle, Manifestes, Cles
        <5>2. CASE lu[p].cles[f] = 0
          <6>1. (CHOOSE e \in AuJournal(f) : TRUE) \in journal
            BY <3>1, <5>2 DEF CleConnue, AuJournal
          <6> QED BY <6>1, <5>2 DEF Cle, TypeCopies, Entrees
        <5> QED BY <5>1, <5>2
      <4> QED BY <1>2, <3>2, <4>3, EntreeType DEF VerifierCopie
    <3>3. CASE Echouer(p)
      BY <1>2, <3>3 DEF VerifierCopie, Echouer, TypeLocales, Pcs
    <3> QED BY <3>1, <3>2, <3>3
  <2>3. Coherence'
    BY <1>2, HypContenus DEF VerifierCopie, Noter, Echouer, Coherence, TypeLocales
  <2> QED BY <2>1, <2>2, <2>3
<1>3. CASE Copier(p)
  <2>1. PICK f \in reste[p] :
           /\ SourceFidele(p, f)
           /\ \E c \in {disque[f], Tronque} : objets' = [objets EXCEPT ![f] = Append(@, c)]
           /\ Noter(p, f, Len(objets[f]) + 1) \/ Echouer(p)
    BY <1>3 DEF Copier
  <2>2. f \in Fichiers /\ disque[f] \in SurDisque
    BY <2>1, RecusType DEF SourceFidele, TypeSession
  <2>3. Len(objets[f]) \in Nat /\ objets' \in [Fichiers -> Seq(SurDisque \cup {Tronque})]
    BY <2>1, <2>2 DEF TypeCopies
  <2>4. TypeSession' /\ TypeCopies' /\ TypeTemoins'
    BY <1>3, <2>3 DEF Copier, TypeSession, TypeCopies, TypeTemoins
  <2>5. TypeLocales'
    <3>1. CASE Noter(p, f, Len(objets[f]) + 1)
      BY <1>3, <2>1, <2>3, <3>1, EntreeType DEF Copier
    <3>2. CASE Echouer(p)
      BY <1>3, <3>2 DEF Copier, Echouer, TypeLocales, Pcs
    <3> QED BY <2>1, <3>1, <3>2
  <2>6. Coherence'
    BY <1>3, HypContenus DEF Copier, Noter, Echouer, Coherence, TypeLocales
  <2> QED BY <2>4, <2>5, <2>6
<1>4. CASE Interrompre(p)
  <2>1. TypeSession' /\ TypeCopies' /\ TypeTemoins'
    BY <1>4 DEF Interrompre, TypeSession, TypeCopies, TypeTemoins
  <2>2. TypeLocales'
    BY <1>4 DEF Interrompre, Echouer, TypeLocales, Pcs
  <2>3. Coherence'
    BY <1>4, HypContenus DEF Interrompre, Echouer, Coherence, TypeLocales
  <2> QED BY <2>1, <2>2, <2>3
<1>5. CASE Vider(p)
  BY <1>5 DEF Vider, TypeSession, TypeCopies, TypeLocales, TypeTemoins, Coherence
<1>6. CASE SauverCles(p)
  <2>1. lu[p] \in Manifestes
    BY <1>6 DEF SauverCles, TypeLocales, Coherence
  <2>2. Avec(Nouvelles(p), lu[p].cles) \in Cles
    <3>1. \A f \in DOMAIN Nouvelles(p) : f \in Fichiers /\ Nouvelles(p)[f] \in Nat
      <4> TAKE f \in DOMAIN Nouvelles(p)
      <4>1. \E e \in tampon[p] : e.nom = f
        BY DEF Nouvelles
      <4>2. (CHOOSE e \in tampon[p] : e.nom = f) \in tampon[p]
        BY <4>1
      <4>3. tampon[p] \subseteq Entrees
        BY DEF TypeLocales
      <4> QED BY <4>1, <4>2, <4>3 DEF Nouvelles, Entrees
    <3>2. lu[p].cles \in [Fichiers -> Nat]
      BY <2>1 DEF Manifestes, Cles
    <3> QED BY <3>1, <3>2 DEF Avec, Cles
  <2>3. \/ manifeste' = manifeste
        \/ /\ manifeste' \in Manifestes
           /\ manifeste'.idLot = lu[p].idLot /\ manifeste'.statut = lu[p].statut
    <3>1. manifeste' \in {manifeste, [lu[p] EXCEPT !.cles = Avec(Nouvelles(p), lu[p].cles)]}
      BY <1>6 DEF SauverCles
    <3>2. LET m == [lu[p] EXCEPT !.cles = Avec(Nouvelles(p), lu[p].cles)]
          IN  m \in Manifestes /\ m.idLot = lu[p].idLot /\ m.statut = lu[p].statut
      BY <2>1, <2>2, ManifesteType
    <3> QED BY <3>1, <3>2
  <2>4. CASE pc[p] = "clore"
    <3>1. Sortir(p)
      BY <1>6, <2>4 DEF SauverCles
    <3>2. TypeSession' /\ TypeCopies' /\ TypeTemoins'
      BY <1>6, <2>3, <3>1, SortirType DEF SauverCles, TypeSession, TypeCopies, TypeTemoins
    <3>3. Coherence'
      BY <1>6, <2>3, <2>4, <3>1, SortirType, HypContenus DEF SauverCles, Coherence
    <3> QED BY <3>1, <3>2, <3>3, SortirType
  <2>5. CASE pc[p] = "copier"
    <3>1. TypeSession' /\ TypeCopies' /\ TypeTemoins'
      BY <1>6, <2>3, <2>5 DEF SauverCles, TypeSession, TypeCopies, TypeTemoins
    <3>2. TypeLocales'
      BY <1>6, <2>5 DEF SauverCles, TypeLocales, Pcs
    <3>3. Coherence'
      BY <1>6, <2>3, <2>5, HypContenus DEF SauverCles, Coherence, TypeLocales
    <3> QED BY <3>1, <3>2, <3>3
  <2> QED BY <1>6, <2>4, <2>5 DEF SauverCles
<1>7. CASE EffacerJournal(p)
  <2>1. TypeSession' /\ TypeCopies' /\ TypeTemoins'
    BY <1>7, RendreType DEF EffacerJournal, TypeSession, TypeCopies, TypeTemoins
  <2>2. TypeLocales'
    BY <1>7 DEF EffacerJournal, TypeLocales, Pcs
  <2>3. Coherence'
    BY <1>7, RendreType, HypContenus DEF EffacerJournal, Coherence, TypeLocales
  <2> QED BY <2>1, <2>2, <2>3
<1>8. CASE Deposer(p)
  <2>1. PICK f \in DOMAIN disque :
           /\ deposes' = deposes \cup {f}
           /\ disque' = disque \/ disque' = Restrict(disque, DOMAIN disque \ {f})
    BY <1>8 DEF Deposer
  <2>2. f \in Fichiers /\ Restrict(disque, DOMAIN disque \ {f}) \in Recus
    BY <2>1, RecusType DEF TypeSession
  <2>3. disque' \in Recus
    BY <2>1, <2>2 DEF TypeSession
  <2> QED BY <1>8, <2>1, <2>2, <2>3 DEF Deposer, TypeSession, TypeCopies, TypeLocales, TypeTemoins, Coherence
<1>9. CASE FinirPasse(p)
  <2>1. TypeSession' /\ TypeCopies' /\ TypeTemoins'
    BY <1>9 DEF FinirPasse, TypeSession, TypeCopies, TypeTemoins
  <2>2. TypeLocales'
    BY <1>9, OublierType DEF FinirPasse
  <2>3. Coherence'
    BY <1>9, OublierType, HypContenus DEF FinirPasse, Coherence
  <2> QED BY <2>1, <2>2, <2>3
<1> QED BY <1>1, <1>2, <1>3, <1>4, <1>5, <1>6, <1>7, <1>8, <1>9

(* Crashes, damaged files and copies.                                      *)
LEMMA TypePanne ==
  ASSUME TypeTeleversement, NEW p \in Processus, Panne(p)
  PROVE  TypeTeleversement'
<1> USE DEF TypeTeleversement, copies, base, temoins
<1>1. TypeSession' /\ TypeCopies' /\ TypeTemoins'
  BY SortirType DEF Panne, TypeSession, TypeCopies, TypeTemoins
<1>2. Coherence'
  BY SortirType, HypContenus DEF Panne, Coherence
<1> QED BY <1>1, <1>2, SortirType DEF Panne

LEMMA TypeFautes ==
  ASSUME TypeTeleversement, Alterer \/ AltererCopie
  PROVE  TypeTeleversement'
<1> USE DEF TypeTeleversement, session, copies, base, locales, temoins
<1>1. CASE Alterer
  <2>1. PICK f \in DOMAIN disque : \/ disque' = Restrict(disque, DOMAIN disque \ {f})
                                 \/ disque' = [disque EXCEPT ![f] = Abime]
    BY <1>1 DEF Alterer
  <2>2. /\ Restrict(disque, DOMAIN disque \ {f}) \in Recus
        /\ [disque EXCEPT ![f] = Abime] \in Recus
    BY RecusType DEF TypeSession
  <2>3. disque' \in Recus
    BY <2>1, <2>2
  <2> QED BY <1>1, <2>3 DEF Alterer, TypeSession, TypeCopies, TypeLocales, TypeTemoins, Coherence
<1>2. CASE AltererCopie
  <2>1. PICK f \in Fichiers : \E n \in DOMAIN objets[f] : objets' = [objets EXCEPT ![f][n] = Tronque]
    BY <1>2 DEF AltererCopie
  <2>2. PICK n \in DOMAIN objets[f] : objets' = [objets EXCEPT ![f][n] = Tronque]
    BY <2>1
  <2>3. objets[f] \in Seq(SurDisque \cup {Tronque})
    BY DEF TypeCopies
  <2>4. [objets[f] EXCEPT ![n] = Tronque] \in Seq(SurDisque \cup {Tronque})
    BY <2>3
  <2>5. objets' \in [Fichiers -> Seq(SurDisque \cup {Tronque})]
    BY <2>2, <2>4 DEF TypeCopies
  <2>6. /\ promu' = FALSE /\ fautes' = fautes + 1
        /\ UNCHANGED <<session, journal, base, locales, temoins, intrus, pannes>>
    BY <1>2 DEF AltererCopie
  <2>7. TypeCopies'
    BY <2>5, <2>6 DEF TypeCopies
  <2>8. TypeSession' /\ TypeLocales' /\ TypeTemoins' /\ Coherence'
    BY <2>6 DEF TypeSession, TypeLocales, TypeTemoins, Coherence
  <2> QED BY <2>7, <2>8
<1> QED BY <1>1, <1>2

(* Every reachable state of a session, of its copies and of the requests   *)
(* under way is well typed, and each request holds what its place needs.   *)
THEOREM TypeCorrectTeleversement == Spec => []TypeTeleversement
<1>1. TypeTeleversement /\ [Next]_vars => TypeTeleversement'
  <2> SUFFICES ASSUME TypeTeleversement, [Next]_vars PROVE TypeTeleversement'
    OBVIOUS
  <2>1. ASSUME NEW p \in Processus, PasSession(p) PROVE TypeTeleversement'
    BY <2>1, TypeCreer, TypeRecevoir, TypeAnnuler, TypeLot DEF PasSession
  <2>2. ASSUME NEW p \in Processus, PasPromotion(p) PROVE TypeTeleversement'
    BY <2>2, TypePromotion DEF PasPromotion
  <2>3. CASE UNCHANGED vars
    BY <2>3 DEF vars, session, copies, base, locales, temoins, TypeTeleversement,
                TypeSession, TypeCopies, TypeLocales, TypeTemoins, Coherence
  <2> QED BY <2>1, <2>2, <2>3, TypePanne, TypeFautes DEF Next
<1> QED BY InitType, <1>1, PTL DEF Spec

-----------------------------------------------------------------------------
(* Who holds the lock.                                                     *)
Pas(p) == PasSession(p) \/ PasPromotion(p) \/ Panne(p)

(* A step of p takes the lock when it is free, or gives back its own, or   *)
(* leaves it; it has it where it needs it; the others do not move.         *)
Effet(p) ==
  /\ \A q \in Processus \ {p} : pc'[q] = pc[q] /\ lu'[q] = lu[q] /\ reste'[q] = reste[q]
  /\ verrou'.tenant # verrou.tenant => verrou.tenant \in {Personne, p}
  /\ Tient(p)' => verrou'.tenant = p

(* Creation and reception.                                                *)
LEMMA EffetTransfert ==
  ASSUME TypeTeleversement, InvVerrou, NEW p \in Processus,
         CreerReserver(p) \/ CreerRelire(p) \/ CreerDossier(p) \/ CreerRefuse(p)
         \/ CreerMarquer(p) \/ Recevoir(p) \/ PromouvoirFichier(p) \/ PromotionRompue(p)
         \/ SauverEnvoi(p) \/ Etat(p) \/ Terminer(p)
  PROVE  Effet(p)
<1> USE HypContenus, HypStructure DEF TypeTeleversement, TypeSession, TypeLocales, InvVerrou, Effet, Tient, SousVerrou,
      session, copies, base, locales, Structure
<1>1. CASE CreerReserver(p)
  BY <1>1 DEF CreerReserver
<1>2. CASE CreerRelire(p)
  BY <1>2, OublierType DEF CreerRelire, Libre
<1>3. CASE CreerDossier(p)
  BY <1>3 DEF CreerDossier
<1>4. CASE CreerRefuse(p)
  BY <1>4, OublierType DEF CreerRefuse
<1>5. CASE CreerMarquer(p)
  BY <1>5, OublierType DEF CreerMarquer
<1>6. CASE Recevoir(p)
  BY <1>6 DEF Recevoir, Entrer, Prendre, Libre
<1>7. CASE PromouvoirFichier(p)
  BY <1>7 DEF PromouvoirFichier
<1>8. CASE PromotionRompue(p)
  BY <1>8, SortirType DEF PromotionRompue
<1>9. CASE SauverEnvoi(p)
  BY <1>9, SortirType DEF SauverEnvoi
<1>10. CASE Etat(p)
  BY <1>10 DEF Etat, Entrer, EnUnPas, Libre
<1>11. CASE Terminer(p)
  BY <1>11 DEF Terminer, Entrer, EnUnPas, Libre
<1> QED BY <1>1, <1>2, <1>3, <1>4, <1>5, <1>6, <1>7, <1>8, <1>9, <1>10, <1>11

(* Cancellation.                                                          *)
LEMMA EffetAnnuler ==
  ASSUME TypeTeleversement, InvVerrou, NEW p \in Processus,
         Annuler(p) \/ SupprimerManifeste(p) \/ SupprimerVerrou(p) \/ SupprimerTemporaires(p)
         \/ SupprimerFichier(p) \/ FinirSuppression(p) \/ EntrerTropTard(p)
  PROVE  Effet(p)
<1> USE HypContenus, HypStructure DEF TypeTeleversement, TypeSession, TypeLocales, InvVerrou, Effet, Tient, SousVerrou,
      session, copies, base, locales, Structure
<1>1. CASE Annuler(p)
  BY <1>1 DEF Annuler, Entrer, Prendre, Libre
<1>2. CASE SupprimerManifeste(p)
  BY <1>2 DEF SupprimerManifeste
<1>3. CASE SupprimerVerrou(p)
  BY <1>3 DEF SupprimerVerrou
<1>4. CASE SupprimerTemporaires(p)
  BY <1>4 DEF SupprimerTemporaires
<1>5. CASE SupprimerFichier(p)
  BY <1>5 DEF SupprimerFichier
<1>6. CASE FinirSuppression(p)
  BY <1>6, SortirType DEF FinirSuppression
<1>7. CASE EntrerTropTard(p)
  BY <1>7 DEF EntrerTropTard, EnUnPas, Coherence
<1> QED BY <1>1, <1>2, <1>3, <1>4, <1>5, <1>6, <1>7

(* The lot.                                                               *)
LEMMA EffetLot ==
  ASSUME TypeTeleversement, InvVerrou, NEW p \in Processus,
         RetrouverLot(p) \/ OuvrirLot(p) \/ LotRefuse(p) \/ CreerLot(p)
         \/ LotImpossible(p) \/ Associer(p)
  PROVE  Effet(p)
<1> USE HypContenus, HypStructure DEF TypeTeleversement, TypeSession, TypeLocales, InvVerrou, Effet, Tient, SousVerrou,
      session, copies, base, locales, Structure
<1>1. CASE RetrouverLot(p)
  BY <1>1 DEF RetrouverLot, EntrerLot, Entrer, EnUnPas, Libre
<1>2. CASE OuvrirLot(p)
  BY <1>2 DEF OuvrirLot, EntrerLot, Entrer, Prendre, Libre
<1>3. CASE LotRefuse(p)
  BY <1>3 DEF LotRefuse, EntrerLot, Entrer, EnUnPas, Libre
<1>4. CASE CreerLot(p)
  BY <1>4 DEF CreerLot
<1>5. CASE LotImpossible(p)
  BY <1>5, SortirType DEF LotImpossible
<1>6. CASE Associer(p)
  BY <1>6, SortirType DEF Associer
<1> QED BY <1>1, <1>2, <1>3, <1>4, <1>5, <1>6

(* Promotion.                                                             *)
LEMMA EffetPromotion ==
  ASSUME TypeTeleversement, InvVerrou, NEW p \in Processus,
         Promouvoir(p) \/ VerifierCopie(p) \/ Copier(p) \/ Interrompre(p)
         \/ Vider(p) \/ SauverCles(p) \/ EffacerJournal(p) \/ Deposer(p)
         \/ FinirPasse(p)
  PROVE  Effet(p)
<1> USE HypContenus, HypStructure DEF TypeTeleversement, TypeSession, TypeLocales, InvVerrou, Effet, Tient, SousVerrou,
      session, copies, base, locales, Structure
<1>1. CASE Promouvoir(p)
  BY <1>1 DEF Promouvoir, Entrer, Prendre, Libre
<1>2. CASE VerifierCopie(p)
  BY <1>2 DEF VerifierCopie, Noter, Echouer
<1>3. CASE Copier(p)
  BY <1>3 DEF Copier, Noter, Echouer
<1>4. CASE Interrompre(p)
  BY <1>4 DEF Interrompre, Echouer
<1>5. CASE Vider(p)
  BY <1>5 DEF Vider
<1>6. CASE SauverCles(p)
  BY <1>6, SortirType DEF SauverCles
<1>7. CASE EffacerJournal(p)
  BY <1>7, RendreType DEF EffacerJournal
<1>8. CASE Deposer(p)
  BY <1>8 DEF Deposer
<1>9. CASE FinirPasse(p)
  BY <1>9, OublierType DEF FinirPasse
<1> QED BY <1>1, <1>2, <1>3, <1>4, <1>5, <1>6, <1>7, <1>8, <1>9

LEMMA EffetPas ==
  ASSUME TypeTeleversement, InvVerrou, NEW p \in Processus, Pas(p)
  PROVE  Effet(p)
<1>1. CASE Panne(p)
  BY <1>1, SortirType DEF Panne, Effet, Tient, SousVerrou
<1> QED BY <1>1, EffetTransfert, EffetAnnuler, EffetLot, EffetPromotion DEF Pas, PasSession, PasPromotion

(* Who works on a session holds its lock.                                  *)
LEMMA PasInvVerrou ==
  ASSUME TypeTeleversement, InvVerrou, [Next]_vars
  PROVE  InvVerrou'
<1>1. ASSUME NEW p \in Processus, Pas(p) PROVE InvVerrou'
  <2>1. Effet(p)
    BY <1>1, EffetPas
  <2> SUFFICES ASSUME NEW q \in Processus, Tient(q)' PROVE verrou'.tenant = q
    BY DEF InvVerrou
  <2>2. CASE q # p
    BY <2>1, <2>2, HypContenus DEF Effet, InvVerrou, Tient
  <2>3. CASE q = p
    BY <2>1, <2>3 DEF Effet
  <2> QED BY <2>2, <2>3
<1>2. CASE Alterer \/ AltererCopie \/ UNCHANGED vars
  BY <1>2 DEF Alterer, AltererCopie, vars, session, locales, InvVerrou, Tient
<1> QED BY <1>1, <1>2 DEF Next, Pas

(* A session known, or worked on, exists.                                  *)
LEMMA PasInvCree ==
  ASSUME TypeTeleversement, InvVerrou, InvCree, [Next]_vars
  PROVE  InvCree'
<1> DEFINE Connue == rendus # {} \/ annulation # "aucune" \/ lotsRendus # {}
<1>1. ASSUME NEW p \in Processus, PasSession(p)
      PROVE  /\ registre' = registre \/ (registre'.cree /\ registre'.jeton = 1)
                \/ (registre.jeton = 0 /\ ~registre'.cree)
             /\ Connue' => Connue \/ registre'.cree
             /\ pc'[p] \in SousVerrou \cup {"supprimer"} => registre'.cree
  <2> USE DEF TypeTeleversement, TypeSession, TypeLocales, TypeTemoins, InvCree, SousVerrou, ReponseEventuelle,
              session, copies, base, locales, temoins, Coherence
  <2>1. CASE CreerReserver(p)
    BY <1>1, <2>1 DEF CreerReserver
  <2>2. CASE CreerRelire(p) \/ CreerRefuse(p) \/ CreerMarquer(p)
    BY <1>1, <2>2, OublierType DEF CreerRelire, CreerRefuse, CreerMarquer
  <2>3. CASE CreerDossier(p)
    BY <1>1, <2>3 DEF CreerDossier
  <2>4. CASE Recevoir(p) \/ PromouvoirFichier(p)
    BY <1>1, <2>4 DEF Recevoir, PromouvoirFichier, Entrer
  <2>5. CASE PromotionRompue(p) \/ SauverEnvoi(p) \/ FinirSuppression(p) \/ LotImpossible(p)
    BY <1>1, <2>5, SortirType DEF PromotionRompue, SauverEnvoi, FinirSuppression, LotImpossible
  <2>6. CASE Etat(p) \/ Terminer(p) \/ EntrerTropTard(p)
    BY <1>1, <2>6 DEF Etat, Terminer, EntrerTropTard, Entrer, EnUnPas
  <2>7. CASE Annuler(p) \/ SupprimerManifeste(p) \/ SupprimerVerrou(p) \/ SupprimerTemporaires(p)
             \/ SupprimerFichier(p)
    BY <1>1, <2>7 DEF Annuler, SupprimerManifeste, SupprimerVerrou, SupprimerTemporaires, SupprimerFichier, Entrer
  <2>8. CASE RetrouverLot(p) \/ OuvrirLot(p) \/ LotRefuse(p) \/ CreerLot(p)
    BY <1>1, <2>8 DEF RetrouverLot, OuvrirLot, LotRefuse, CreerLot, EntrerLot, Entrer, EnUnPas
  <2>9. CASE Associer(p)
    BY <1>1, <2>9, SortirType DEF Associer
  <2> QED BY <1>1, <2>1, <2>2, <2>3, <2>4, <2>5, <2>6, <2>7, <2>8, <2>9 DEF PasSession
<1>2. ASSUME NEW p \in Processus, PasPromotion(p) \/ Panne(p)
      PROVE  /\ registre' = registre /\ (Connue' <=> Connue)
             /\ pc'[p] \in SousVerrou \cup {"supprimer"} => registre'.cree
  <2> USE DEF TypeTeleversement, TypeSession, TypeLocales, InvCree, SousVerrou,
              session, copies, base, locales, temoins
  <2>1. CASE Panne(p)
    BY <2>1, SortirType DEF Panne
  <2>2. CASE Promouvoir(p)
    BY <2>2 DEF Promouvoir, Entrer
  <2>3. CASE VerifierCopie(p) \/ Copier(p) \/ Interrompre(p)
    BY <2>3 DEF VerifierCopie, Copier, Interrompre, Noter, Echouer
  <2>4. CASE Vider(p) \/ EffacerJournal(p) \/ Deposer(p)
    BY <2>4 DEF Vider, EffacerJournal, Deposer
  <2>5. CASE SauverCles(p)
    BY <2>5, SortirType DEF SauverCles
  <2>6. CASE FinirPasse(p)
    BY <2>6, OublierType DEF FinirPasse
  <2> QED BY <1>2, <2>1, <2>2, <2>3, <2>4, <2>5, <2>6 DEF PasPromotion
<1>3. ASSUME NEW p \in Processus, Pas(p) PROVE InvCree'
  <2>1. Effet(p)
    BY <1>3, EffetPas
  <2>2. /\ registre' = registre \/ (registre'.cree /\ registre'.jeton = 1)
           \/ (registre.jeton = 0 /\ ~registre'.cree)
        /\ Connue' => Connue \/ registre'.cree
        /\ pc'[p] \in SousVerrou \cup {"supprimer"} => registre'.cree
    BY <1>1, <1>2, <1>3 DEF Pas
  <2> QED BY <2>1, <2>2 DEF InvCree, Effet
<1>4. CASE Alterer \/ AltererCopie \/ UNCHANGED vars
  BY <1>4 DEF Alterer, AltererCopie, vars, session, locales, temoins, InvCree
<1> QED BY <1>3, <1>4 DEF Next, Pas

(* Files are received before the lot is made, and promoted after.          *)
LEMMA LuGarde ==
  ASSUME TypeTeleversement, NEW p \in Processus, Pas(p), ~Recevoir(p), ~Promouvoir(p)
  PROVE  /\ pc'[p] = "promouvoir" => pc[p] = "promouvoir" /\ lu'[p] = lu[p]
         /\ pc'[p] \in {"copier", "clore"} => pc[p] \in {"copier", "clore"} /\ lu'[p] = lu[p]
<1> USE DEF TypeTeleversement, TypeLocales, locales
<1>1. CASE Panne(p)
  BY <1>1, SortirType DEF Panne
<1>2. CASE CreerReserver(p) \/ CreerDossier(p)
  BY <1>2 DEF CreerReserver, CreerDossier
<1>3. CASE CreerRelire(p) \/ CreerRefuse(p) \/ CreerMarquer(p) \/ FinirPasse(p)
  BY <1>3, OublierType DEF CreerRelire, CreerRefuse, CreerMarquer, FinirPasse
<1>4. CASE PromouvoirFichier(p)
  BY <1>4 DEF PromouvoirFichier
<1>5. CASE PromotionRompue(p) \/ SauverEnvoi(p) \/ FinirSuppression(p) \/ LotImpossible(p) \/ Associer(p)
  BY <1>5, SortirType DEF PromotionRompue, SauverEnvoi, FinirSuppression, LotImpossible, Associer
<1>6. CASE Etat(p) \/ Terminer(p) \/ EntrerTropTard(p) \/ RetrouverLot(p) \/ LotRefuse(p)
  BY <1>6 DEF Etat, Terminer, EntrerTropTard, RetrouverLot, LotRefuse, EnUnPas
<1>7. CASE Annuler(p) \/ SupprimerManifeste(p) \/ SupprimerVerrou(p) \/ SupprimerTemporaires(p)
           \/ SupprimerFichier(p)
  BY <1>7 DEF Annuler, SupprimerManifeste, SupprimerVerrou, SupprimerTemporaires, SupprimerFichier
<1>8. CASE OuvrirLot(p) \/ CreerLot(p)
  BY <1>8 DEF OuvrirLot, CreerLot
<1>9. CASE VerifierCopie(p) \/ Copier(p) \/ Interrompre(p)
  BY <1>9 DEF VerifierCopie, Copier, Interrompre, Noter, Echouer
<1>10. CASE Vider(p) \/ EffacerJournal(p) \/ Deposer(p)
  BY <1>10 DEF Vider, EffacerJournal, Deposer
<1>11. CASE SauverCles(p)
  BY <1>11, SortirType DEF SauverCles
<1> QED BY <1>1, <1>2, <1>3, <1>4, <1>5, <1>6, <1>7, <1>8, <1>9, <1>10, <1>11 DEF Pas, PasSession, PasPromotion

LEMMA PromouvoirLu ==
  ASSUME TypeTeleversement, NEW p \in Processus, Promouvoir(p)
  PROVE  /\ manifeste \in Manifestes /\ manifeste.idLot # SansLot
         /\ pc'[p] = "copier" /\ lu'[p] = manifeste' /\ manifeste'.idLot = manifeste.idLot
         /\ lotsRendus' = lotsRendus /\ annulation' = annulation /\ verrou'.present
<1>1. manifeste \in Manifestes /\ manifeste.idLot # SansLot
  BY DEF Promouvoir, Entrer, TypeTeleversement, TypeSession
<1>2. Reconcilie(manifeste).idLot = manifeste.idLot
  BY <1>1, ReconcilieType DEF TypeTeleversement, TypeSession
<1> QED BY <1>1, <1>2 DEF Promouvoir, Prendre, temoins, TypeTeleversement, TypeLocales

LEMMA PasInvLu ==
  ASSUME TypeTeleversement, InvVerrou, InvLu, [Next]_vars
  PROVE  InvLu'
<1>1. ASSUME NEW p \in Processus, Pas(p) PROVE InvLu'
  <2>1. Effet(p)
    BY <1>1, EffetPas
  <2>2. CASE Recevoir(p)
    <3>1. pc'[p] = "promouvoir" /\ lu'[p] = manifeste
      BY <2>2 DEF Recevoir, TypeTeleversement, TypeLocales
    <3>2. manifeste.idLot = SansLot
      BY <2>2 DEF Recevoir, Recevable, Entrer, TypeTeleversement, Coherence
    <3> QED BY <2>1, <3>1, <3>2 DEF InvLu, Effet
  <2>3. CASE Promouvoir(p)
    BY <2>1, <2>3, PromouvoirLu DEF InvLu, Effet
  <2>4. CASE ~Recevoir(p) /\ ~Promouvoir(p)
    BY <1>1, <2>1, <2>4, LuGarde DEF InvLu, Effet
  <2> QED BY <2>2, <2>3, <2>4
<1>2. CASE Alterer \/ AltererCopie \/ UNCHANGED vars
  BY <1>2 DEF Alterer, AltererCopie, vars, locales, InvLu
<1> QED BY <1>1, <1>2 DEF Next, Pas

-----------------------------------------------------------------------------
(* After a first answer, the state of p and of the manifest keeps it.      *)
Garde(n, p) ==
  /\ lotsRendus' = {n} /\ verrou'.present /\ annulation' # "accusee"
  /\ manifeste' # Absent => manifeste'.idLot = n
  /\ pc'[p] \notin {"promouvoir", "creerLot", "associer"}
  /\ pc'[p] \in {"copier", "clore"} => lu'[p].idLot = n
  /\ pc'[p] = "supprimer" => "session.lock" \notin reste'[p]

LEMMA GardeSession ==
  ASSUME TypeTeleversement, InvVerrou, InvCree, InvRendu, NEW n, lotsRendus = {n},
         NEW p \in Processus, PasSession(p)
  PROVE  Garde(n, p)
<1> DEFINE Avant == /\ verrou.present /\ annulation # "accusee" /\ registre.cree
                    /\ manifeste # Absent => manifeste.idLot = n
                    /\ n \in Nat \ {0}
                    /\ \A q \in Processus :
                         /\ pc[q] \notin {"promouvoir", "creerLot", "associer"}
                         /\ pc[q] \in {"copier", "clore"} => lu[q].idLot = n
                         /\ pc[q] = "supprimer" => "session.lock" \notin reste[q]
<1>0. Avant
  BY DEF InvRendu, InvCree, TypeTeleversement, TypeTemoins
<1> HIDE DEF Avant
<1> USE DEF TypeTeleversement, TypeLocales, session, copies, base, locales, temoins, Garde
<1>1. CASE CreerReserver(p)
  BY <1>0, <1>1 DEF CreerReserver, Avant
<1>2. CASE CreerRelire(p) \/ CreerRefuse(p) \/ CreerMarquer(p)
  BY <1>0, <1>2, OublierType DEF CreerRelire, CreerRefuse, CreerMarquer, Avant
<1>3. CASE CreerDossier(p)
  BY <1>0, <1>3 DEF CreerDossier, Avant
<1>4. CASE Recevoir(p) \/ PromouvoirFichier(p) \/ PromotionRompue(p) \/ SauverEnvoi(p)
  <2>1. manifeste # Absent => manifeste.statut = "pret"
    BY <1>0 DEF Coherence, Avant, SansLot
  <2> QED BY <1>0, <1>4, <2>1 DEF Recevoir, Recevable, Entrer, PromouvoirFichier, PromotionRompue, SauverEnvoi, Avant
<1>5. CASE Etat(p) \/ Terminer(p) \/ RetrouverLot(p) \/ LotRefuse(p)
  <2>1. manifeste \in Manifestes
    BY <1>5 DEF Etat, Terminer, RetrouverLot, LotRefuse, EntrerLot, Entrer, TypeSession
  <2>2. Reconcilie(manifeste) \in Manifestes /\ Reconcilie(manifeste).idLot = manifeste.idLot
    BY <2>1, ReconcilieType DEF TypeSession
  <2>3. manifeste' # Absent => manifeste'.idLot = n
    <3>1. CASE Terminer(p)
      <4>1. manifeste'.idLot = Reconcilie(manifeste).idLot
        BY <2>2, <3>1 DEF Terminer, Manifestes
      <4> QED BY <1>0, <2>1, <2>2, <4>1, ManifesteType DEF Avant
    <3>2. CASE ~Terminer(p)
      BY <1>0, <1>5, <2>1, <2>2, <3>2, ManifesteType DEF Etat, RetrouverLot, LotRefuse, EntrerLot, Avant
    <3> QED BY <3>1, <3>2
  <2>4. lotsRendus' = {n}
    BY <1>0, <1>5, <2>1, ManifesteType
       DEF Etat, Terminer, RetrouverLot, LotRefuse, ReponseEventuelle, Avant
  <2>5. /\ verrou'.present /\ annulation' = annulation
        /\ pc' = pc /\ lu' = lu /\ reste' = reste
    BY <1>5 DEF Etat, Terminer, RetrouverLot, LotRefuse, EnUnPas
  <2> QED BY <1>0, <2>3, <2>4, <2>5 DEF Avant
<1>6. CASE Annuler(p) \/ OuvrirLot(p) \/ CreerLot(p) \/ LotImpossible(p) \/ Associer(p)
  BY <1>0, <1>6, ManifesteType DEF Annuler, OuvrirLot, EntrerLot, Entrer, CreerLot, LotImpossible, Associer, Avant, SansLot, TypeSession
<1>7. CASE SupprimerManifeste(p) \/ SupprimerVerrou(p) \/ SupprimerTemporaires(p) \/ SupprimerFichier(p)
  BY <1>0, <1>7 DEF SupprimerManifeste, SupprimerVerrou, SupprimerTemporaires, SupprimerFichier, Avant
<1>8. CASE FinirSuppression(p)
  BY <1>0, <1>8, SortirType DEF FinirSuppression, Avant
<1>9. CASE EntrerTropTard(p)
  BY <1>0, <1>9 DEF EntrerTropTard, EnUnPas, Avant
<1> QED BY <1>1, <1>2, <1>3, <1>4, <1>5, <1>6, <1>7, <1>8, <1>9 DEF PasSession

LEMMA GardePromotion ==
  ASSUME TypeTeleversement, InvVerrou, InvCree, InvRendu, NEW n, lotsRendus = {n},
         NEW p \in Processus, PasPromotion(p) \/ Panne(p)
  PROVE  Garde(n, p)
<1> DEFINE Avant == /\ verrou.present /\ annulation # "accusee"
                    /\ manifeste # Absent => manifeste.idLot = n
                    /\ \A q \in Processus :
                         /\ pc[q] \notin {"promouvoir", "creerLot", "associer"}
                         /\ pc[q] \in {"copier", "clore"} => lu[q].idLot = n
                         /\ pc[q] = "supprimer" => "session.lock" \notin reste[q]
<1>0. Avant
  BY DEF InvRendu
<1> HIDE DEF Avant
<1> USE DEF TypeTeleversement, TypeLocales, session, copies, base, locales, temoins, Garde
<1>1. CASE Promouvoir(p)
  BY <1>0, <1>1, PromouvoirLu, ManifesteType DEF Avant
<1>2. CASE VerifierCopie(p) \/ Copier(p) \/ Interrompre(p)
  BY <1>0, <1>2 DEF VerifierCopie, Copier, Interrompre, Noter, Echouer, Avant
<1>3. CASE Vider(p) \/ Deposer(p)
  BY <1>0, <1>3 DEF Vider, Deposer, Avant
<1>4. CASE SauverCles(p)
  <2>1. lu[p] \in Manifestes /\ lu[p].idLot = n
    BY <1>0, <1>4 DEF SauverCles, Coherence, Avant
  <2>2. manifeste' # Absent => manifeste'.idLot = n
    <3>1. \/ manifeste' = manifeste
          \/ manifeste' = [lu[p] EXCEPT !.cles = Avec(Nouvelles(p), lu[p].cles)]
      BY <1>4 DEF SauverCles
    <3>2. [lu[p] EXCEPT !.cles = Avec(Nouvelles(p), lu[p].cles)].idLot = n
      BY <2>1 DEF Manifestes
    <3> QED BY <1>0, <3>1, <3>2 DEF Avant
  <2>3. CASE Sortir(p)
    BY <1>0, <1>4, <2>2, <2>3, SortirType DEF SauverCles, Avant
  <2>4. CASE ~Sortir(p)
    BY <1>0, <1>4, <2>2, <2>4 DEF SauverCles, Avant
  <2> QED BY <2>3, <2>4
<1>5. CASE EffacerJournal(p)
  BY <1>0, <1>5, RendreType DEF EffacerJournal, Avant
<1>6. CASE FinirPasse(p)
  BY <1>0, <1>6, OublierType DEF FinirPasse, Avant
<1>7. CASE Panne(p)
  BY <1>0, <1>7, SortirType DEF Panne, Avant
<1> QED BY <1>1, <1>2, <1>3, <1>4, <1>5, <1>6, <1>7 DEF PasPromotion

(* A step that answers no lot leaves none answered.                        *)
LEMMA QuiRend ==
  ASSUME NEW p \in Processus, Pas(p), ~RetrouverLot(p), ~Associer(p)
  PROVE  lotsRendus' = lotsRendus
<1> USE DEF temoins
<1>1. CASE PasSession(p)
  BY <1>1 DEF PasSession, CreerReserver, CreerRelire, CreerDossier, CreerRefuse, CreerMarquer,
       Recevoir, PromouvoirFichier, PromotionRompue, SauverEnvoi, Etat, Terminer, Annuler,
       SupprimerManifeste, SupprimerVerrou, SupprimerTemporaires, SupprimerFichier, FinirSuppression,
       EntrerTropTard, OuvrirLot, LotRefuse, CreerLot, LotImpossible
<1>2. CASE PasPromotion(p) \/ Panne(p)
  BY <1>2 DEF PasPromotion, Promouvoir, VerifierCopie, Copier, Interrompre, Vider, SauverCles,
       EffacerJournal, Deposer, FinirPasse, Panne
<1> QED BY <1>1, <1>2 DEF Pas

(* The first answer: nobody else holds the lock, and the lot is associated.*)
LEMMA PremiereReponse ==
  ASSUME TypeTeleversement, InvVerrou, InvAccuse, lotsRendus = {}, lotsRendus' # {},
         NEW p \in Processus, RetrouverLot(p) \/ Associer(p)
  PROVE  \E n \in Nat \ {0} : Garde(n, p) /\ \A q \in Processus \ {p} : ~Tient(q)
<1> USE DEF TypeTeleversement, TypeLocales, Garde, session, copies, base, locales, temoins, ReponseEventuelle
<1>1. CASE RetrouverLot(p)
  <2>1. /\ manifeste \in Manifestes /\ manifeste.idLot # SansLot /\ pc[p] = "repos"
        /\ verrou.tenant = Personne /\ manifeste' = Reconcilie(manifeste)
    BY <1>1 DEF RetrouverLot, EntrerLot, Entrer, Libre, TypeSession
  <2>2. manifeste'.idLot = manifeste.idLot
    BY <2>1, ReconcilieType DEF TypeSession
  <2>3. annulation # "accusee"
    BY <2>1, ManifesteType DEF InvAccuse
  <2>4. \A q \in Processus \ {p} : ~Tient(q)
    BY <2>1, HypContenus DEF InvVerrou
  <2>5. Garde(manifeste.idLot, p)
    BY <1>1, <2>1, <2>2, <2>3 DEF RetrouverLot, EnUnPas
  <2> QED BY <2>1, <2>4, <2>5, ManifesteType DEF SansLot
<1>2. CASE Associer(p)
  <2>1. verrou.tenant = p /\ verrou.present
    BY <1>2, HypContenus DEF Associer, InvVerrou, Tient, SousVerrou, Coherence
  <2>2. Associable(nouveau[p]) /\ lotsRendus' = {nouveau[p]}
    BY <1>2 DEF Associer
  <2>3. manifeste \in Manifestes /\ nouveau[p] \in Nat \ {0}
    BY <1>2, <2>2 DEF Associable, Associer, Coherence, SansLot, TypeSession
  <2>4. manifeste'.idLot = nouveau[p]
    <3>1. manifeste' = [manifeste EXCEPT !.idLot = nouveau[p]]
      BY <1>2, <2>2 DEF Associer
    <3> QED BY <2>3, <3>1 DEF Manifestes
  <2>5. annulation # "accusee"
    BY <2>1 DEF InvAccuse
  <2>6. \A q \in Processus \ {p} : ~Tient(q)
    BY <2>1 DEF InvVerrou
  <2>7. Garde(nouveau[p], p)
    BY <1>2, <2>1, <2>2, <2>4, <2>5, SortirType DEF Associer
  <2> QED BY <2>3, <2>6, <2>7
<1> QED BY <1>1, <1>2

LEMMA PasInvRendu ==
  ASSUME TypeTeleversement, InvVerrou, InvCree, InvRendu, InvAccuse, [Next]_vars
  PROVE  InvRendu'
<1>1. ASSUME NEW p \in Processus, Pas(p) PROVE InvRendu'
  <2>1. Effet(p)
    BY <1>1, EffetPas
  <2>2. CASE lotsRendus # {}
    <3>1. PICK n \in lotsRendus :
             /\ lotsRendus = {n}
             /\ \A q \in Processus : pc[q] \in {"copier", "clore"} => lu[q].idLot = n
      BY <2>2 DEF InvRendu
    <3>2. Garde(n, p)
      BY <1>1, <3>1, GardeSession, GardePromotion DEF Pas
    <3> QED BY <2>1, <2>2, <3>1, <3>2 DEF Garde, Effet, InvRendu
  <2>3. CASE lotsRendus = {} /\ lotsRendus' # {}
    <3>1. RetrouverLot(p) \/ Associer(p)
      BY <1>1, <2>3, QuiRend
    <3>2. PICK n \in Nat \ {0} : Garde(n, p) /\ \A q \in Processus \ {p} : ~Tient(q)
      BY <2>3, <3>1, PremiereReponse
    <3>3. \A q \in Processus \ {p} :
             /\ pc'[q] \notin {"promouvoir", "creerLot", "associer", "copier", "clore"}
             /\ pc'[q] = "supprimer" => "session.lock" \notin reste'[q]
      BY <2>1, <3>2 DEF Effet, Tient, SousVerrou
    <3> QED BY <3>2, <3>3 DEF Garde, InvRendu
  <2>4. CASE lotsRendus' = {}
    BY <2>4 DEF InvRendu
  <2> QED BY <2>2, <2>3, <2>4
<1>2. CASE Alterer \/ AltererCopie \/ UNCHANGED vars
  BY <1>2 DEF Alterer, AltererCopie, vars, session, locales, temoins, InvRendu
<1> QED BY <1>1, <1>2 DEF Next, Pas

-----------------------------------------------------------------------------
(* After the cancellation was answered.                                    *)
LEMMA PasInvAccuse ==
  ASSUME TypeTeleversement, InvVerrou, InvCree, InvRendu, InvAccuse, [Next]_vars
  PROVE  InvAccuse'
<1> SUFFICES ASSUME annulation' = "accusee" PROVE InvAccuse'
  BY DEF InvAccuse
<1> USE DEF TypeTeleversement, session, copies, base, locales, temoins
<1>1. CASE annulation # "accusee"
  <2>1. PICK p \in Processus : FinirSuppression(p)
    <3>1. PICK p \in Processus : PasSession(p) \/ PasPromotion(p) \/ Panne(p)
      BY <1>1 DEF Next, vars, Alterer, AltererCopie
    <3>2. ~(PasPromotion(p) \/ Panne(p))
      BY <1>1 DEF PasPromotion, Promouvoir, VerifierCopie, Copier, Interrompre, Vider, SauverCles,
         EffacerJournal, Deposer, FinirPasse, Panne
    <3>3. FinirSuppression(p)
      BY <1>1, <3>1, <3>2 DEF PasSession, CreerReserver, CreerRelire, CreerDossier, CreerRefuse, CreerMarquer,
         Recevoir, PromouvoirFichier, PromotionRompue, SauverEnvoi, Etat, Terminer, Annuler,
         SupprimerManifeste, SupprimerVerrou, SupprimerTemporaires, SupprimerFichier,
         EntrerTropTard, RetrouverLot, OuvrirLot, LotRefuse, CreerLot, LotImpossible, Associer
    <3> QED BY <3>3
  <2>2. manifeste = Absent /\ ~verrou.present /\ disque = Vide /\ ~repertoire'
    BY <1>1, <2>1 DEF FinirSuppression
  <2>3. lotsRendus' = {} /\ UNCHANGED <<manifeste, disque>>
    BY <2>1, <2>2 DEF FinirSuppression, InvRendu
  <2>4. ~verrou'.present
    BY <2>1, <2>2, SortirType DEF FinirSuppression
  <2> QED BY <2>2, <2>3, <2>4 DEF InvAccuse
<1>2. CASE annulation = "accusee"
  <2>1. /\ manifeste = Absent /\ disque = Vide /\ lotsRendus = {} /\ ~repertoire /\ ~verrou.present
        /\ registre.cree /\ DOMAIN disque = {}
    BY <1>2 DEF InvAccuse, InvCree, Vide
  <2>2. \A p \in Processus : ~Tient(p)
    BY <2>1, HypContenus DEF InvVerrou, Coherence
  <2>3. ASSUME NEW p \in Processus, PasSession(p) PROVE InvAccuse'
    <3>1. CASE CreerReserver(p) \/ CreerRelire(p) \/ CreerDossier(p) \/ CreerRefuse(p) \/ CreerMarquer(p)
      BY <2>1, <3>1 DEF CreerReserver, CreerRelire, CreerDossier, CreerRefuse, CreerMarquer, InvAccuse
    <3>2. CASE SupprimerManifeste(p) \/ SupprimerTemporaires(p) \/ SupprimerVerrou(p)
      BY <2>1, <3>2 DEF SupprimerManifeste, SupprimerTemporaires, SupprimerVerrou, InvAccuse
    <3>3. CASE SupprimerFichier(p)
      <4>1. Restrict(disque, {}) = Vide
        BY DEF Restrict, Vide
      <4>2. disque' = Vide
        BY <2>1, <3>3, <4>1 DEF SupprimerFichier
      <4> QED BY <2>1, <3>3, <4>2 DEF SupprimerFichier, InvAccuse
    <3>4. CASE FinirSuppression(p)
      BY <2>1, <3>4, SortirType DEF FinirSuppression, InvAccuse
    <3> QED BY <2>1, <2>2, <2>3, <3>1, <3>2, <3>3, <3>4
         DEF PasSession, Recevoir, PromouvoirFichier, PromotionRompue, SauverEnvoi, Etat, Terminer, Annuler,
         EntrerTropTard, RetrouverLot, OuvrirLot, LotRefuse, CreerLot, LotImpossible, Associer, EntrerLot, Entrer,
         Tient, SousVerrou
  <2>4. ASSUME NEW p \in Processus, PasPromotion(p) PROVE InvAccuse'
    BY <2>1, <2>2, <2>4 DEF PasPromotion, Promouvoir, VerifierCopie, Copier, Interrompre, Vider, SauverCles,
       EffacerJournal, Deposer, FinirPasse, Entrer, Tient, SousVerrou, InvAccuse
  <2>5. CASE \E p \in Processus : Panne(p)
    BY <2>1, <2>5, SortirType DEF Panne, InvAccuse
  <2>6. CASE Alterer \/ AltererCopie \/ UNCHANGED vars
    BY <2>1, <2>6 DEF Alterer, AltererCopie, vars, InvAccuse
  <2> QED BY <2>3, <2>4, <2>5, <2>6 DEF Next
<1> QED BY <1>1, <1>2

-----------------------------------------------------------------------------
(* The invariants together.                                                *)
LEMMA SessionInvariante == Spec => []InvSession
<1>1. InitTeleversement => InvSession
  BY DEF InitTeleversement, InvSession, InvVerrou, InvCree, InvLu, InvRendu, InvAccuse, Tient, SousVerrou
<1>2. TypeTeleversement /\ InvSession /\ [Next]_vars => InvSession'
  BY PasInvVerrou, PasInvCree, PasInvLu, PasInvRendu, PasInvAccuse DEF InvSession
<1> QED BY <1>1, <1>2, TypeCorrectTeleversement, PTL DEF Spec

(* Whatever crashes, retries and removals race, the clients of a session   *)
(* are told of one lot at most (creer_lot_session_televersement).          *)
THEOREM UnSeulLotRenduProuve == Spec => []UnSeulLotRendu
<1>1. InvRendu => UnSeulLotRendu
  <2> SUFFICES ASSUME InvRendu PROVE Cardinality(lotsRendus) <= 1
    BY DEF UnSeulLotRendu
  <2>1. CASE lotsRendus = {}
    <3>1. Cardinality({}) = 0
      BY FS_EmptySet
    <3> QED BY <2>1, <3>1
  <2>2. CASE lotsRendus # {}
    <3>1. PICK n : lotsRendus = {n}
      BY <2>2 DEF InvRendu
    <3>2. Cardinality({n}) = 1
      BY FS_Singleton
    <3> QED BY <3>1, <3>2
  <2> QED BY <2>1, <2>2
<1> QED BY <1>1, SessionInvariante, PTL DEF InvSession

(* A cancellation answered is final, in whatever order the file system     *)
(* removes the entries: nothing of the session comes back, and no lot of   *)
(* it was answered (_annuler_session_televersement_lot_interne,            *)
(* _creer_session_idempotente).                                            *)
THEOREM AnnulationDefinitiveProuvee == Spec => []AnnulationDefinitive
<1>1. InvAccuse => AnnulationDefinitive
  BY DEF InvAccuse, AnnulationDefinitive
<1> QED BY <1>1, SessionInvariante, PTL DEF InvSession

-----------------------------------------------------------------------------
(* The manifest. A request that reconciles it and does no more.            *)
Reconciliation(p) ==
  /\ verrou.tenant = Personne /\ pc[p] = "repos" /\ pc'[p] \notin {"supprimer", "promouvoir"}
  /\ manifeste # Absent /\ Reconciliable(manifeste)
  /\ disque' = disque /\ deposes' = deposes /\ annulation' = annulation
  /\ \/ manifeste' = Reconcilie(manifeste)
     \/ Complet(disque) /\ manifeste' = [Reconcilie(manifeste) EXCEPT !.statut = "pret"]

LEMMA ReconciliationDe ==
  ASSUME TypeTeleversement, NEW p \in Processus,
         Etat(p) \/ LotRefuse(p) \/ RetrouverLot(p) \/ OuvrirLot(p) \/ Promouvoir(p) \/ Terminer(p)
  PROVE  Reconciliation(p)
<1> USE DEF session, copies, base, locales, temoins
<1>1. CASE Etat(p) \/ LotRefuse(p) \/ RetrouverLot(p)
  BY <1>1 DEF Etat, LotRefuse, RetrouverLot, EntrerLot, Entrer, Libre, EnUnPas, Reconciliation, TypeTeleversement, TypeLocales
<1>2. CASE OuvrirLot(p) \/ Promouvoir(p)
  <2>1. pc'[p] \in {"creerLot", "copier"}
    BY <1>2 DEF OuvrirLot, Promouvoir, TypeTeleversement, TypeLocales
  <2> QED BY <1>2, <2>1 DEF OuvrirLot, Promouvoir, EntrerLot, Entrer, Libre, Reconciliation
<1>3. CASE Terminer(p)
  <2>1. manifeste \in Manifestes /\ disque \in Recus
    BY <1>3 DEF Terminer, Entrer, TypeTeleversement, TypeSession
  <2>2. Reconcilie(manifeste) \in Manifestes /\ Reconcilie(manifeste).recus = disque
    BY <2>1, ReconcilieType DEF Reconcilie, Manifestes
  <2>3. [Reconcilie(manifeste) EXCEPT !.statut = Reconcilie(manifeste).statut] = Reconcilie(manifeste)
    BY <2>2 DEF Manifestes
  <2>4. \/ manifeste' = Reconcilie(manifeste)
        \/ Complet(disque) /\ manifeste' = [Reconcilie(manifeste) EXCEPT !.statut = "pret"]
    BY <1>3, <2>2, <2>3 DEF Terminer
  <2> QED BY <1>3, <2>4 DEF Terminer, Entrer, Libre, EnUnPas, Reconciliation
<1> QED BY <1>1, <1>2, <1>3

(* The steps that write the manifest.                                      *)
LEMMA QuiEcrit ==
  ASSUME TypeTeleversement, NEW p \in Processus, Pas(p)
  PROVE  \/ manifeste' = manifeste
         \/ CreerDossier(p) \/ SauverEnvoi(p) \/ SupprimerManifeste(p) \/ Associer(p) \/ SauverCles(p)
         \/ Reconciliation(p)
<1> USE DEF session, copies, base, locales, temoins
<1>4. CASE PasSession(p)
  BY <1>4, ReconciliationDe DEF PasSession, CreerReserver, CreerRelire, CreerRefuse, CreerMarquer,
       Recevoir, PromouvoirFichier, PromotionRompue, Annuler,
       SupprimerVerrou, SupprimerTemporaires, SupprimerFichier, FinirSuppression,
       EntrerTropTard, CreerLot, LotImpossible
<1>5. CASE PasPromotion(p) \/ Panne(p)
  BY <1>5, ReconciliationDe DEF PasPromotion, VerifierCopie, Copier, Interrompre, Vider,
       EffacerJournal, Deposer, FinirPasse, Panne
<1> QED BY <1>4, <1>5 DEF Pas

(* Reconciliation keeps the lot.                                           *)
LEMMA ReconciliationGarde ==
  ASSUME TypeTeleversement, NEW p \in Processus, Reconciliation(p)
  PROVE  /\ manifeste \in Manifestes /\ manifeste' \in Manifestes /\ manifeste' # Absent
         /\ manifeste'.idLot = manifeste.idLot /\ manifeste'.recus = disque
         /\ manifeste'.cles = [f \in Fichiers |-> IF f \in DOMAIN disque THEN manifeste.cles[f] ELSE 0]
         /\ manifeste.idLot # SansLot => manifeste'.statut = "pret"
         /\ \/ Complet(disque)
            \/ manifeste'.statut = manifeste.statut /\ (manifeste.recus = disque \/ manifeste.idLot # SansLot)
            \/ manifeste'.statut = "en_cours"
<1>1. manifeste \in Manifestes /\ disque \in Recus
  BY DEF Reconciliation, TypeTeleversement, TypeSession
<1>2. Reconcilie(manifeste) \in Manifestes /\ Reconcilie(manifeste).idLot = manifeste.idLot
  BY <1>1, ReconcilieType
<1>3. /\ Reconcilie(manifeste).recus = disque
      /\ Reconcilie(manifeste).cles = [f \in Fichiers |-> IF f \in DOMAIN disque THEN manifeste.cles[f] ELSE 0]
      /\ Reconcilie(manifeste).statut =
           IF manifeste.recus # disque /\ manifeste.idLot = SansLot /\ ~Complet(disque)
           THEN "en_cours" ELSE manifeste.statut
  BY <1>1 DEF Reconcilie, Manifestes
<1>4. manifeste.idLot # SansLot => manifeste.statut = "pret"
  BY DEF TypeTeleversement, Coherence, Reconciliation
<1>5. [Reconcilie(manifeste) EXCEPT !.statut = "pret"] \in Manifestes
  BY <1>2, ManifesteType
<1>6. CASE manifeste' = Reconcilie(manifeste)
  BY <1>1, <1>2, <1>3, <1>4, <1>6, ManifesteType
<1>7. CASE Complet(disque) /\ manifeste' = [Reconcilie(manifeste) EXCEPT !.statut = "pret"]
  <2>1. /\ manifeste'.recus = disque /\ manifeste'.statut = "pret"
        /\ manifeste'.idLot = manifeste.idLot
        /\ manifeste'.cles = Reconcilie(manifeste).cles
    BY <1>2, <1>3, <1>7 DEF Manifestes
  <2> QED BY <1>1, <1>3, <1>5, <1>7, <2>1, ManifesteType
<1> QED BY <1>6, <1>7 DEF Reconciliation

(* The files. A step adds a file received, or only removes some.           *)
LEMMA QuiTouche ==
  ASSUME TypeTeleversement, NEW p \in Processus, Pas(p)
  PROVE  /\ fautes' = fautes
         /\ ~PromouvoirFichier(p) /\ ~SupprimerFichier(p) /\ ~Deposer(p) => disque' = disque
         /\ ~PromouvoirFichier(p) => /\ DOMAIN disque' \subseteq DOMAIN disque
                                     /\ \A f \in DOMAIN disque' : disque'[f] = disque[f]
         /\ ~Deposer(p) => deposes' = deposes
         /\ ~SauverEnvoi(p) => accuses' = accuses
<1> USE DEF session, copies, base, locales, temoins
<1>1. CASE PasSession(p)
  <2>1. ASSUME SupprimerFichier(p)
        PROVE /\ DOMAIN disque' \subseteq DOMAIN disque
              /\ \A f \in DOMAIN disque' : disque'[f] = disque[f]
    BY <2>1 DEF SupprimerFichier, Restrict
  <2> QED BY <1>1, <2>1 DEF PasSession, CreerReserver, CreerRelire, CreerDossier, CreerRefuse, CreerMarquer,
       Recevoir, PromouvoirFichier, PromotionRompue, SauverEnvoi, Etat, Terminer, Annuler,
       SupprimerManifeste, SupprimerVerrou, SupprimerTemporaires, SupprimerFichier, FinirSuppression,
       EntrerTropTard, RetrouverLot, OuvrirLot, LotRefuse, CreerLot, LotImpossible, Associer
<1>2. CASE PasPromotion(p) \/ Panne(p)
  <2>1. ASSUME Deposer(p)
        PROVE /\ DOMAIN disque' \subseteq DOMAIN disque
              /\ \A f \in DOMAIN disque' : disque'[f] = disque[f]
    BY <2>1 DEF Deposer, Restrict
  <2> QED BY <1>2, <2>1 DEF PasPromotion, Promouvoir, VerifierCopie, Copier, Interrompre, Vider, SauverCles,
       EffacerJournal, Deposer, FinirPasse, Panne
<1> QED BY <1>1, <1>2 DEF Pas

(* A lot is given to the manifest, which keeps the rest.                   *)
LEMMA LotAssocie ==
  ASSUME TypeTeleversement, NEW p \in Processus, Associer(p)
  PROVE  \/ manifeste' = manifeste
         \/ /\ manifeste \in Manifestes /\ manifeste.statut = "pret"
            /\ manifeste' \in Manifestes /\ manifeste' # Absent /\ manifeste'.statut = "pret"
            /\ manifeste'.recus = manifeste.recus /\ manifeste'.cles = manifeste.cles
            /\ manifeste'.idLot \in Nat \ {0}
<1>1. CASE Associable(nouveau[p])
  <2>1. manifeste \in Manifestes /\ manifeste.statut = "pret" /\ nouveau[p] \in Nat \ {0}
    BY <1>1 DEF Associer, Associable, TypeTeleversement, TypeSession, TypeLocales, Coherence, SansLot
  <2>2. manifeste' = [manifeste EXCEPT !.idLot = nouveau[p]]
    BY <1>1 DEF Associer
  <2>3. manifeste' \in Manifestes
    BY <2>1, <2>2, ManifesteType
  <2>4. /\ manifeste'.statut = manifeste.statut /\ manifeste'.recus = manifeste.recus
        /\ manifeste'.cles = manifeste.cles /\ manifeste'.idLot = nouveau[p]
    BY <2>1, <2>2 DEF Manifestes
  <2> QED BY <2>1, <2>3, <2>4, ManifesteType
<1>2. CASE ~Associable(nouveau[p])
  BY <1>2 DEF Associer
<1> QED BY <1>1, <1>2

(* Two sets of files with the same names and contents are one.             *)
LEMMA MemesFichiers ==
  ASSUME NEW r \in Recus, NEW d \in Recus, DOMAIN r = DOMAIN d,
         \A f \in DOMAIN r \cap DOMAIN d : d[f] = r[f]
  PROVE  r = d
<1>1. r \in [DOMAIN r -> SurDisque] /\ d \in [DOMAIN r -> SurDisque]
  BY RecusType
<1> QED BY <1>1

(* Two requests do not hold the lock together.                             *)
LEMMA UnSeulTient ==
  ASSUME InvVerrou, NEW p \in Processus, NEW q \in Processus, Tient(p), Tient(q)
  PROVE  p = q
BY DEF InvVerrou

(* A buffer is empty but during a promotion; it only grows by a file done. *)
EnPromotion == {"copier", "clore", "effacer"}
LEMMA TamponPas ==
  ASSUME TypeTeleversement, NEW p \in Processus, Pas(p),
         \A q \in Processus : pc[q] \notin EnPromotion => tampon[q] = {}
  PROVE  /\ \A q \in Processus \ {p} : tampon'[q] = tampon[q]
         /\ pc'[p] \notin EnPromotion => tampon'[p] = {}
         /\ pc'[p] = "effacer" => SauverCles(p) /\ pc[p] = "copier"
         /\ pc'[p] \in {"copier", "clore"} =>
              \/ Promouvoir(p) /\ pc'[p] = "copier" /\ tampon'[p] = {}
              \/ VerifierCopie(p) \/ Copier(p)
              \/ /\ Interrompre(p) \/ Vider(p)
                 /\ pc[p] \in {"copier", "clore"} /\ (pc'[p] = "copier" => pc[p] = "copier")
                 /\ tampon'[p] = tampon[p] /\ reste'[p] = reste[p]
<1> USE DEF TypeTeleversement, TypeLocales, session, copies, base, locales, temoins, EnPromotion
<1>1. CASE CreerRelire(p) \/ CreerRefuse(p) \/ CreerMarquer(p) \/ FinirPasse(p)
  BY <1>1, OublierType DEF CreerRelire, CreerRefuse, CreerMarquer, FinirPasse, Oublier
<1>2. CASE PromotionRompue(p) \/ SauverEnvoi(p) \/ FinirSuppression(p) \/ LotImpossible(p) \/ Associer(p)
           \/ Panne(p)
  <2>1. Sortir(p)
    BY <1>2 DEF PromotionRompue, SauverEnvoi, FinirSuppression, LotImpossible, Associer, Panne
  <2> QED BY <2>1 DEF Sortir, Oublier
<1>3. CASE CreerReserver(p) \/ CreerDossier(p) \/ Recevoir(p) \/ Annuler(p)
  BY <1>3 DEF CreerReserver, CreerDossier, Recevoir, Annuler, Entrer
<1>4. CASE Etat(p) \/ Terminer(p) \/ RetrouverLot(p) \/ LotRefuse(p) \/ EntrerTropTard(p)
  BY <1>4 DEF Etat, Terminer, RetrouverLot, LotRefuse, EntrerTropTard, EntrerLot, Entrer, EnUnPas
<1>5. CASE OuvrirLot(p) \/ Promouvoir(p)
  BY <1>5 DEF OuvrirLot, Promouvoir, EntrerLot, Entrer
<1>6. CASE PromouvoirFichier(p) \/ CreerLot(p)
  BY <1>6 DEF PromouvoirFichier, CreerLot
<1>7. CASE SupprimerManifeste(p) \/ SupprimerVerrou(p) \/ SupprimerTemporaires(p) \/ SupprimerFichier(p)
  BY <1>7 DEF SupprimerManifeste, SupprimerVerrou, SupprimerTemporaires, SupprimerFichier
<1>8. CASE VerifierCopie(p) \/ Copier(p)
  BY <1>8 DEF VerifierCopie, Copier, Noter, Echouer
<1>9. CASE Interrompre(p) \/ Vider(p)
  BY <1>9 DEF Interrompre, Vider, Echouer
<1>10. CASE Deposer(p) \/ EffacerJournal(p)
  BY <1>10 DEF Deposer, EffacerJournal
<1>11. CASE SauverCles(p)
  <2>1. CASE pc[p] = "clore"
    BY <1>11, <2>1 DEF SauverCles, Sortir, Oublier
  <2>2. CASE pc[p] = "copier"
    BY <1>11, <2>2 DEF SauverCles
  <2> QED BY <1>11, <2>1, <2>2 DEF SauverCles
<1> QED BY <1>1, <1>2, <1>3, <1>4, <1>5, <1>6, <1>7, <1>8, <1>9, <1>10, <1>11 DEF Pas, PasSession, PasPromotion

-----------------------------------------------------------------------------
(* The manifests that count. Who has a copy has the only one.              *)
LEMMA CopieDe ==
  ASSUME TypeTeleversement, NEW p \in Processus, pc[p] \in AvecCopie
  PROVE  /\ lu[p] \in Manifestes /\ lu[p] # Absent /\ lu[p] \in Documents
         /\ lu[p].idLot # SansLot => lu[p].statut = "pret"
BY DEF TypeTeleversement, TypeLocales, Coherence, AvecCopie, Documents

LEMMA DocumentsType ==
  ASSUME TypeTeleversement
  PROVE  /\ Documents \subseteq Manifestes
         /\ manifeste # Absent => manifeste \in Documents
BY CopieDe DEF TypeTeleversement, TypeSession, TypeLocales, Documents

LEMMA UnSeulDocument ==
  ASSUME TypeTeleversement, InvVerrou, InvDocuments
  PROVE  /\ \A p \in Processus : pc[p] \in AvecCopie => Documents = {lu[p]}
         /\ (\A p \in Processus : pc[p] \notin AvecCopie) => Documents \subseteq {manifeste}
<1>1. ASSUME NEW p \in Processus, pc[p] \in AvecCopie, NEW m \in Documents PROVE m = lu[p]
  <2>1. CASE m = manifeste
    BY <1>1, <2>1 DEF InvDocuments, Documents
  <2>2. ASSUME NEW q \in Processus, pc[q] \in AvecCopie, m = lu[q] PROVE m = lu[p]
    BY <1>1, <2>2, UnSeulTient DEF Tient, SousVerrou, AvecCopie
  <2> QED BY <1>1, <2>1, <2>2 DEF Documents
<1> QED BY <1>1, CopieDe DEF Documents

(* Who holds a copy at the end of a step had it, or has just read it.      *)
LEMMA CopiePas ==
  ASSUME TypeTeleversement, NEW p \in Processus, Pas(p), pc'[p] \in AvecCopie
  PROVE  \/ /\ pc[p] \in AvecCopie /\ lu'[p] = lu[p] /\ manifeste' = manifeste
            /\ pc'[p] = "promouvoir" <=> pc[p] = "promouvoir"
         \/ /\ Recevoir(p) /\ manifeste' = manifeste /\ lu'[p] = manifeste
            /\ manifeste # Absent /\ manifeste.statut = "en_cours" /\ pc'[p] = "promouvoir"
         \/ /\ Promouvoir(p) /\ lu'[p] = manifeste' /\ manifeste' # Absent /\ pc'[p] = "copier"
<1> USE DEF TypeTeleversement, TypeLocales, session, copies, base, locales, temoins, AvecCopie
<1>1. CASE CreerRelire(p) \/ CreerRefuse(p) \/ CreerMarquer(p) \/ FinirPasse(p)
  BY <1>1, OublierType DEF CreerRelire, CreerRefuse, CreerMarquer, FinirPasse
<1>2. CASE PromotionRompue(p) \/ SauverEnvoi(p) \/ FinirSuppression(p) \/ LotImpossible(p) \/ Associer(p)
           \/ Panne(p)
  BY <1>2, SortirType DEF PromotionRompue, SauverEnvoi, FinirSuppression, LotImpossible, Associer, Panne
<1>3. CASE CreerReserver(p) \/ CreerDossier(p) \/ Annuler(p) \/ OuvrirLot(p) \/ CreerLot(p)
  BY <1>3 DEF CreerReserver, CreerDossier, Annuler, OuvrirLot, CreerLot
<1>4. CASE Recevoir(p)
  BY <1>4 DEF Recevoir, Recevable, Entrer
<1>5. CASE Etat(p) \/ Terminer(p) \/ EntrerTropTard(p) \/ RetrouverLot(p) \/ LotRefuse(p)
  BY <1>5 DEF Etat, Terminer, EntrerTropTard, RetrouverLot, LotRefuse, EntrerLot, Entrer, EnUnPas
<1>6. CASE PromouvoirFichier(p)
  BY <1>6 DEF PromouvoirFichier
<1>7. CASE SupprimerManifeste(p) \/ SupprimerVerrou(p) \/ SupprimerTemporaires(p) \/ SupprimerFichier(p)
  BY <1>7 DEF SupprimerManifeste, SupprimerVerrou, SupprimerTemporaires, SupprimerFichier
<1>8. CASE Promouvoir(p)
  <2>1. Reconciliation(p)
    BY <1>8, ReconciliationDe
  <2>2. manifeste' # Absent
    BY <2>1, ReconciliationGarde
  <2> QED BY <1>8, <2>2 DEF Promouvoir
<1>9. CASE VerifierCopie(p) \/ Copier(p) \/ Interrompre(p)
  BY <1>9 DEF VerifierCopie, Copier, Interrompre, Noter, Echouer
<1>10. CASE Vider(p) \/ Deposer(p)
  BY <1>10 DEF Vider, Deposer
<1>11. CASE SauverCles(p)
  BY <1>11, SortirType DEF SauverCles
<1>12. CASE EffacerJournal(p)
  BY <1>12 DEF EffacerJournal
<1> QED BY <1>1, <1>2, <1>3, <1>4, <1>5, <1>6, <1>7, <1>8, <1>9, <1>10, <1>11, <1>12
        DEF Pas, PasSession, PasPromotion

(* The end of a reception and the end of a promotion save the copy read.   *)
LEMMA EnvoiEcrit ==
  ASSUME TypeTeleversement, NEW p \in Processus, SauverEnvoi(p)
  PROVE  /\ pc[p] = "promouvoir" /\ lu[p] \in Manifestes
         /\ manifeste' \in Manifestes /\ manifeste' # Absent
         /\ manifeste'.idLot = lu[p].idLot /\ manifeste'.statut = lu[p].statut
         /\ manifeste'.recus = Avec(lu[p].recus, envoi[p])
         /\ manifeste'.cles = lu[p].cles
<1>1. pc[p] = "promouvoir" /\ lu[p] \in Manifestes /\ envoi[p] \in Recus
  BY CopieDe DEF SauverEnvoi, AvecCopie, TypeTeleversement, TypeLocales
<1>2. Avec(lu[p].recus, envoi[p]) \in Recus
  BY <1>1, ManifesteType, RecusType
<1>3. manifeste' = [lu[p] EXCEPT !.recus = Avec(lu[p].recus, envoi[p])]
  BY <1>1 DEF SauverEnvoi
<1>4. manifeste' \in Manifestes
  BY <1>1, <1>2, <1>3, ManifesteType
<1>5. /\ manifeste'.idLot = lu[p].idLot /\ manifeste'.statut = lu[p].statut
      /\ manifeste'.recus = Avec(lu[p].recus, envoi[p])
      /\ manifeste'.cles = lu[p].cles
  BY <1>1, <1>3 DEF Manifestes
<1> QED BY <1>1, <1>4, <1>5, ManifesteType

LEMMA ClesEcrites ==
  ASSUME TypeTeleversement, InvDocuments, NEW p \in Processus, SauverCles(p)
  PROVE  /\ pc[p] \in {"copier", "clore"} /\ lu[p] \in Manifestes
         /\ \/ manifeste' = Absent /\ tampon[p] = {}
            \/ /\ manifeste' \in Manifestes /\ manifeste' # Absent
               /\ manifeste'.idLot = lu[p].idLot /\ manifeste'.statut = lu[p].statut
               /\ manifeste'.recus = lu[p].recus
               /\ manifeste'.cles = IF tampon[p] = {} THEN lu[p].cles ELSE Avec(Nouvelles(p), lu[p].cles)
<1>1. pc[p] \in {"copier", "clore"} /\ lu[p] \in Manifestes /\ manifeste \in {Absent, lu[p]}
  BY CopieDe DEF SauverCles, InvDocuments, AvecCopie
<1>2. Avec(Nouvelles(p), lu[p].cles) \in Cles
  <2>1. \A f \in DOMAIN Nouvelles(p) : f \in Fichiers /\ Nouvelles(p)[f] \in Nat
    <3> TAKE f \in DOMAIN Nouvelles(p)
    <3>1. \E e \in tampon[p] : e.nom = f
      BY DEF Nouvelles
    <3>2. (CHOOSE e \in tampon[p] : e.nom = f) \in tampon[p]
      BY <3>1
    <3>3. tampon[p] \subseteq Entrees
      BY DEF TypeTeleversement, TypeLocales
    <3> QED BY <3>1, <3>2, <3>3 DEF Nouvelles, Entrees
  <2>2. lu[p].cles \in [Fichiers -> Nat]
    BY <1>1 DEF Manifestes, Cles
  <2> QED BY <2>1, <2>2 DEF Avec, Cles
<1>3. \/ manifeste' = manifeste /\ tampon[p] = {}
      \/ manifeste' = [lu[p] EXCEPT !.cles = Avec(Nouvelles(p), lu[p].cles)] /\ tampon[p] # {}
  BY <1>1 DEF SauverCles
<1>4. CASE manifeste' = manifeste /\ tampon[p] = {}
  BY <1>1, <1>4, ManifesteType
<1>5. CASE manifeste' = [lu[p] EXCEPT !.cles = Avec(Nouvelles(p), lu[p].cles)] /\ tampon[p] # {}
  <2>1. manifeste' \in Manifestes
    BY <1>1, <1>2, <1>5, ManifesteType
  <2>2. /\ manifeste'.idLot = lu[p].idLot /\ manifeste'.statut = lu[p].statut
        /\ manifeste'.recus = lu[p].recus /\ manifeste'.cles = Avec(Nouvelles(p), lu[p].cles)
    BY <1>1, <1>5 DEF Manifestes
  <2> QED BY <1>1, <1>5, <2>1, <2>2, ManifesteType
<1> QED BY <1>3, <1>4, <1>5

(* Nobody writes the manifest beside who works, but a removal.             *)
LEMMA ManifesteAilleurs ==
  ASSUME TypeTeleversement, InvVerrou, InvCree, NEW p \in Processus, Pas(p),
         NEW q \in Processus \ {p}, pc[q] \in SousVerrou
  PROVE  manifeste' \in {Absent, manifeste}
<1>1. verrou.tenant = q /\ ~Tient(p) /\ q # Personne /\ registre.cree
  BY HypContenus DEF InvVerrou, InvCree, Tient
<1>2. ~SauverEnvoi(p) /\ ~Associer(p) /\ ~SauverCles(p)
  BY <1>1 DEF SauverEnvoi, Associer, SauverCles, Tient, SousVerrou
<1> QED BY <1>1, <1>2, QuiEcrit DEF CreerDossier, Reconciliation, SupprimerManifeste

(* The manifest that counts after a step: the one that did, or what a      *)
(* request makes of it.                                                    *)
Derive(p, d, m) ==
  \/ /\ SauverEnvoi(p) /\ d = lu[p] /\ pc[p] = "promouvoir"
     /\ m.statut = d.statut /\ m.idLot = d.idLot /\ m.cles = d.cles
  \/ /\ SauverCles(p) /\ d = lu[p] /\ pc[p] \in {"copier", "clore"}
     /\ m.statut = d.statut /\ m.idLot = d.idLot /\ m.recus = d.recus
     /\ m.cles = IF tampon[p] = {} THEN d.cles ELSE Avec(Nouvelles(p), d.cles)
  \/ /\ Associer(p) /\ d = manifeste /\ d.statut = "pret" /\ m.idLot # SansLot
     /\ m.recus = d.recus /\ m.cles = d.cles
  \/ Reconciliation(p) /\ d = manifeste /\ m = manifeste'

LEMMA DocumentPas ==
  ASSUME TypeTeleversement, InvVerrou, InvDocuments, NEW p \in Processus, Pas(p), NEW m \in Documents'
  PROVE  /\ m \in Manifestes
         /\ \/ m \in Documents
            \/ CreerDossier(p) /\ m = ManifesteVierge
            \/ \E d \in Documents : Derive(p, d, m)
<1>1. CASE m = manifeste'
  <2>0. m # Absent
    BY DEF Documents
  <2>1. CASE manifeste' = manifeste
    BY <1>1, <2>0, <2>1, DocumentsType
  <2>2. CASE CreerDossier(p)
    BY <1>1, <2>2, ManifesteType DEF CreerDossier
  <2>3. CASE SauverEnvoi(p)
    <3>1. Derive(p, lu[p], m)
      BY <1>1, <2>3, EnvoiEcrit DEF Derive
    <3> QED BY <1>1, <2>3, <3>1, EnvoiEcrit, CopieDe DEF AvecCopie
  <2>4. CASE SupprimerManifeste(p)
    BY <1>1, <2>0, <2>4 DEF SupprimerManifeste
  <2>5. CASE Associer(p) /\ manifeste' # manifeste
    <3>1. /\ manifeste \in Manifestes /\ manifeste.statut = "pret"
          /\ manifeste' \in Manifestes
          /\ manifeste'.recus = manifeste.recus /\ manifeste'.cles = manifeste.cles
          /\ manifeste'.idLot \in Nat \ {0}
      BY <2>5, LotAssocie
    <3>2. manifeste \in Documents /\ Derive(p, manifeste, m)
      BY <1>1, <2>5, <3>1, DocumentsType, ManifesteType DEF Derive, SansLot
    <3> QED BY <1>1, <3>1, <3>2
  <2>6. CASE SauverCles(p)
    <3>1. Derive(p, lu[p], m)
      BY <1>1, <2>0, <2>6, ClesEcrites DEF Derive
    <3> QED BY <1>1, <2>0, <2>6, <3>1, ClesEcrites, CopieDe DEF AvecCopie
  <2>7. CASE Reconciliation(p)
    <3>1. manifeste \in Documents /\ manifeste' \in Manifestes
      BY <2>7, ReconciliationGarde, DocumentsType, ManifesteType
    <3> QED BY <1>1, <2>7, <3>1 DEF Derive
  <2> QED BY <2>1, <2>2, <2>3, <2>4, <2>5, <2>6, <2>7, QuiEcrit
<1>2. ASSUME NEW q \in Processus, pc'[q] \in AvecCopie, m = lu'[q] PROVE m = manifeste' \/ m \in Documents
  <2>1. CASE q = p
    <3>1. CASE pc[p] \in AvecCopie /\ lu'[p] = lu[p]
      BY <1>2, <2>1, <3>1, CopieDe
    <3> QED BY <1>2, <2>1, <3>1, CopiePas
  <2>2. CASE q # p
    BY <1>2, <2>2, EffetPas, CopieDe DEF Effet
  <2> QED BY <2>1, <2>2
<1>3. m \in Documents => m \in Manifestes
  BY DocumentsType
<1> QED BY <1>1, <1>2, <1>3 DEF Documents

LEMMA PasInvDocuments ==
  ASSUME TypeTeleversement, InvVerrou, InvCree, InvLu, InvDocuments, [Next]_vars,
         \A q \in Processus : pc[q] \notin EnPromotion => tampon[q] = {}
  PROVE  InvDocuments'
<1> DEFINE Tient1(q) == /\ pc'[q] \in AvecCopie => manifeste' \in {Absent, lu'[q]}
                        /\ pc'[q] = "promouvoir" => lu'[q].statut = "en_cours"
                        /\ pc'[q] = "effacer" => manifeste' = Absent \/ manifeste'.idLot # SansLot
<1>1. ASSUME NEW p \in Processus, Pas(p), NEW q \in Processus PROVE Tient1(q)
  <2>1. CASE q = p
    <3>1. pc'[p] \in AvecCopie => manifeste' \in {Absent, lu'[p]}
      BY <1>1, CopiePas DEF InvDocuments
    <3>2. pc'[p] = "promouvoir" => lu'[p].statut = "en_cours"
      BY <1>1, CopiePas DEF InvDocuments, AvecCopie
    <3>3. pc'[p] = "effacer" => manifeste' = Absent \/ manifeste'.idLot # SansLot
      <4>1. ASSUME pc'[p] = "effacer" PROVE SauverCles(p) /\ pc[p] = "copier"
        BY <1>1, <4>1, TamponPas
      <4> QED BY <4>1, ClesEcrites DEF InvLu
    <3> QED BY <2>1, <3>1, <3>2, <3>3
  <2>2. CASE q # p
    <3>1. pc'[q] = pc[q] /\ lu'[q] = lu[q]
      BY <1>1, <2>2, EffetPas DEF Effet
    <3>2. CASE pc[q] \in SousVerrou
      BY <1>1, <2>2, <3>1, <3>2, ManifesteAilleurs DEF InvDocuments
    <3> QED BY <3>1, <3>2 DEF SousVerrou, AvecCopie
  <2> QED BY <2>1, <2>2
<1>2. ASSUME Alterer \/ AltererCopie \/ UNCHANGED vars, NEW q \in Processus PROVE Tient1(q)
  BY <1>2 DEF Alterer, AltererCopie, vars, session, locales, InvDocuments
<1> QED BY <1>1, <1>2 DEF Next, Pas, InvDocuments

(* A session with a lot is reconciled with what it has.                    *)
LEMMA ReconciliationLot ==
  ASSUME TypeTeleversement, InvPret, NEW p \in Processus, Reconciliation(p), manifeste.idLot # SansLot
  PROVE  manifeste.recus = disque
<1>1. manifeste \in Manifestes /\ disque \in Recus /\ manifeste.statut = "pret" /\ manifeste \in Documents
  BY ReconciliationGarde, DocumentsType DEF TypeTeleversement, TypeSession, Coherence, Reconciliation
<1>2. DOMAIN disque = DOMAIN manifeste.recus
  BY <1>1 DEF InvPret, Reconciliation, Reconciliable
<1>3. \A f \in DOMAIN manifeste.recus \cap DOMAIN disque : disque[f] = manifeste.recus[f]
  BY DEF Reconciliation, Reconciliable
<1>4. manifeste.recus \in Recus
  BY <1>1, ManifesteType
<1>5. PICK r \in Recus : r = manifeste.recus
  BY <1>4
<1>6. PICK d \in Recus : d = disque
  BY <1>1
<1>7. r = d
  <2>1. DOMAIN r = DOMAIN d /\ \A f \in DOMAIN r \cap DOMAIN d : d[f] = r[f]
    BY <1>2, <1>3, <1>5, <1>6
  <2> QED BY ONLY r \in Recus, d \in Recus, <2>1, MemesFichiers
<1> QED BY <1>5, <1>6, <1>7

LEMMA PasInvPret ==
  ASSUME TypeTeleversement, InvVerrou, InvLu, InvDocuments, InvPret, [Next]_vars
  PROVE  InvPret'
<1> SUFFICES ASSUME NEW m \in Documents', m.statut = "pret"
             PROVE  Complet(m.recus) /\ DOMAIN disque' \subseteq DOMAIN m.recus
  BY DEF InvPret
<1> DEFINE But == Complet(m.recus) /\ DOMAIN disque' \subseteq DOMAIN m.recus
<1>1. ASSUME NEW p \in Processus, Pas(p) PROVE But
  <2>1. CASE m \in Documents
    <3>1. ~PromouvoirFichier(p)
      BY <2>1, UnSeulDocument DEF PromouvoirFichier, InvDocuments, AvecCopie
    <3> QED BY <1>1, <2>1, <3>1, QuiTouche DEF InvPret
  <2>2. CASE CreerDossier(p) /\ m = ManifesteVierge
    BY <2>2, ManifesteType
  <2>3. ASSUME NEW d \in Documents, Derive(p, d, m) PROVE But
    <3>1. CASE SauverEnvoi(p) /\ d = lu[p] /\ pc[p] = "promouvoir" /\ m.statut = d.statut
      BY <3>1 DEF InvDocuments
    <3>2. CASE SauverCles(p) /\ m.statut = d.statut /\ m.recus = d.recus
      BY <3>2 DEF SauverCles, InvPret
    <3>3. CASE Associer(p) /\ d.statut = "pret" /\ m.recus = d.recus
      BY <3>3 DEF Associer, InvPret
    <3>4. CASE Reconciliation(p) /\ d = manifeste /\ m = manifeste'
      <4>1. m.recus = disque /\ disque' = disque
        BY <3>4, ReconciliationGarde DEF Reconciliation
      <4>2. CASE Complet(disque)
        BY <4>1, <4>2
      <4>3. CASE m.statut = d.statut /\ d.recus = disque
        BY <4>1, <4>3 DEF InvPret
      <4>4. CASE m.statut = d.statut /\ d.idLot # SansLot
        <5>1. d.recus = disque
          BY <3>4, <4>4, ReconciliationLot
        <5> QED BY <4>1, <4>4, <5>1 DEF InvPret
      <4> QED BY <3>4, <4>2, <4>3, <4>4, ReconciliationGarde
    <3> QED BY <2>3, <3>1, <3>2, <3>3, <3>4 DEF Derive
  <2> QED BY <1>1, <2>1, <2>2, <2>3, DocumentPas
<1>2. CASE Alterer
  <2>1. DOMAIN disque' \subseteq DOMAIN disque
    BY <1>2 DEF Alterer, Restrict, TypeTeleversement, TypeSession
  <2>2. m \in Documents
    BY <1>2 DEF Alterer, locales, Documents
  <2> QED BY <2>1, <2>2 DEF InvPret
<1>3. CASE AltererCopie \/ UNCHANGED vars
  <2>1. m \in Documents /\ disque' = disque
    BY <1>3 DEF AltererCopie, vars, session, locales, Documents
  <2> QED BY <2>1 DEF InvPret
<1> QED BY <1>1, <1>2, <1>3 DEF Next, Pas

-----------------------------------------------------------------------------
TamponVide == \A q \in Processus : pc[q] \notin EnPromotion => tampon[q] = {}

LEMMA DocumentsInvariants == Spec => [](TamponVide /\ InvDocuments /\ InvPret)
<1> DEFINE Inv == TamponVide /\ InvDocuments /\ InvPret
<1>1. InitTeleversement => Inv
  BY DEF InitTeleversement, TamponVide, InvDocuments, InvPret, Documents, AvecCopie
<1>2. TypeTeleversement /\ InvVerrou /\ TamponVide /\ [Next]_vars => TamponVide'
  <2>1. ASSUME TypeTeleversement, InvVerrou, TamponVide, NEW p \in Processus, Pas(p), NEW q \in Processus
        PROVE  pc'[q] \notin EnPromotion => tampon'[q] = {}
    <3>1. CASE q = p
      BY <2>1, <3>1, TamponPas DEF TamponVide
    <3>2. CASE q # p
      BY <2>1, <3>2, TamponPas, EffetPas DEF TamponVide, Effet
    <3> QED BY <3>1, <3>2
  <2>2. ASSUME TamponVide, Alterer \/ AltererCopie \/ UNCHANGED vars PROVE TamponVide'
    BY <2>2 DEF TamponVide, Alterer, AltererCopie, vars, locales
  <2> QED BY <2>1, <2>2 DEF TamponVide, Next, Pas
<1>3. TypeTeleversement /\ InvSession /\ Inv /\ [Next]_vars => Inv'
  BY <1>2, PasInvDocuments, PasInvPret DEF InvSession, TamponVide
<1> QED BY <1>1, <1>3, TypeCorrectTeleversement, SessionInvariante, PTL DEF Spec

-----------------------------------------------------------------------------
(* Neither a cancellation that began nor an intrusion is forgotten.        *)
LEMMA AnnulationCroit ==
  ASSUME TypeTeleversement, [Next]_vars
  PROVE  /\ annulation # "aucune" => annulation' # "aucune"
         /\ intrus => intrus'
         /\ Serein' => Serein
<1>1. annulation # "aucune" => annulation' # "aucune"
  <2> USE DEF temoins
  <2>1. ASSUME NEW p \in Processus, PasSession(p)
        PROVE annulation # "aucune" => annulation' # "aucune"
    BY <2>1 DEF PasSession, CreerReserver, CreerRelire, CreerDossier, CreerRefuse, CreerMarquer,
       Recevoir, PromouvoirFichier, PromotionRompue, SauverEnvoi, Etat, Terminer, Annuler,
       SupprimerManifeste, SupprimerVerrou, SupprimerTemporaires, SupprimerFichier, FinirSuppression,
       EntrerTropTard, RetrouverLot, OuvrirLot, LotRefuse, CreerLot, LotImpossible, Associer, ReponseEventuelle
  <2>2. ASSUME NEW p \in Processus, PasPromotion(p) \/ Panne(p)
        PROVE annulation' = annulation
    BY <2>2 DEF PasPromotion, Promouvoir, VerifierCopie, Copier, Interrompre, Vider, SauverCles,
       EffacerJournal, Deposer, FinirPasse, Panne
  <2>3. CASE Alterer \/ AltererCopie \/ UNCHANGED vars
    BY <2>3 DEF Alterer, AltererCopie, vars
  <2> QED BY <2>1, <2>2, <2>3 DEF Next
<1>2. intrus => intrus'
  <2>1. ASSUME NEW p \in Processus, PasSession(p) PROVE intrus => intrus'
    BY <2>1 DEF PasSession, CreerReserver, CreerRelire, CreerDossier, CreerRefuse, CreerMarquer,
       Recevoir, PromouvoirFichier, PromotionRompue, SauverEnvoi, Etat, Terminer, Annuler,
       SupprimerManifeste, SupprimerVerrou, SupprimerTemporaires, SupprimerFichier, FinirSuppression,
       EntrerTropTard, RetrouverLot, OuvrirLot, LotRefuse, CreerLot, LotImpossible, Associer, EntrerLot, Entrer
  <2>2. ASSUME NEW p \in Processus, PasPromotion(p) \/ Panne(p) PROVE intrus => intrus'
    BY <2>2 DEF PasPromotion, Promouvoir, VerifierCopie, Copier, Interrompre, Vider, SauverCles,
       EffacerJournal, Deposer, FinirPasse, Panne, Entrer
  <2>3. CASE Alterer \/ AltererCopie \/ UNCHANGED vars
    BY <2>3 DEF Alterer, AltererCopie, vars
  <2> QED BY <2>1, <2>2, <2>3 DEF Next
<1> QED BY <1>1, <1>2 DEF Serein

(* While a removal is under way, the others neither enter the session nor  *)
(* change its manifest.                                                    *)
LEMMA SuppressionSeule ==
  ASSUME TypeTeleversement, InvCree, InvManifeste, Serein, Serein', NEW p \in Processus, Pas(p),
         NEW q \in Processus \ {p}, pc[q] = "supprimer"
  PROVE  /\ pc'[p] \in {"repos", "creer", "marquer"}
         /\ manifeste' = manifeste
         /\ annulation' # "aucune"
<1>1. annulation # "aucune" /\ pc[p] \in {"repos", "creer", "marquer"} /\ registre.cree
  BY DEF InvManifeste, InvCree
<1>2. annulation' # "aucune"
  BY <1>1, AnnulationCroit DEF Next, Pas
<1>3. ~intrus'
  BY <1>2 DEF Serein
<1>4. \A op : ~Entrer(p, op)
  BY <1>3 DEF Entrer
<1>5. \/ CreerReserver(p) \/ CreerRelire(p) \/ CreerRefuse(p) \/ CreerMarquer(p)
      \/ EntrerTropTard(p) \/ Panne(p)
  BY <1>1, <1>4 DEF Pas, PasSession, PasPromotion, CreerDossier, Recevoir, PromouvoirFichier, PromotionRompue,
     SauverEnvoi, Etat, Terminer, Annuler, SupprimerManifeste, SupprimerVerrou, SupprimerTemporaires,
     SupprimerFichier, FinirSuppression, RetrouverLot, OuvrirLot, LotRefuse, EntrerLot, CreerLot,
     LotImpossible, Associer, Promouvoir, VerifierCopie, Copier, Interrompre, Vider, SauverCles,
     EffacerJournal, Deposer, FinirPasse
<1>6. manifeste' = manifeste
  BY <1>5 DEF CreerReserver, CreerRelire, CreerRefuse, CreerMarquer, EntrerTropTard, Panne, session
<1>7. pc'[p] \in {"repos", "creer", "marquer"}
  BY <1>5, OublierType, SortirType
     DEF CreerReserver, CreerRelire, CreerRefuse, CreerMarquer, EntrerTropTard, EnUnPas, Panne, locales,
         TypeTeleversement, TypeLocales
<1> QED BY <1>2, <1>6, <1>7

(* A manifest that is gone only comes back by the creation.                *)
LEMMA Revient ==
  ASSUME TypeTeleversement, InvManifeste, Serein, NEW p \in Processus, Pas(p),
         manifeste = Absent, manifeste' # Absent
  PROVE  CreerDossier(p)
<1>1. ~SauverEnvoi(p) /\ ~SauverCles(p)
  BY DEF SauverEnvoi, SauverCles, InvManifeste, TypeTeleversement, Coherence
<1> QED BY <1>1, QuiEcrit DEF SupprimerManifeste, Associer, Associable, Reconciliation

(* Nobody else writes the manifest of who has the lock.                    *)
LEMMA ManifesteTenu ==
  ASSUME TypeTeleversement, InvVerrou, InvManifeste, Serein, NEW p \in Processus, Pas(p),
         NEW q \in Processus \ {p}, Tient(q), manifeste # Absent
  PROVE  manifeste' = manifeste
<1>1. verrou.tenant = q /\ ~Tient(p) /\ q # Personne
  BY HypContenus DEF InvVerrou
<1>2. ~SauverEnvoi(p) /\ ~Associer(p) /\ ~SauverCles(p)
  BY <1>1 DEF SauverEnvoi, Associer, SauverCles, Tient, SousVerrou
<1>3. ~SupprimerManifeste(p)
  BY DEF SupprimerManifeste, InvManifeste, Tient, SousVerrou
<1> QED BY <1>1, <1>2, <1>3, QuiEcrit DEF CreerDossier, Reconciliation

(* The end of a promotion writes keys, and nothing else.                   *)
LEMMA ClesSauvees ==
  ASSUME TypeTeleversement, InvDocuments, InvManifeste, Serein, NEW p \in Processus, SauverCles(p)
  PROVE  /\ lu[p] = manifeste /\ manifeste \in Manifestes
         /\ manifeste' \in Manifestes /\ manifeste' # Absent
         /\ manifeste'.idLot = manifeste.idLot /\ manifeste'.statut = manifeste.statut
         /\ manifeste'.recus = manifeste.recus
<1>1. lu[p] = manifeste
  BY ClesEcrites DEF InvManifeste
<1> QED BY <1>1, ClesEcrites, ManifesteType DEF SauverCles

(* A session with a lot keeps it.                                          *)
LEMMA LotReste ==
  ASSUME TypeTeleversement, InvLu, InvDocuments, InvManifeste, Serein, NEW p \in Processus, Pas(p),
         manifeste # Absent, manifeste.idLot # SansLot
  PROVE  /\ manifeste' # Absent /\ manifeste'.idLot = manifeste.idLot
         /\ manifeste' = manifeste \/ SauverCles(p) \/ Reconciliation(p)
<1>1. ~SauverEnvoi(p) /\ ~SupprimerManifeste(p) /\ ~Associer(p) /\ ~CreerDossier(p)
  BY DEF SauverEnvoi, SupprimerManifeste, Associer, CreerDossier, InvManifeste, InvLu
<1>2. CASE SauverCles(p)
  BY <1>2, ClesSauvees
<1>3. CASE Reconciliation(p)
  BY <1>3, ReconciliationGarde
<1> QED BY <1>1, <1>2, <1>3, QuiEcrit

(* Where a request arrives, it knows the manifest.                         *)
LEMMA Arrivee ==
  ASSUME TypeTeleversement, InvVerrou, InvLu, InvDocuments, InvManifeste, Serein, Serein', NEW p \in Processus, Pas(p)
  PROVE  /\ pc'[p] \in {"promouvoir", "copier", "clore"} => lu'[p] = manifeste'
         /\ pc'[p] = "promouvoir" => manifeste'.statut = "en_cours"
         /\ pc'[p] = "supprimer" =>
              /\ annulation' # "aucune"
              /\ \A q \in Processus \ {p} : pc'[q] \in {"repos", "creer", "marquer"}
              /\ manifeste' # Absent => manifeste'.idLot = SansLot /\ "session.json" \in reste'[p]
         /\ pc'[p] \in {"creerLot", "associer"} =>
              manifeste' # Absent /\ manifeste'.statut = "pret" /\ manifeste'.idLot = SansLot
         /\ pc'[p] \in {"effacer", "deposer"} => manifeste' # Absent /\ manifeste'.idLot # SansLot
<1>0. Effet(p)
  BY EffetPas
<1> USE <1>0 DEF TypeTeleversement, TypeLocales, session, copies, base, locales, temoins, Effet
<1>1. CASE CreerReserver(p)
  BY <1>1 DEF CreerReserver
<1>2. CASE CreerRelire(p) \/ CreerRefuse(p) \/ CreerMarquer(p) \/ FinirPasse(p)
  BY <1>2, OublierType DEF CreerRelire, CreerRefuse, CreerMarquer, FinirPasse
<1>3. CASE CreerDossier(p)
  BY <1>3 DEF CreerDossier
<1>4. CASE Recevoir(p)
  BY <1>4 DEF Recevoir, Recevable
<1>5. CASE PromouvoirFichier(p)
  BY <1>5 DEF PromouvoirFichier, InvManifeste
<1>6. CASE PromotionRompue(p) \/ SauverEnvoi(p) \/ FinirSuppression(p) \/ LotImpossible(p) \/ Associer(p)
           \/ Panne(p)
  BY <1>6, SortirType DEF PromotionRompue, SauverEnvoi, FinirSuppression, LotImpossible, Associer, Panne
<1>7. CASE Etat(p) \/ Terminer(p) \/ EntrerTropTard(p) \/ RetrouverLot(p) \/ LotRefuse(p)
  BY <1>7 DEF Etat, Terminer, EntrerTropTard, RetrouverLot, LotRefuse, EntrerLot, Entrer, EnUnPas
<1>8. CASE Annuler(p)
  <2>1. annulation' = "entamee" /\ pc'[p] = "supprimer" /\ manifeste' = manifeste /\ manifeste.idLot = SansLot
        /\ reste'[p] = Structure \cup DOMAIN disque
    BY <1>8 DEF Annuler
  <2>2. ASSUME NEW q \in Processus \ {p} PROVE pc[q] \in {"repos", "creer", "marquer"}
    <3>1. pc[q] # "supprimer"
      BY <1>8, <2>1 DEF Annuler, Entrer, Serein
    <3>2. pc[q] \notin SousVerrou
      BY <1>8, HypContenus DEF Annuler, Entrer, Libre, InvVerrou, Tient
    <3>3. pc[q] # "deposer"
      BY <2>1 DEF InvManifeste
    <3> QED BY <3>1, <3>2, <3>3 DEF SousVerrou, Pcs
  <2> QED BY <2>1, <2>2 DEF Structure
<1>9. CASE SupprimerManifeste(p)
  BY <1>9 DEF SupprimerManifeste, InvManifeste
<1>10. CASE SupprimerVerrou(p)
  BY <1>10 DEF SupprimerVerrou, InvManifeste
<1>11. CASE SupprimerTemporaires(p)
  BY <1>11 DEF SupprimerTemporaires, InvManifeste
<1>12. CASE SupprimerFichier(p)
  BY <1>12, HypStructure DEF SupprimerFichier, InvManifeste
<1>13. CASE OuvrirLot(p)
  <2>1. Reconciliation(p)
    BY <1>13, ReconciliationDe
  <2> QED BY <1>13, <2>1, ReconciliationGarde DEF OuvrirLot
<1>14. CASE CreerLot(p)
  BY <1>14 DEF CreerLot, InvManifeste
<1>15. CASE Promouvoir(p)
  BY <1>15 DEF Promouvoir
<1>16. CASE VerifierCopie(p) \/ Copier(p) \/ Interrompre(p)
  BY <1>16 DEF VerifierCopie, Copier, Interrompre, Noter, Echouer, InvManifeste
<1>17. CASE Vider(p) \/ Deposer(p)
  BY <1>17 DEF Vider, Deposer, InvManifeste
<1>18. CASE SauverCles(p)
  <2>1. manifeste' # Absent /\ manifeste'.idLot # SansLot
    BY <1>18, ClesSauvees DEF SauverCles, InvLu
  <2>2. pc'[p] \in {"repos", "effacer"}
    BY <1>18, SortirType DEF SauverCles
  <2> QED BY <2>1, <2>2
<1>19. CASE EffacerJournal(p)
  BY <1>19 DEF EffacerJournal, InvManifeste
<1> QED BY <1>1, <1>2, <1>3, <1>4, <1>5, <1>6, <1>7, <1>8, <1>9, <1>10, <1>11, <1>12, <1>13, <1>14, <1>15,
           <1>16, <1>17, <1>18, <1>19 DEF Pas, PasSession, PasPromotion

LEMMA PasInvManifeste ==
  ASSUME TypeTeleversement, InvVerrou, InvCree, InvLu, InvDocuments, InvManifeste, [Next]_vars
  PROVE  InvManifeste'
<1> SUFFICES ASSUME Serein' PROVE InvManifeste'
  BY DEF InvManifeste
<1>0. Serein
  BY AnnulationCroit
<1>1. ASSUME NEW p \in Processus, Pas(p) PROVE InvManifeste'
  <2>1. Effet(p)
    BY <1>1, EffetPas
  <2>2. ASSUME NEW q \in Processus \ {p}, pc[q] \in SousVerrou
        PROVE  manifeste' = manifeste
    <3>1. manifeste # Absent
      BY <1>0, <2>2 DEF SousVerrou, InvManifeste, TypeTeleversement, Coherence
    <3> QED BY <1>0, <1>1, <2>2, <3>1, ManifesteTenu DEF Tient
  <2>3. ASSUME NEW q \in Processus \ {p}, pc[q] = "supprimer"
        PROVE  /\ annulation' # "aucune" /\ manifeste' = manifeste
               /\ \A r \in Processus \ {q} : pc'[r] \in {"repos", "creer", "marquer"}
    <3>1. annulation' # "aucune" /\ manifeste' = manifeste /\ pc'[p] \in {"repos", "creer", "marquer"}
      BY <1>0, <1>1, <2>3, SuppressionSeule
    <3>2. \A r \in Processus \ {q, p} : pc'[r] \in {"repos", "creer", "marquer"}
      BY <1>0, <2>1, <2>3 DEF Effet, InvManifeste
    <3> QED BY <3>1, <3>2
  <2>4. ASSUME NEW q \in Processus \ {p}, pc[q] = "deposer"
        PROVE  manifeste' # Absent /\ manifeste'.idLot # SansLot
    BY <1>0, <1>1, <2>4, LotReste DEF InvManifeste
  <2>5. ASSUME NEW q \in Processus \ {p}
        PROVE /\ pc'[q] \in {"promouvoir", "copier", "clore"} => lu'[q] = manifeste'
              /\ pc'[q] = "promouvoir" => manifeste'.statut = "en_cours"
              /\ pc'[q] = "supprimer" =>
                   /\ annulation' # "aucune"
                   /\ \A r \in Processus \ {q} : pc'[r] \in {"repos", "creer", "marquer"}
                   /\ manifeste' # Absent => manifeste'.idLot = SansLot /\ "session.json" \in reste'[q]
              /\ pc'[q] \in {"creerLot", "associer"} =>
                   manifeste' # Absent /\ manifeste'.statut = "pret" /\ manifeste'.idLot = SansLot
              /\ pc'[q] \in {"effacer", "deposer"} => manifeste' # Absent /\ manifeste'.idLot # SansLot
    <3>1. pc'[q] = pc[q] /\ lu'[q] = lu[q] /\ reste'[q] = reste[q]
      BY <2>1 DEF Effet
    <3>2. CASE pc[q] \in SousVerrou
      BY <1>0, <2>2, <3>1, <3>2 DEF InvManifeste, SousVerrou
    <3>3. CASE pc[q] = "supprimer"
      BY <1>0, <2>3, <3>1, <3>3 DEF InvManifeste
    <3>4. CASE pc[q] = "deposer"
      BY <2>4, <3>1, <3>4
    <3> QED BY <3>1, <3>2, <3>3, <3>4 DEF SousVerrou
  <2> QED BY <1>0, <1>1, <2>5, Arrivee DEF InvManifeste
<1>2. CASE Alterer \/ AltererCopie \/ UNCHANGED vars
  BY <1>0, <1>2 DEF Alterer, AltererCopie, vars, session, locales, temoins, InvManifeste
<1> QED BY <1>1, <1>2 DEF Next, Pas

-----------------------------------------------------------------------------
(* What a request leaves in the manifest when it has received its files.   *)
LEMMA EnvoiSauve ==
  ASSUME TypeTeleversement, InvManifeste, Serein, NEW p \in Processus, SauverEnvoi(p)
  PROVE  /\ lu[p] = manifeste /\ manifeste \in Manifestes /\ manifeste.statut = "en_cours"
         /\ manifeste' \in Manifestes /\ manifeste' # Absent
         /\ manifeste'.idLot = manifeste.idLot /\ manifeste'.statut = "en_cours"
         /\ manifeste'.recus = Avec(manifeste.recus, envoi[p])
<1>1. lu[p] = manifeste /\ manifeste.statut = "en_cours"
  BY EnvoiEcrit DEF InvManifeste
<1> QED BY <1>1, EnvoiEcrit

(* Who is about to make a lot was there before, or reconciled.             *)
LEMMA VersLeLot ==
  ASSUME TypeTeleversement, NEW p \in Processus, Pas(p), pc'[p] \in {"creerLot", "associer"}
  PROVE  \/ Reconciliation(p)
         \/ pc[p] = "creerLot" /\ UNCHANGED <<manifeste, disque, deposes>>
<1> USE DEF TypeTeleversement, TypeLocales, session, copies, base, locales, temoins
<1>1. CASE CreerRelire(p) \/ CreerRefuse(p) \/ CreerMarquer(p) \/ FinirPasse(p)
  BY <1>1, OublierType DEF CreerRelire, CreerRefuse, CreerMarquer, FinirPasse
<1>2. CASE PromotionRompue(p) \/ SauverEnvoi(p) \/ FinirSuppression(p) \/ LotImpossible(p) \/ Associer(p)
           \/ Panne(p)
  BY <1>2, SortirType DEF PromotionRompue, SauverEnvoi, FinirSuppression, LotImpossible, Associer, Panne
<1>3. CASE CreerReserver(p) \/ CreerDossier(p) \/ Recevoir(p) \/ Annuler(p)
  BY <1>3 DEF CreerReserver, CreerDossier, Recevoir, Annuler
<1>4. CASE Etat(p) \/ Terminer(p) \/ RetrouverLot(p) \/ OuvrirLot(p) \/ LotRefuse(p) \/ Promouvoir(p)
  BY <1>4, ReconciliationDe
<1>5. CASE EntrerTropTard(p)
  BY <1>5 DEF EntrerTropTard, EnUnPas
<1>6. CASE PromouvoirFichier(p) \/ SupprimerManifeste(p) \/ SupprimerVerrou(p) \/ SupprimerTemporaires(p)
           \/ SupprimerFichier(p)
  BY <1>6 DEF PromouvoirFichier, SupprimerManifeste, SupprimerVerrou, SupprimerTemporaires, SupprimerFichier
<1>7. CASE CreerLot(p)
  BY <1>7 DEF CreerLot
<1>8. CASE VerifierCopie(p) \/ Copier(p) \/ Interrompre(p)
  BY <1>8 DEF VerifierCopie, Copier, Interrompre, Noter, Echouer
<1>9. CASE Vider(p) \/ Deposer(p) \/ EffacerJournal(p)
  BY <1>9 DEF Vider, Deposer, EffacerJournal
<1>10. CASE SauverCles(p)
  BY <1>10, SortirType DEF SauverCles
<1> QED BY <1>1, <1>2, <1>3, <1>4, <1>5, <1>6, <1>7, <1>8, <1>9, <1>10 DEF Pas, PasSession, PasPromotion

(* Nothing is deposited before the lot.                                    *)
LEMMA PasRienDepose ==
  ASSUME TypeTeleversement, InvLu, InvDocuments, InvManifeste, InvDisque, [Next]_vars,
         Serein', manifeste' = Absent \/ manifeste'.idLot = SansLot
  PROVE  deposes' = {}
<1>0. Serein
  BY AnnulationCroit
<1>1. ASSUME NEW p \in Processus, Pas(p) PROVE deposes' = {}
  <2>1. manifeste = Absent \/ manifeste.idLot = SansLot
    BY <1>0, <1>1, LotReste
  <2>2. ~Deposer(p)
    BY <1>0, <2>1 DEF Deposer, InvManifeste
  <2> QED BY <1>0, <1>1, <2>1, <2>2, QuiTouche DEF InvDisque
<1>2. CASE Alterer \/ AltererCopie \/ UNCHANGED vars
  BY <1>0, <1>2 DEF Alterer, AltererCopie, vars, session, base, InvDisque
<1> QED BY <1>1, <1>2 DEF Next, Pas

(* A step that keeps the manifest keeps its files on disk, where they      *)
(* have to be.                                                             *)
LEMMA DisqueGarde ==
  ASSUME TypeTeleversement, InvVerrou, InvManifeste, InvRecus, Serein, fautes = 0, manifeste # Absent,
         NEW p \in Processus, Pas(p), SurLeDisque(manifeste.recus),
         \/ annulation = "aucune" \/ manifeste.idLot # SansLot
         \/ \E q \in Processus \ {p} : pc[q] \in {"creerLot", "associer"}
  PROVE  \A f \in DOMAIN manifeste.recus \ (deposes' \cap DejaConnus) :
           f \in DOMAIN disque' /\ disque'[f] = manifeste.recus[f]
<1>1. CASE PromouvoirFichier(p)
  <2>1. pc[p] = "promouvoir" /\ manifeste.statut = "en_cours" /\ Tient(p)
    BY <1>1 DEF PromouvoirFichier, InvManifeste, Tient, SousVerrou
  <2>2. annulation = "aucune"
    BY <2>1, UnSeulTient DEF Tient, SousVerrou, TypeTeleversement, Coherence
  <2>3. PICK g \in reste[p] \cap DOMAIN envoi[p] : disque' = Avec(Un(g, envoi[p][g]), disque)
    BY <1>1 DEF PromouvoirFichier
  <2>4. \A f : f # g /\ f \in DOMAIN disque => f \in DOMAIN disque' /\ disque'[f] = disque[f]
    BY <2>3 DEF Avec, Un
  <2>5. g \in DOMAIN disque' /\ disque'[g] = envoi[p][g]
    BY <2>3 DEF Avec, Un
  <2>6. g \in DOMAIN manifeste.recus => manifeste.recus[g] = envoi[p][g]
    BY <2>1, <2>2, <2>3 DEF InvRecus
  <2>7. deposes' = deposes
    BY <1>1 DEF PromouvoirFichier, base
  <2> QED BY <2>4, <2>5, <2>6, <2>7 DEF SurLeDisque
<1>2. CASE SupprimerFichier(p)
  BY <1>2 DEF SupprimerFichier, InvManifeste
<1>3. CASE Deposer(p)
  <2>1. PICK g \in DOMAIN disque \ deposes :
           /\ deposes' = deposes \cup {g}
           /\ disque' = IF g \in DejaConnus THEN Restrict(disque, DOMAIN disque \ {g}) ELSE disque
    BY <1>3 DEF Deposer
  <2>2. \A f \in DOMAIN disque : f \notin deposes' \cap DejaConnus => f \in DOMAIN disque' /\ disque'[f] = disque[f]
    BY <2>1 DEF Restrict
  <2> QED BY <2>1, <2>2 DEF SurLeDisque
<1>4. CASE ~PromouvoirFichier(p) /\ ~SupprimerFichier(p) /\ ~Deposer(p)
  BY <1>4, QuiTouche DEF SurLeDisque
<1> QED BY <1>1, <1>2, <1>3, <1>4

LEMMA PasInvDisque ==
  ASSUME TypeTeleversement, InvVerrou, InvLu, InvDocuments, InvManifeste, InvPret, InvDisque, InvRecus, [Next]_vars
  PROVE  InvDisque'
<1> DEFINE Sur(r) == \A f \in DOMAIN r \ (deposes' \cap DejaConnus) :
                       f \in DOMAIN disque' /\ disque'[f] = r[f]
<1> SUFFICES ASSUME Serein', fautes' = 0, manifeste' # Absent,
                    \/ annulation' = "aucune" \/ manifeste'.idLot # SansLot
                    \/ \E q \in Processus : pc'[q] \in {"creerLot", "associer"}
             PROVE  Sur(manifeste'.recus)
  BY PasRienDepose DEF InvDisque, SurLeDisque
<1>0. Serein /\ (annulation' = "aucune" => annulation = "aucune")
  BY AnnulationCroit
<1>1. ASSUME NEW p \in Processus, Pas(p) PROVE Sur(manifeste'.recus)
  <2>1. Effet(p) /\ fautes = 0
    BY <1>1, EffetPas, QuiTouche
  <2>2. CASE Reconciliation(p)
    BY <2>2, ReconciliationGarde DEF Reconciliation
  <2>3. CASE CreerDossier(p)
    BY <2>3 DEF CreerDossier, ManifesteVierge, Vide
  <2>4. CASE SupprimerManifeste(p)
    BY <2>4 DEF SupprimerManifeste
  <2>5. CASE manifeste' = manifeste /\ ~Reconciliation(p)
    <3>1. SurLeDisque(manifeste.recus)
      <4>1. CASE annulation' = "aucune" \/ manifeste'.idLot # SansLot
        BY <1>0, <2>1, <2>5, <4>1 DEF InvDisque
      <4>2. CASE \E q \in Processus : pc'[q] \in {"creerLot", "associer"}
        <5>1. \E q \in Processus : pc[q] \in {"creerLot", "associer"}
          BY <1>1, <2>1, <2>5, <4>2, VersLeLot DEF Effet
        <5> QED BY <1>0, <2>1, <2>5, <5>1 DEF InvDisque
      <4> QED BY <4>1, <4>2
    <3>2. CASE annulation = "aucune" \/ manifeste.idLot # SansLot
      BY <1>0, <1>1, <2>1, <2>5, <3>1, <3>2, DisqueGarde
    <3>3. CASE \E q \in Processus : pc'[q] \in {"creerLot", "associer"}
      <4>1. CASE \E q \in Processus \ {p} : pc[q] \in {"creerLot", "associer"}
        BY <1>0, <1>1, <2>1, <2>5, <3>1, <4>1, DisqueGarde
      <4>2. CASE pc'[p] \in {"creerLot", "associer"}
        BY <1>1, <2>5, <3>1, <4>2, VersLeLot DEF SurLeDisque
      <4> QED BY <2>1, <3>3, <4>1, <4>2 DEF Effet
    <3> QED BY <1>0, <2>5, <3>2, <3>3
  <2>6. CASE SauverEnvoi(p)
    <3>1. /\ lu[p] = manifeste /\ manifeste \in Manifestes /\ manifeste'.idLot = manifeste.idLot
          /\ manifeste'.recus = Avec(manifeste.recus, envoi[p])
          /\ manifeste.statut = "en_cours" /\ manifeste # Absent
      BY <1>0, <2>6, EnvoiSauve, ManifesteType
    <3>2. manifeste.idLot = SansLot /\ pc[p] = "promouvoir" /\ reste[p] = {} /\ Tient(p)
      BY <2>6, <3>1 DEF SauverEnvoi, InvLu, Tient, SousVerrou
    <3>3. pc'[p] = "repos" /\ disque' = disque /\ deposes' = deposes
      BY <2>6, SortirType DEF SauverEnvoi, base
    <3>4. \A q \in Processus \ {p} : pc[q] \notin {"creerLot", "associer"}
      BY <3>2, UnSeulTient DEF Tient, SousVerrou
    <3>5. annulation = "aucune"
      BY <1>0, <2>1, <3>1, <3>2, <3>3, <3>4 DEF Effet
    <3>6. SurLeDisque(manifeste.recus)
      BY <1>0, <2>1, <3>1, <3>5 DEF InvDisque
    <3>7. \A f \in DOMAIN envoi[p] : f \in DOMAIN disque /\ disque[f] = envoi[p][f]
      BY <2>1, <3>2, <3>5 DEF InvRecus
    <3>8. /\ DOMAIN manifeste'.recus = DOMAIN manifeste.recus \cup DOMAIN envoi[p]
          /\ \A f \in DOMAIN manifeste.recus : manifeste'.recus[f] = manifeste.recus[f]
          /\ \A f \in DOMAIN envoi[p] : f \notin DOMAIN manifeste.recus => manifeste'.recus[f] = envoi[p][f]
      BY <3>1 DEF Avec
    <3> QED BY <3>3, <3>6, <3>7, <3>8 DEF SurLeDisque
  <2>7. CASE Associer(p) /\ manifeste' # manifeste
    <3>1. /\ manifeste \in Manifestes /\ manifeste'.recus = manifeste.recus
          /\ pc[p] = "associer" /\ disque' = disque /\ deposes' = deposes
      BY <2>7, LotAssocie DEF Associer, base
    <3>2. SurLeDisque(manifeste.recus)
      BY <1>0, <2>1, <3>1, ManifesteType DEF InvDisque
    <3> QED BY <3>1, <3>2 DEF SurLeDisque
  <2>8. CASE SauverCles(p)
    <3>1. /\ manifeste \in Manifestes /\ manifeste'.recus = manifeste.recus
          /\ manifeste.idLot # SansLot /\ disque' = disque /\ deposes' = deposes
      BY <1>0, <2>8, ClesSauvees DEF SauverCles, InvLu, base
    <3>2. SurLeDisque(manifeste.recus)
      BY <1>0, <2>1, <3>1, ManifesteType DEF InvDisque
    <3> QED BY <3>1, <3>2 DEF SurLeDisque
  <2> QED BY <1>1, <2>2, <2>3, <2>4, <2>5, <2>6, <2>7, <2>8, QuiEcrit
<1>2. CASE Alterer
  BY <1>2 DEF Alterer, TypeTeleversement, TypeTemoins
<1>3. CASE AltererCopie
  BY <1>3 DEF AltererCopie, TypeTeleversement, TypeTemoins
<1>4. CASE UNCHANGED vars
  BY <1>0, <1>4 DEF vars, session, base, locales, temoins, InvDisque, SurLeDisque
<1> QED BY <1>1, <1>2, <1>3, <1>4 DEF Next, Pas

(* Who receives files was there before, or begins.                         *)
LEMMA VersLaReception ==
  ASSUME TypeTeleversement, InvManifeste, annulation' = "aucune", annulation = "aucune",
         NEW p \in Processus, Pas(p), NEW q \in Processus, pc'[q] = "promouvoir"
  PROVE  \/ q = p /\ (Recevoir(p) \/ PromouvoirFichier(p))
         \/ /\ q # p /\ pc[q] = "promouvoir" /\ reste'[q] = reste[q] /\ envoi'[q] = envoi[q]
<1> USE DEF TypeTeleversement, TypeLocales, session, copies, base, locales, temoins
<1>1. CASE CreerRelire(p) \/ CreerRefuse(p) \/ CreerMarquer(p) \/ FinirPasse(p)
  BY <1>1, OublierType DEF CreerRelire, CreerRefuse, CreerMarquer, FinirPasse
<1>2. CASE PromotionRompue(p) \/ SauverEnvoi(p) \/ FinirSuppression(p) \/ LotImpossible(p) \/ Associer(p)
           \/ Panne(p)
  BY <1>2, SortirType DEF PromotionRompue, SauverEnvoi, FinirSuppression, LotImpossible, Associer, Panne
<1>3. CASE CreerReserver(p) \/ CreerDossier(p) \/ Recevoir(p) \/ Annuler(p)
  BY <1>3 DEF CreerReserver, CreerDossier, Recevoir, Annuler, Entrer
<1>4. CASE Etat(p) \/ Terminer(p) \/ RetrouverLot(p) \/ LotRefuse(p)
  BY <1>4 DEF Etat, Terminer, RetrouverLot, LotRefuse, EntrerLot, Entrer, EnUnPas
<1>5. CASE OuvrirLot(p) \/ Promouvoir(p)
  BY <1>5 DEF OuvrirLot, Promouvoir, EntrerLot, Entrer
<1>6. CASE EntrerTropTard(p)
  BY <1>6 DEF EntrerTropTard, EnUnPas
<1>7. CASE PromouvoirFichier(p)
  BY <1>7 DEF PromouvoirFichier
<1>8. CASE SupprimerManifeste(p) \/ SupprimerVerrou(p) \/ SupprimerTemporaires(p) \/ SupprimerFichier(p)
  BY <1>8 DEF SupprimerManifeste, SupprimerVerrou, SupprimerTemporaires, SupprimerFichier, InvManifeste, Serein
<1>9. CASE CreerLot(p)
  BY <1>9 DEF CreerLot
<1>10. CASE VerifierCopie(p) \/ Copier(p) \/ Interrompre(p)
  BY <1>10 DEF VerifierCopie, Copier, Interrompre, Noter, Echouer
<1>11. CASE Vider(p) \/ Deposer(p) \/ EffacerJournal(p)
  BY <1>11 DEF Vider, Deposer, EffacerJournal
<1>12. CASE SauverCles(p)
  BY <1>12, SortirType DEF SauverCles
<1> QED BY <1>1, <1>2, <1>3, <1>4, <1>5, <1>6, <1>7, <1>8, <1>9, <1>10, <1>11, <1>12 DEF Pas, PasSession, PasPromotion

(* What was answered stays in the manifest.                                *)
LEMMA AccuseGarde ==
  ASSUME TypeTeleversement, InvVerrou, InvLu, InvDocuments, InvManifeste, InvDisque, InvRecus,
         annulation' = "aucune", annulation = "aucune", fautes = 0,
         NEW p \in Processus, Pas(p)
  PROVE  /\ manifeste' = Absent => accuses' = Vide
         /\ manifeste' # Absent => \A f \in DOMAIN accuses' : /\ f \in DOMAIN manifeste'.recus
                                                            /\ manifeste'.recus[f] = accuses'[f]
<1>0. Serein
  BY DEF Serein
<1>1. CASE SauverEnvoi(p)
  <2>1. /\ lu[p] = manifeste /\ manifeste \in Manifestes /\ manifeste # Absent /\ manifeste' # Absent
        /\ manifeste'.recus = Avec(manifeste.recus, envoi[p])
    BY <1>0, <1>1, EnvoiSauve, ManifesteType
  <2>2. /\ DOMAIN manifeste'.recus = DOMAIN manifeste.recus \cup DOMAIN envoi[p]
        /\ \A f \in DOMAIN manifeste.recus : manifeste'.recus[f] = manifeste.recus[f]
        /\ \A f \in DOMAIN envoi[p] : f \notin DOMAIN manifeste.recus => manifeste'.recus[f] = envoi[p][f]
    BY <2>1 DEF Avec
  <2>3. \A f \in DOMAIN envoi[p] : f \in DOMAIN manifeste.recus => manifeste.recus[f] = envoi[p][f]
    BY <1>1 DEF SauverEnvoi, InvRecus
  <2>4. \A f \in DOMAIN accuses : f \in DOMAIN manifeste.recus /\ manifeste.recus[f] = accuses[f]
    BY <2>1 DEF InvRecus
  <2>5. accuses' = accuses \/ accuses' = Avec(accuses, envoi[p])
    BY <1>1 DEF SauverEnvoi, ReponseEventuelle
  <2>6. \A f \in DOMAIN accuses' : \/ f \in DOMAIN accuses /\ accuses'[f] = accuses[f]
                                   \/ f \in DOMAIN envoi[p] /\ accuses'[f] = envoi[p][f]
    BY <2>5 DEF Avec
  <2> QED BY <2>1, <2>2, <2>3, <2>4, <2>6
<1>2. CASE ~SauverEnvoi(p)
  <2>0. accuses' = accuses
    BY <1>2, QuiTouche
  <2>1. CASE manifeste' = manifeste
    BY <2>0, <2>1 DEF InvRecus
  <2>2. CASE CreerDossier(p)
    BY <2>0, <2>2, ManifesteType DEF CreerDossier, InvRecus, Vide
  <2>3. CASE SupprimerManifeste(p)
    BY <1>0, <2>3 DEF SupprimerManifeste, InvManifeste
  <2>4. CASE Associer(p) /\ manifeste' # manifeste
    <3>1. /\ manifeste \in Manifestes /\ manifeste' # Absent /\ manifeste'.recus = manifeste.recus
      BY <2>4, LotAssocie
    <3>2. manifeste # Absent
      BY <3>1, ManifesteType
    <3> QED BY <2>0, <3>1, <3>2 DEF InvRecus
  <2>5. CASE SauverCles(p)
    <3>1. /\ manifeste \in Manifestes /\ manifeste' # Absent /\ manifeste'.recus = manifeste.recus
      BY <1>0, <2>5, ClesSauvees
    <3>2. manifeste # Absent
      BY <3>1, ManifesteType
    <3> QED BY <2>0, <3>1, <3>2 DEF InvRecus
  <2>6. CASE Reconciliation(p)
    <3>1. manifeste # Absent /\ manifeste' # Absent /\ manifeste'.recus = disque /\ Reconciliable(manifeste)
      BY <2>6, ReconciliationGarde DEF Reconciliation
    <3>2. DOMAIN manifeste.recus \subseteq DOMAIN disque
      <4>1. CASE manifeste.idLot # SansLot
        BY <3>1, <4>1 DEF Reconciliable
      <4>2. CASE manifeste.idLot = SansLot
        BY <1>0, <3>1, <4>2 DEF InvDisque, SurLeDisque
      <4> QED BY <4>1, <4>2
    <3>3. \A f \in DOMAIN accuses : f \in DOMAIN manifeste.recus /\ manifeste.recus[f] = accuses[f]
      BY <3>1 DEF InvRecus
    <3> QED BY <2>0, <3>1, <3>2, <3>3 DEF Reconciliable
  <2> QED BY <1>2, <2>1, <2>2, <2>3, <2>4, <2>5, <2>6, QuiEcrit
<1> QED BY <1>1, <1>2

(* What a request receives is in the manifest, on disk or on its way.      *)
LEMMA EnvoiTenu ==
  ASSUME TypeTeleversement, InvVerrou, InvManifeste, InvDisque, InvRecus,
         annulation' = "aucune", annulation = "aucune", fautes = 0,
         NEW p \in Processus, Pas(p), NEW q \in Processus, pc'[q] = "promouvoir",
         NEW f \in DOMAIN envoi'[q]
  PROVE  /\ f \in DOMAIN manifeste'.recus => manifeste'.recus[f] = envoi'[q][f]
         /\ \/ f \in reste'[q] /\ f \notin DOMAIN manifeste'.recus
            \/ f \in DOMAIN disque' /\ disque'[f] = envoi'[q][f]
<1>0. Serein
  BY DEF Serein
<1>1. CASE q # p
  <2>1. pc[q] = "promouvoir" /\ reste'[q] = reste[q] /\ envoi'[q] = envoi[q] /\ Tient(q)
    BY <1>1, VersLaReception DEF Tient, SousVerrou
  <2>2. manifeste # Absent /\ manifeste.statut = "en_cours" /\ manifeste.idLot = SansLot
    BY <1>0, <2>1, ManifesteType DEF InvManifeste, TypeTeleversement, TypeSession, Coherence
  <2>3. manifeste' = manifeste
    BY <1>0, <1>1, <2>1, <2>2, ManifesteTenu
  <2>4. ~PromouvoirFichier(p)
    BY <1>1, <2>1, UnSeulTient DEF PromouvoirFichier, Tient, SousVerrou
  <2>5. ~SupprimerFichier(p) /\ ~Deposer(p)
    BY <1>0, <2>2 DEF SupprimerFichier, Deposer, InvManifeste
  <2>6. disque' = disque
    BY <2>4, <2>5, QuiTouche
  <2> QED BY <2>1, <2>3, <2>6 DEF InvRecus
<1>2. CASE q = p /\ Recevoir(p)
  <2>1. PICK e \in Partielles(Contenus) :
          /\ Recevable(e) /\ envoi' = [envoi EXCEPT ![p] = e]
          /\ reste' = [reste EXCEPT ![p] = DOMAIN e \ (DOMAIN manifeste.recus \cup DOMAIN disque)]
    BY <1>2 DEF Recevoir
  <2>2. envoi'[p] = e /\ reste'[p] = DOMAIN e \ (DOMAIN manifeste.recus \cup DOMAIN disque)
    BY <2>1 DEF TypeTeleversement, TypeLocales
  <2>3. manifeste' = manifeste /\ disque' = disque /\ manifeste # Absent /\ manifeste.statut = "en_cours"
    BY <1>2, <2>1 DEF Recevoir, Entrer, Recevable
  <2>4. \A g \in DOMAIN manifeste.recus : g \in DOMAIN disque /\ disque[g] = manifeste.recus[g]
    <3>1. manifeste.idLot = SansLot
      BY <2>3, ManifesteType DEF TypeTeleversement, TypeSession, Coherence
    <3> QED BY <1>0, <2>3, <3>1 DEF InvDisque, SurLeDisque
  <2>5. /\ f \in DOMAIN manifeste.recus => manifeste.recus[f] = e[f]
        /\ f \in DOMAIN disque \ DOMAIN manifeste.recus => disque[f] = e[f]
    BY <1>2, <2>1, <2>2 DEF Recevable
  <2> QED BY <1>2, <2>2, <2>3, <2>4, <2>5
<1>3. CASE q = p /\ PromouvoirFichier(p)
  <2>1. PICK g \in reste[p] \cap DOMAIN envoi[p] :
          /\ disque' = Avec(Un(g, envoi[p][g]), disque)
          /\ reste' = [reste EXCEPT ![p] = @ \ {g}]
    BY <1>3 DEF PromouvoirFichier
  <2>2. /\ manifeste' = manifeste /\ envoi' = envoi /\ pc[p] = "promouvoir"
        /\ reste'[p] = reste[p] \ {g}
    BY <1>3, <2>1 DEF PromouvoirFichier, TypeTeleversement, TypeLocales
  <2>3. \A h : h # g /\ h \in DOMAIN disque => h \in DOMAIN disque' /\ disque'[h] = disque[h]
    BY <2>1 DEF Avec, Un
  <2>4. g \in DOMAIN disque' /\ disque'[g] = envoi[p][g]
    BY <2>1 DEF Avec, Un
  <2>5. /\ f \in DOMAIN manifeste.recus => manifeste.recus[f] = envoi[p][f]
        /\ \/ f \in reste[p] /\ f \notin DOMAIN manifeste.recus
           \/ f \in DOMAIN disque /\ disque[f] = envoi[p][f]
    BY <1>3, <2>2 DEF InvRecus
  <2> QED BY <1>3, <2>2, <2>3, <2>4, <2>5
<1> QED BY <1>1, <1>2, <1>3, VersLaReception

LEMMA PasInvRecus ==
  ASSUME TypeTeleversement, InvVerrou, InvLu, InvDocuments, InvManifeste, InvDisque, InvRecus, [Next]_vars
  PROVE  InvRecus'
<1> SUFFICES ASSUME annulation' = "aucune", fautes' = 0 PROVE InvRecus'
  BY DEF InvRecus
<1>0. annulation = "aucune"
  BY AnnulationCroit
<1>1. ASSUME NEW p \in Processus, Pas(p) PROVE InvRecus'
  <2>1. fautes = 0
    BY <1>1, QuiTouche
  <2>2. /\ manifeste' = Absent => accuses' = Vide
        /\ manifeste' # Absent => \A f \in DOMAIN accuses' : /\ f \in DOMAIN manifeste'.recus
                                                           /\ manifeste'.recus[f] = accuses'[f]
    BY <1>0, <1>1, <2>1, AccuseGarde
  <2>3. \A q \in Processus : pc'[q] = "promouvoir" => \A f \in DOMAIN envoi'[q] :
           /\ f \in DOMAIN manifeste'.recus => manifeste'.recus[f] = envoi'[q][f]
           /\ \/ f \in reste'[q] /\ f \notin DOMAIN manifeste'.recus
              \/ f \in DOMAIN disque' /\ disque'[f] = envoi'[q][f]
    BY <1>0, <1>1, <2>1, EnvoiTenu
  <2> QED BY <2>2, <2>3 DEF InvRecus
<1>2. CASE Alterer \/ AltererCopie
  BY <1>2 DEF Alterer, AltererCopie, TypeTeleversement, TypeTemoins
<1>3. CASE UNCHANGED vars
  BY <1>0, <1>3 DEF vars, session, locales, temoins, InvRecus
<1> QED BY <1>1, <1>2, <1>3 DEF Next, Pas

-----------------------------------------------------------------------------
LEMMA TenueInvariante == Spec => [](InvManifeste /\ InvDisque /\ InvRecus)
<1> DEFINE Inv == InvManifeste /\ InvDisque /\ InvRecus
<1>1. InitTeleversement => Inv
  BY DEF InitTeleversement, InvManifeste, InvDisque, InvRecus, Vide
<1>2. TypeTeleversement /\ InvSession /\ InvDocuments /\ InvPret /\ Inv /\ [Next]_vars => Inv'
  BY PasInvManifeste, PasInvDisque, PasInvRecus DEF InvSession
<1> QED BY <1>1, <1>2, TypeCorrectTeleversement, SessionInvariante, DocumentsInvariants, PTL DEF Spec

(* A file whose reception was answered is in the manifest with the bytes   *)
(* received, and on disk until a folder that had a record is deposited, as *)
(* long as nobody cancels and the disk keeps what it holds                 *)
(* (_recevoir_fichiers_televersement_lot_interne, _verrou_session).        *)
THEOREM AccuseTenuProuve == Spec => []AccuseTenu
<1>1. InvDisque /\ InvRecus => AccuseTenu
  BY DEF InvDisque, InvRecus, AccuseTenu, SurLeDisque, Serein
<1> QED BY <1>1, TenueInvariante, PTL

(* A session with a lot was complete and has no other file on its disk; it *)
(* has all the files announced there, but for those that the deposit       *)
(* removes, unless somebody entered it under a removal                     *)
(* (creer_lot_session_televersement, _supprimer_copies_rejeu,              *)
(* _annuler_session_televersement_lot_interne).                            *)
THEOREM LotCompletProuve == Spec => []LotComplet
<1>1. TypeTeleversement /\ InvPret /\ InvDisque => LotComplet
  BY DocumentsType DEF InvPret, InvDisque, LotComplet, SurLeDisque, Serein, TypeTeleversement, Coherence
<1> QED BY <1>1, TenueInvariante, DocumentsInvariants, TypeCorrectTeleversement, PTL

-----------------------------------------------------------------------------
(* Two complete sets of files, one within the other, have the same names.  *)
LEMMA CompletsEgaux ==
  ASSUME NEW r \in Recus, NEW d \in Recus, Complet(r), Complet(d), DOMAIN d \subseteq DOMAIN r,
         \A f \in DOMAIN r \cap DOMAIN d : d[f] = r[f]
  PROVE  r = d
<1>1. IsFiniteSet(DOMAIN r)
  BY RecusType, HypFichiers, FS_Subset
<1>2. Cardinality(DOMAIN r) = Cardinality(DOMAIN d)
  BY DEF Complet
<1>3. DOMAIN d = DOMAIN r
  <2>1. PICK S : S = DOMAIN r
    OBVIOUS
  <2>2. PICK T : T = DOMAIN d
    OBVIOUS
  <2>3. IsFiniteSet(S) /\ T \subseteq S /\ Cardinality(S) = Cardinality(T)
    BY <1>1, <1>2, <2>1, <2>2
  <2>4. S = T
    BY <2>3, FS_Subset
  <2> QED BY <2>1, <2>2, <2>4
<1> QED BY <1>3, MemesFichiers

(* A cancellation begins while there is a manifest, and is then answered.  *)
LEMMA QuiAnnule ==
  ASSUME TypeTeleversement, InvManifeste, Serein, NEW p \in Processus, Pas(p)
  PROVE  \/ annulation' = annulation
         \/ manifeste' = manifeste /\ (manifeste # Absent \/ (annulation # "aucune" /\ annulation' # "aucune"))
<1> USE DEF temoins
<1>1. CASE Annuler(p)
  BY <1>1 DEF Annuler, Entrer
<1>2. CASE FinirSuppression(p)
  BY <1>2 DEF FinirSuppression, ReponseEventuelle, InvManifeste
<1> QED BY <1>1, <1>2 DEF Pas, PasSession, CreerReserver, CreerRelire, CreerDossier, CreerRefuse, CreerMarquer,
       Recevoir, PromouvoirFichier, PromotionRompue, SauverEnvoi, Etat, Terminer,
       SupprimerManifeste, SupprimerVerrou, SupprimerTemporaires, SupprimerFichier,
       EntrerTropTard, RetrouverLot, OuvrirLot, LotRefuse, CreerLot, LotImpossible, Associer,
       PasPromotion, Promouvoir, VerifierCopie, Copier, Interrompre, Vider, SauverCles,
       EffacerJournal, Deposer, FinirPasse, Panne

(* What the client sees of each step.                                      *)
RecusVus == IF manifeste = Absent THEN Vide ELSE manifeste.recus
LotVu == IF manifeste = Absent THEN SansLot ELSE manifeste.idLot
Immobile == Phase' = Phase /\ RecusVus' = RecusVus /\ LotVu' = LotVu
Remplace(r, s) == \E f \in DOMAIN r \cap DOMAIN s : s[f] # r[f]
PasVu ==
  \/ Immobile
  \/ Phase = "attendu" /\ Phase' = "en_cours" /\ RecusVus' = RecusVus /\ LotVu' = LotVu
  \/ /\ Phase \in {"en_cours", "pret"} /\ Phase' = "en_cours"
     /\ RecusVus' \in Recus /\ ~Remplace(RecusVus, RecusVus') /\ LotVu' = LotVu
  \/ /\ Phase = "en_cours" /\ Phase' = "pret"
     /\ RecusVus' \in Recus /\ ~Remplace(RecusVus, RecusVus') /\ Complet(RecusVus') /\ LotVu' = LotVu
  \/ Phase = "pret" /\ Phase' = "associe" /\ LotVu' \in Nat \ {0} /\ RecusVus' = RecusVus
  \/ Phase \in {"en_cours", "pret"} /\ Phase' = "annule" /\ RecusVus' = Vide /\ LotVu' = LotVu

LEMMA ReconciliationVue ==
  ASSUME TypeTeleversement, InvPret, NEW p \in Processus, Reconciliation(p)
  PROVE  PasVu
<1> DEFINE m == manifeste
           n == manifeste'
<1>1. /\ m # Absent /\ n # Absent /\ m \in Manifestes /\ n \in Manifestes
      /\ n.idLot = m.idLot /\ n.recus = disque
      /\ m.idLot # SansLot => n.statut = "pret"
      /\ \/ Complet(disque)
         \/ n.statut = m.statut /\ (m.recus = disque \/ m.idLot # SansLot)
         \/ n.statut = "en_cours"
      /\ \A f \in DOMAIN m.recus \cap DOMAIN disque : disque[f] = m.recus[f]
  BY ReconciliationGarde DEF Reconciliation, Reconciliable
<1>2. /\ m.statut \in {"en_cours", "pret"} /\ n.statut \in {"en_cours", "pret"}
      /\ m.recus \in Recus /\ disque \in Recus
  BY <1>1, ManifesteType DEF TypeTeleversement, TypeSession
<1>3. /\ RecusVus = m.recus /\ RecusVus' = disque /\ LotVu = m.idLot /\ LotVu' = m.idLot
      /\ Phase = IF m.idLot # SansLot THEN "associe" ELSE m.statut
      /\ Phase' = IF m.idLot # SansLot THEN "associe" ELSE n.statut
  BY <1>1 DEF RecusVus, LotVu, Phase
<1>4. CASE m.idLot # SansLot
  BY <1>3, <1>4, ReconciliationLot DEF PasVu, Immobile
<1>5. CASE m.idLot = SansLot /\ n.statut = "en_cours"
  BY <1>1, <1>2, <1>3, <1>5 DEF PasVu, Remplace
<1>6. CASE m.idLot = SansLot /\ n.statut = "pret" /\ m.statut = "en_cours"
  <2>1. Complet(disque)
    BY <1>1, <1>6
  <2> QED BY <1>1, <1>2, <1>3, <1>6, <2>1 DEF PasVu, Remplace
<1>7. CASE m.idLot = SansLot /\ n.statut = "pret" /\ m.statut = "pret"
  <2>1. Complet(m.recus) /\ DOMAIN disque \subseteq DOMAIN m.recus
    BY <1>1, <1>7, DocumentsType DEF InvPret
  <2>2. m.recus = disque
    BY <1>1, <1>2, <1>7, <2>1, CompletsEgaux
  <2> QED BY <1>3, <1>7, <2>2 DEF PasVu, Immobile
<1> QED BY <1>2, <1>4, <1>5, <1>6, <1>7

LEMMA ToutEstVu ==
  ASSUME TypeTeleversement, InvCree, InvLu, InvDocuments, InvManifeste, InvPret, Serein, NEW p \in Processus, Pas(p)
  PROVE  PasVu
<1>1. CASE manifeste' = manifeste
  BY <1>1, QuiAnnule DEF PasVu, Immobile, Phase, RecusVus, LotVu
<1>2. CASE CreerDossier(p)
  <2>1. annulation = "aucune" /\ annulation' = "aucune" /\ manifeste = Absent /\ manifeste' = ManifesteVierge
    BY <1>2 DEF CreerDossier, InvCree, temoins
  <2> QED BY <2>1, ManifesteType DEF PasVu, Phase, RecusVus, LotVu, ManifesteVierge
<1>3. CASE SauverEnvoi(p)
  <2>1. /\ lu[p] = manifeste /\ manifeste \in Manifestes /\ manifeste.statut = "en_cours"
        /\ manifeste' \in Manifestes /\ manifeste' # Absent
        /\ manifeste'.idLot = manifeste.idLot /\ manifeste'.statut = "en_cours"
        /\ manifeste'.recus = Avec(manifeste.recus, envoi[p])
    BY <1>3, EnvoiSauve
  <2>2. manifeste # Absent /\ manifeste.idLot = SansLot /\ manifeste'.recus \in Recus
    BY <1>3, <2>1, ManifesteType DEF SauverEnvoi, InvLu
  <2>3. \A f \in DOMAIN manifeste.recus : manifeste'.recus[f] = manifeste.recus[f]
    BY <2>1 DEF Avec
  <2> QED BY <2>1, <2>2, <2>3 DEF PasVu, Phase, RecusVus, LotVu, Remplace
<1>4. CASE SupprimerManifeste(p) /\ manifeste # Absent
  <2>1. /\ manifeste' = Absent /\ manifeste.idLot = SansLot /\ annulation # "aucune" /\ annulation' = annulation
        /\ manifeste.statut \in {"en_cours", "pret"}
    BY <1>4, ManifesteType DEF SupprimerManifeste, InvManifeste, temoins, TypeTeleversement, TypeSession
  <2> QED BY <1>4, <2>1 DEF PasVu, Phase, RecusVus, LotVu
<1>5. CASE Associer(p) /\ manifeste' # manifeste
  <2>1. /\ manifeste \in Manifestes /\ manifeste.statut = "pret" /\ manifeste' # Absent
        /\ manifeste'.recus = manifeste.recus /\ manifeste'.idLot \in Nat \ {0}
    BY <1>5, LotAssocie
  <2>2. manifeste # Absent /\ manifeste.idLot = SansLot
    BY <1>5, <2>1, ManifesteType DEF Associer, InvManifeste
  <2> QED BY <2>1, <2>2 DEF PasVu, Phase, RecusVus, LotVu, SansLot
<1>6. CASE SauverCles(p)
  <2>1. /\ lu[p] = manifeste /\ manifeste \in Manifestes /\ manifeste' # Absent
        /\ manifeste'.idLot = manifeste.idLot /\ manifeste'.recus = manifeste.recus
    BY <1>6, ClesSauvees
  <2>2. manifeste # Absent /\ manifeste.idLot # SansLot
    BY <1>6, <2>1, ManifesteType DEF SauverCles, InvLu
  <2> QED BY <2>1, <2>2 DEF PasVu, Immobile, Phase, RecusVus, LotVu
<1> QED BY <1>1, <1>2, <1>3, <1>4, <1>5, <1>6, QuiEcrit, ReconciliationVue DEF SupprimerManifeste

LEMMA VuEstPromis == PasVu => [Annonce!NextTransfert]_(Annonce!varsTransfert)
BY DEF PasVu, Immobile, Remplace, RecusVus, LotVu, SansLot, Annonce!NextTransfert, Annonce!varsTransfert,
       Annonce!Ouvrir, Annonce!Changer, Annonce!Finir, Annonce!Associer, Annonce!Annuler, Annonce!SansRemplacer

(* In whatever order a removal takes the entries of the directory, the     *)
(* requests of a session, its promotions, its crashes and the faults of    *)
(* its disk show the client what TransfertAnnonce promises: files          *)
(* accumulate and none is replaced, a complete session only is ready, a    *)
(* lot freezes it, a cancellation ends it; until somebody enters a session *)
(* under a removal (televersement_lot.py).                                 *)
THEOREM TientSaPromesseProuvee == Spec => TientSaPromesse
<1>1. InitTeleversement => Annonce!InitTransfert
  BY DEF InitTeleversement, Annonce!InitTransfert, Phase, SansLot
<1>2. ASSUME TypeTeleversement, InvSession, InvDocuments, InvPret, InvManifeste, [Next]_vars
      PROVE  [Annonce!NextTransfert \/ intrus']_(Annonce!varsTransfert)
  <2> SUFFICES ASSUME ~intrus' PROVE [Annonce!NextTransfert]_(Annonce!varsTransfert)
    OBVIOUS
  <2>1. Serein
    BY <1>2, AnnulationCroit DEF Serein
  <2>2. PasVu
    <3>1. CASE \E p \in Processus : Pas(p)
      BY <1>2, <2>1, <3>1, ToutEstVu DEF InvSession
    <3>2. CASE Alterer \/ AltererCopie \/ UNCHANGED vars
      BY <3>2 DEF Alterer, AltererCopie, vars, session, temoins, PasVu, Immobile, Phase, RecusVus, LotVu
    <3> QED BY <1>2, <3>1, <3>2 DEF Next, Pas
  <2> QED BY <2>2, VuEstPromis
<1> QED BY <1>1, <1>2, TypeCorrectTeleversement, SessionInvariante, DocumentsInvariants, TenueInvariante, PTL
        DEF Spec, TientSaPromesse

-----------------------------------------------------------------------------
(* The copies. None is removed by a step; who writes the journal, and says *)
(* that a promotion is done; the buffers.                                  *)
LEMMA CopiesCroissent ==
  ASSUME TypeTeleversement, NEW p \in Processus, Pas(p)
  PROVE  \A f \in Fichiers :
           /\ DOMAIN objets[f] \subseteq DOMAIN objets'[f]
           /\ \A n \in DOMAIN objets[f] : objets'[f][n] = objets[f][n]
<1>1. CASE Copier(p)
  <2>0. PICK f \in Fichiers : \E c : objets' = [objets EXCEPT ![f] = Append(objets[f], c)]
    <3>1. reste[p] \cap DOMAIN disque \subseteq Fichiers
      BY RecusType DEF TypeTeleversement, TypeSession
    <3> QED BY <1>1, <3>1 DEF Copier, SourceFidele
  <2>1. PICK c : objets' = [objets EXCEPT ![f] = Append(objets[f], c)]
    BY <2>0
  <2>2. objets \in [Fichiers -> Seq(SurDisque \cup {Tronque})]
    BY DEF TypeTeleversement, TypeCopies
  <2>3. PICK s \in Seq(SurDisque \cup {Tronque}) : s = objets[f]
    BY <2>2
  <2>4. /\ DOMAIN s \subseteq DOMAIN Append(s, c)
        /\ \A n \in DOMAIN s : Append(s, c)[n] = s[n]
    OBVIOUS
  <2> QED BY <2>1, <2>2, <2>3, <2>4
<1>2. CASE ~Copier(p)
  <2>1. objets' = objets
    BY <1>2 DEF copies, Pas, PasSession, CreerReserver, CreerRelire, CreerDossier, CreerRefuse, CreerMarquer,
       Recevoir, PromouvoirFichier, PromotionRompue, SauverEnvoi, Etat, Terminer, Annuler,
       SupprimerManifeste, SupprimerVerrou, SupprimerTemporaires, SupprimerFichier, FinirSuppression,
       EntrerTropTard, RetrouverLot, OuvrirLot, LotRefuse, CreerLot, LotImpossible, Associer,
       PasPromotion, Promouvoir, VerifierCopie, Interrompre, Vider, SauverCles,
       EffacerJournal, Deposer, FinirPasse, Panne
  <2> QED BY <2>1
<1> QED BY <1>1, <1>2

LEMMA QuiNote ==
  ASSUME TypeTeleversement, NEW p \in Processus, Pas(p)
  PROVE  /\ ~Vider(p) /\ ~EffacerJournal(p) => journal' = journal
         /\ ~EffacerJournal(p) /\ ~Promouvoir(p) => promu' = promu
BY DEF copies, Pas, PasSession, CreerReserver, CreerRelire, CreerDossier, CreerRefuse, CreerMarquer,
       Recevoir, PromouvoirFichier, PromotionRompue, SauverEnvoi, Etat, Terminer, Annuler,
       SupprimerManifeste, SupprimerVerrou, SupprimerTemporaires, SupprimerFichier, FinirSuppression,
       EntrerTropTard, RetrouverLot, OuvrirLot, LotRefuse, CreerLot, LotImpossible, Associer,
       PasPromotion, Promouvoir, VerifierCopie, Copier, Interrompre, Vider, SauverCles,
       EffacerJournal, Deposer, FinirPasse, Panne

(* A session that exists is not forgotten.                                 *)
LEMMA CreeReste ==
  ASSUME TypeTeleversement, InvCree, NEW p \in Processus, Pas(p), registre.cree
  PROVE  registre'.cree
<1>1. CASE CreerReserver(p) \/ CreerRelire(p) \/ CreerMarquer(p)
  BY <1>1 DEF CreerReserver, CreerRelire, CreerMarquer, InvCree, TypeTeleversement, TypeSession
<1> QED BY <1>1 DEF session, Pas, PasSession, CreerDossier, CreerRefuse,
       Recevoir, PromouvoirFichier, PromotionRompue, SauverEnvoi, Etat, Terminer, Annuler,
       SupprimerManifeste, SupprimerVerrou, SupprimerTemporaires, SupprimerFichier, FinirSuppression,
       EntrerTropTard, RetrouverLot, OuvrirLot, LotRefuse, CreerLot, LotImpossible, Associer,
       PasPromotion, Promouvoir, VerifierCopie, Copier, Interrompre, Vider, SauverCles,
       EffacerJournal, Deposer, FinirPasse, Panne

(* What a manifest says of the copies after a step.                        *)
Existera(m, f, n) == f \in DOMAIN m.recus /\ n \in DOMAIN objets'[f]
Tiendra(m, f, n) == Existera(m, f, n) /\ objets'[f][n] = m.recus[f]

LEMMA TenueReste ==
  ASSUME TypeTeleversement, NEW p \in Processus, Pas(p), NEW d \in Manifestes, NEW m,
         m.recus = d.recus, NEW f, NEW n
  PROVE  (Existe(d, f, n) => Existera(m, f, n)) /\ (Tenue(d, f, n) => Tiendra(m, f, n))
<1>1. DOMAIN d.recus \subseteq Fichiers
  BY ManifesteType, RecusType
<1> QED BY <1>1, CopiesCroissent DEF Existe, Tenue, Existera, Tiendra

(* The keys saved are those of the buffer, or those that were there.       *)
Sauvees(p, d) == IF tampon[p] = {} THEN d.cles ELSE Avec(Nouvelles(p), d.cles)
LEMMA NouvellesCles ==
  ASSUME NEW p, NEW d \in Manifestes, NEW f \in Fichiers
  PROVE  \/ Sauvees(p, d)[f] = d.cles[f] /\ \A e \in tampon[p] : e.nom # f
         \/ \E e \in tampon[p] : e.nom = f /\ Sauvees(p, d)[f] = e.cle
<1>2. DOMAIN d.cles = Fichiers
  BY DEF Manifestes, Cles
<1>3. CASE \E e \in tampon[p] : e.nom = f
  <2>1. (CHOOSE e \in tampon[p] : e.nom = f) \in tampon[p] /\ (CHOOSE e \in tampon[p] : e.nom = f).nom = f
    BY <1>3
  <2>2. Nouvelles(p)[f] = (CHOOSE e \in tampon[p] : e.nom = f).cle /\ f \in DOMAIN Nouvelles(p)
    BY <1>3 DEF Nouvelles
  <2>3. Sauvees(p, d)[f] = Nouvelles(p)[f]
    BY <1>3, <2>2 DEF Avec, Sauvees
  <2> QED BY <2>1, <2>2, <2>3
<1>4. CASE \A e \in tampon[p] : e.nom # f
  <2>1. f \notin DOMAIN Nouvelles(p)
    BY <1>4 DEF Nouvelles
  <2> QED BY <1>2, <1>4, <2>1 DEF Avec, Sauvees
<1> QED BY <1>3, <1>4

-----------------------------------------------------------------------------
(* Who notes or erases keys works on the manifest of a lot.                *)
LEMMA LotDeLaPromotion ==
  ASSUME TypeTeleversement, InvVerrou, InvLu, InvDocuments, NEW d \in Documents,
         NEW p \in Processus, pc[p] \in EnPromotion
  PROVE  d.idLot # SansLot /\ (pc[p] # "effacer" => d = lu[p])
<1>1. CASE pc[p] = "effacer"
  <2>1. \A q \in Processus : pc[q] \notin AvecCopie
    BY <1>1, UnSeulTient DEF Tient, SousVerrou, AvecCopie
  <2>2. d = manifeste /\ d # Absent
    BY <2>1, UnSeulDocument DEF Documents
  <2> QED BY <1>1, <2>2 DEF InvDocuments
<1>2. CASE pc[p] # "effacer"
  <2>1. pc[p] \in {"copier", "clore"} /\ d = lu[p]
    BY <1>2, UnSeulDocument DEF EnPromotion, AvecCopie
  <2> QED BY <1>2, <2>1 DEF InvLu
<1> QED BY <1>1, <1>2

(* The step of who promotes, on the journal.                               *)
LEMMA JournalPas ==
  ASSUME TypeTeleversement, InvVerrou, InvLu, InvDocuments, InvTampon,
         NEW d \in Documents, NEW p \in Processus, Pas(p)
  PROVE  /\ d.idLot = SansLot => journal' = journal /\ (promu' => promu)
         /\ \A e \in journal' : \/ e \in journal
                                \/ /\ e \in tampon[p] /\ d = lu[p] /\ pc[p] \in {"copier", "clore"}
                                   /\ Vider(p) /\ journal' = journal \cup tampon[p]
<1>1. CASE Vider(p)
  BY <1>1, LotDeLaPromotion DEF Vider, EnPromotion
<1>2. CASE EffacerJournal(p)
  BY <1>2, LotDeLaPromotion DEF EffacerJournal, EnPromotion
<1>3. CASE ~Vider(p) /\ ~EffacerJournal(p)
  BY <1>3, QuiNote DEF Promouvoir
<1> QED BY <1>1, <1>2, <1>3

(* The keys of a manifest that keeps its files are still true, with those  *)
(* that a promotion saves.                                                 *)
ClesTiendront(m) ==
    /\ m.idLot = SansLot => journal' = {} /\ ~promu' /\ m.cles = SansCle
    /\ \A f \in Fichiers : m.cles[f] # 0 =>
         Existera(m, f, m.cles[f]) /\ (fautes' = 0 => Tiendra(m, f, m.cles[f]))
    /\ \A e \in journal' : Existera(m, e.nom, e.cle) /\ (fautes' = 0 => Tiendra(m, e.nom, e.cle))
    /\ \A e \in journal' :
         /\ e.nom \in DOMAIN m.recus /\ e.sha = m.recus[e.nom]
         /\ m.cles[e.nom] \in {0, e.cle}
         /\ \A a \in journal' : a.nom = e.nom => a.cle = e.cle

LEMMA ClesReportees ==
  ASSUME TypeTeleversement, InvVerrou, InvLu, InvDocuments, InvCles, InvTampon,
         NEW p \in Processus, Pas(p), NEW d \in Documents, NEW m,
         m.recus = d.recus, m.idLot = SansLot => d.idLot = SansLot,
         \/ m.cles = d.cles
         \/ SauverCles(p) /\ d = lu[p] /\ pc[p] \in {"copier", "clore"} /\ m.cles = Sauvees(p, d)
  PROVE  ClesTiendront(m)
<1>0. d \in Manifestes /\ DOMAIN d.recus \subseteq Fichiers
  BY DocumentsType, ManifesteType, RecusType
<1>1. fautes' = fautes
  BY QuiTouche
<1>2. \A f : \A n : (Existe(d, f, n) => Existera(m, f, n)) /\ (Tenue(d, f, n) => Tiendra(m, f, n))
  BY <1>0, TenueReste
<1>3. /\ d.idLot = SansLot => journal = {} /\ ~promu /\ d.cles = SansCle
      /\ \A f \in Fichiers : d.cles[f] # 0 =>
           Existe(d, f, d.cles[f]) /\ (fautes = 0 => Tenue(d, f, d.cles[f]))
      /\ \A e \in journal : Existe(d, e.nom, e.cle) /\ (fautes = 0 => Tenue(d, e.nom, e.cle))
      /\ JournalLisible(d)
  BY DEF InvCles, ClesTenues
<1>4. pc[p] \in {"copier", "clore"} => \A e \in tampon[p] :
         /\ Tenue(lu[p], e.nom, e.cle) /\ e.sha = lu[p].recus[e.nom]
         /\ lu[p].cles[e.nom] = 0
         /\ \A a \in tampon[p] \cup journal : a.nom = e.nom => a.cle = e.cle
  BY DEF InvTampon
<1>5. tampon[p] \subseteq Entrees /\ journal \subseteq Entrees
  BY DEF TypeTeleversement, TypeLocales, TypeCopies
<1>6. m.idLot = SansLot => journal' = {} /\ ~promu' /\ m.cles = SansCle
  <2> SUFFICES ASSUME m.idLot = SansLot PROVE journal' = {} /\ ~promu' /\ m.cles = SansCle
    OBVIOUS
  <2>1. m.cles = d.cles
    BY LotDeLaPromotion DEF EnPromotion
  <2> QED BY <1>3, <2>1, JournalPas
<1>7. ASSUME NEW f \in Fichiers
      PROVE  m.cles[f] = d.cles[f] \/ \E e \in tampon[p] : /\ d = lu[p] /\ pc[p] \in {"copier", "clore"}
                                                          /\ e.nom = f /\ m.cles[f] = e.cle
  BY <1>0, <1>7, NouvellesCles
<1>8. ASSUME NEW f \in Fichiers, m.cles[f] # 0
      PROVE Existera(m, f, m.cles[f]) /\ (fautes' = 0 => Tiendra(m, f, m.cles[f]))
  <2>1. CASE m.cles[f] = d.cles[f]
    BY <1>1, <1>2, <1>3, <1>8, <2>1
  <2>2. CASE \E e \in tampon[p] : d = lu[p] /\ pc[p] \in {"copier", "clore"} /\ e.nom = f /\ m.cles[f] = e.cle
    <3>1. Tenue(d, f, m.cles[f])
      BY <1>4, <2>2
    <3> QED BY <1>2, <3>1 DEF Tiendra
  <2> QED BY <1>7, <2>1, <2>2
<1>9. \A e \in journal' : \/ e \in journal
                          \/ /\ e \in tampon[p] /\ d = lu[p] /\ pc[p] \in {"copier", "clore"}
                             /\ Vider(p) /\ journal' = journal \cup tampon[p]
  BY JournalPas
<1>10. ASSUME NEW e \in journal'
       PROVE  /\ Existera(m, e.nom, e.cle) /\ (fautes' = 0 => Tiendra(m, e.nom, e.cle))
              /\ e.nom \in DOMAIN m.recus /\ e.sha = m.recus[e.nom]
  <2>1. CASE e \in journal
    BY <1>1, <1>2, <1>3, <2>1 DEF JournalLisible
  <2>2. CASE e \in tampon[p] /\ d = lu[p] /\ pc[p] \in {"copier", "clore"}
    <3>1. Tenue(d, e.nom, e.cle) /\ e.sha = d.recus[e.nom]
      BY <1>4, <2>2
    <3>2. Tiendra(m, e.nom, e.cle)
      BY <1>2, <3>1
    <3> QED BY <3>1, <3>2 DEF Tiendra, Existera
  <2> QED BY <1>9, <1>10, <2>1, <2>2
<1>11. ASSUME NEW e \in journal', NEW a \in journal', a.nom = e.nom
       PROVE  a.cle = e.cle
  <2>1. CASE e \in journal /\ a \in journal
    BY <1>3, <1>11, <2>1 DEF JournalLisible, AuJournal
  <2>2. CASE e \in tampon[p] /\ pc[p] \in {"copier", "clore"}
    BY <1>4, <1>9, <1>11, <2>2
  <2>3. CASE a \in tampon[p] /\ pc[p] \in {"copier", "clore"}
    BY <1>4, <1>9, <1>11, <2>3
  <2> QED BY <1>9, <1>11, <2>1, <2>2, <2>3
<1>12. ASSUME NEW e \in journal' PROVE m.cles[e.nom] \in {0, e.cle}
  <2>1. CASE e \in journal
    <3>1. d.cles[e.nom] \in {0, e.cle} /\ e.nom \in Fichiers
      BY <1>3, <1>5, <2>1 DEF JournalLisible, Entrees
    <3>2. CASE \E t \in tampon[p] : pc[p] \in {"copier", "clore"} /\ t.nom = e.nom /\ m.cles[e.nom] = t.cle
      BY <1>4, <2>1, <3>2
    <3> QED BY <1>7, <3>1, <3>2
  <2>2. CASE e \in tampon[p] /\ d = lu[p] /\ pc[p] \in {"copier", "clore"} /\ Vider(p)
    <3>1. e.nom \in Fichiers /\ d.cles[e.nom] = 0
      BY <1>4, <1>5, <2>2 DEF Entrees
    <3>2. m.cles[e.nom] = 0 \/ m.cles[e.nom] = e.cle
      BY <1>4, <1>7, <2>2, <3>1
    <3> QED BY <3>2
  <2> QED BY <1>9, <1>12, <2>1, <2>2
<1> QED BY <1>6, <1>8, <1>10, <1>11, <1>12 DEF ClesTiendront

(* A manifest of before the lot says nothing of the copies.                *)
LEMMA ClesVierges ==
  ASSUME TypeTeleversement, InvVerrou, InvLu, InvDocuments, InvCles, InvTampon,
         NEW p \in Processus, Pas(p), NEW d \in Documents, d.idLot = SansLot, NEW m, m.cles = SansCle
  PROVE  ClesTiendront(m)
<1>1. journal = {} /\ ~promu
  BY DEF InvCles, ClesTenues
<1>2. journal' = {} /\ ~promu'
  BY <1>1, JournalPas
<1> QED BY <1>2 DEF ClesTiendront, SansCle

LEMMA ClesDerivees ==
  ASSUME TypeTeleversement, InvVerrou, InvLu, InvDocuments, InvPret, InvCles, InvTampon,
         NEW p \in Processus, Pas(p), NEW d \in Documents, NEW m \in Manifestes, Derive(p, d, m)
  PROVE  ClesTiendront(m)
<1>0. d \in Manifestes /\ ClesTenues(d)
  BY DocumentsType DEF InvCles
<1>1. CASE SauverEnvoi(p) /\ d = lu[p] /\ pc[p] = "promouvoir" /\ m.cles = d.cles
  <2>1. d.idLot = SansLot
    BY <1>1 DEF InvLu
  <2>2. m.cles = SansCle
    BY <1>0, <1>1, <2>1 DEF ClesTenues
  <2> QED BY <2>1, <2>2, ClesVierges
<1>2. CASE /\ SauverCles(p) /\ d = lu[p] /\ pc[p] \in {"copier", "clore"}
           /\ m.idLot = d.idLot /\ m.recus = d.recus
           /\ m.cles = IF tampon[p] = {} THEN d.cles ELSE Avec(Nouvelles(p), d.cles)
  BY <1>2, ClesReportees DEF Sauvees
<1>3. CASE Associer(p) /\ m.idLot # SansLot /\ m.recus = d.recus /\ m.cles = d.cles
  BY <1>3, ClesReportees
<1>4. CASE Reconciliation(p) /\ d = manifeste /\ m = manifeste'
  <2>1. /\ m.idLot = d.idLot /\ m.recus = disque
        /\ m.cles = [f \in Fichiers |-> IF f \in DOMAIN disque THEN d.cles[f] ELSE 0]
    BY <1>4, ReconciliationGarde
  <2>2. CASE d.idLot = SansLot
    <3>1. m.cles = SansCle
      BY <1>0, <2>1, <2>2 DEF ClesTenues, SansCle
    <3> QED BY <2>2, <3>1, ClesVierges
  <2>3. CASE d.idLot # SansLot
    <3>1. d.recus = disque
      BY <1>4, <2>3, ReconciliationLot
    <3>2. \A f \in Fichiers : d.cles[f] # 0 => f \in DOMAIN disque
      BY <1>0, <3>1 DEF ClesTenues, Existe
    <3>3. d.cles \in [Fichiers -> Nat]
      BY <1>0 DEF Manifestes, Cles
    <3>4. m.cles = d.cles
      BY <2>1, <3>2, <3>3
    <3> QED BY <2>1, <3>1, <3>4, ClesReportees
  <2> QED BY <2>2, <2>3
<1> QED BY <1>1, <1>2, <1>3, <1>4 DEF Derive

LEMMA PasInvCles ==
  ASSUME TypeTeleversement, InvVerrou, InvCree, InvLu, InvDocuments, InvPret, InvCles, InvTampon, [Next]_vars
  PROVE  InvCles'
<1> DEFINE Rien == ~registre'.cree => journal' = {} /\ ~promu'
<1>1. ASSUME NEW p \in Processus, Pas(p) PROVE Rien
  <2> SUFFICES ASSUME ~registre'.cree PROVE journal' = {} /\ ~promu'
    OBVIOUS
  <2>1. ~registre.cree
    BY <1>1, CreeReste
  <2>2. ~Vider(p) /\ ~EffacerJournal(p)
    BY <2>1 DEF InvCree, SousVerrou, Vider, EffacerJournal
  <2> QED BY <1>1, <2>1, <2>2, QuiNote DEF InvCles, Promouvoir
<1>2. ASSUME NEW p \in Processus, Pas(p), NEW m \in Documents' PROVE ClesTiendront(m)
  <2>0. m \in Manifestes
    BY <1>2, DocumentPas
  <2>1. CASE m \in Documents
    BY <1>2, <2>1, ClesReportees
  <2>2. CASE CreerDossier(p) /\ m = ManifesteVierge
    <3>1. journal = {} /\ ~promu
      BY <2>2 DEF CreerDossier, InvCles
    <3>2. journal' = {} /\ ~promu' /\ m.cles = SansCle
      BY <2>2, <3>1 DEF CreerDossier, copies, ManifesteVierge
    <3> QED BY <3>2 DEF ClesTiendront, SansCle
  <2>3. CASE \E d \in Documents : Derive(p, d, m)
    BY <1>2, <2>0, <2>3, ClesDerivees
  <2> QED BY <1>2, <2>1, <2>2, <2>3, DocumentPas
<1>3. CASE Alterer
  <2>1. fautes' # 0 /\ UNCHANGED <<registre, manifeste, pc, lu, journal, objets, promu>>
    BY <1>3 DEF Alterer, copies, locales, TypeTeleversement, TypeTemoins
  <2> QED BY <2>1 DEF InvCles, ClesTenues, Documents, JournalLisible, AuJournal, Existe
<1>4. CASE AltererCopie
  <2>1. fautes' # 0 /\ UNCHANGED <<registre, manifeste, pc, lu, journal>> /\ ~promu'
    BY <1>4 DEF AltererCopie, session, locales, TypeTeleversement, TypeTemoins
  <2>2. PICK g \in Fichiers : \E n \in DOMAIN objets[g] : objets' = [objets EXCEPT ![g][n] = Tronque]
    BY <1>4 DEF AltererCopie
  <2>3. PICK n \in DOMAIN objets[g] : objets' = [objets EXCEPT ![g][n] = Tronque]
    BY <2>2
  <2>4. \A f \in Fichiers : DOMAIN objets'[f] = DOMAIN objets[f]
    BY <2>3 DEF TypeTeleversement, TypeCopies
  <2>5. Documents' = Documents
    BY <2>1 DEF Documents
  <2>6. ASSUME NEW m \in Documents PROVE DOMAIN m.recus \subseteq Fichiers /\ ClesTenues(m)
    BY <2>6, DocumentsType, ManifesteType, RecusType DEF InvCles
  <2>7. ASSUME NEW m \in Documents PROVE ClesTiendront(m)
    BY <2>1, <2>4, <2>6, <2>7 DEF ClesTenues, ClesTiendront, JournalLisible, AuJournal, Existe, Existera
  <2>8. ~registre'.cree => journal' = {} /\ ~promu'
    BY <2>1 DEF InvCles
  <2> QED BY <2>5, <2>7, <2>8 DEF InvCles, ClesTenues, ClesTiendront, JournalLisible, AuJournal, Existe, Existera, Tenue, Tiendra
<1>5. CASE UNCHANGED vars
  BY <1>5 DEF vars, session, copies, locales, InvCles, ClesTenues, Documents, JournalLisible, AuJournal, Existe, Tenue
<1>6. ASSUME NEW p \in Processus, Pas(p) PROVE InvCles'
  <2>1. \A m \in Documents' : ClesTiendront(m)
    BY <1>2, <1>6
  <2> QED BY <1>1, <1>6, <2>1
          DEF InvCles, ClesTenues, ClesTiendront, JournalLisible, AuJournal, Existe, Existera, Tenue, Tiendra
<1> QED BY <1>3, <1>4, <1>5, <1>6 DEF Next, Pas

-----------------------------------------------------------------------------
(* A promotion under way. One file: its copy is proven, and noted once.    *)
Noterait(p, f, n) ==
  /\ f \in reste[p] /\ reste' = [reste EXCEPT ![p] = @ \ {f}] /\ pc' = pc
  /\ Tiendra(lu[p], f, n)
  /\ \/ /\ lu[p].cles[f] # 0 /\ n = lu[p].cles[f]
        /\ tampon' = tampon
     \/ /\ lu[p].cles[f] = 0
        /\ \A a \in journal : a.nom = f => a.cle = n
        /\ tampon' = [tampon EXCEPT ![p] = @ \cup {[nom |-> f, cle |-> n, sha |-> lu[p].recus[f]]}]

LEMMA UnFichier ==
  ASSUME TypeTeleversement, InvCles, InvTampon, NEW p \in Processus,
         VerifierCopie(p) \/ Copier(p)
  PROVE  /\ pc[p] = "copier" /\ UNCHANGED <<journal, promu, lu>>
         /\ \/ pc'[p] = "clore" /\ tampon' = tampon /\ reste' = reste
            \/ \E f \in Fichiers : \E n : Noterait(p, f, n)
<1>1. pc[p] = "copier" /\ UNCHANGED <<journal, promu, lu, disque>>
  BY DEF VerifierCopie, Copier, session, copies
<1>2. /\ lu[p] \in Manifestes /\ ClesTenues(lu[p])
      /\ reste[p] \subseteq DOMAIN lu[p].recus /\ DOMAIN lu[p].recus \subseteq Fichiers
  BY <1>1, CopieDe, ManifesteType, RecusType DEF InvCles, InvTampon, AvecCopie
<1>3. Echouer(p) => pc'[p] = "clore" /\ tampon' = tampon /\ reste' = reste
  BY DEF Echouer, TypeTeleversement, TypeLocales
<1>4. CASE VerifierCopie(p)
  <2>1. PICK f \in reste[p] :
          /\ CleConnue(p, f) /\ objets' = objets
          /\ IF Prouvee(p, f, Cle(p, f)) THEN Noter(p, f, Cle(p, f)) ELSE Echouer(p)
    BY <1>4 DEF VerifierCopie
  <2>2. f \in DOMAIN lu[p].recus /\ f \in Fichiers
    BY <1>2, <2>1
  <2>3. CASE Noter(p, f, Cle(p, f)) /\ Prouvee(p, f, Cle(p, f))
    <3>1. objets'[f][Cle(p, f)] = lu[p].recus[f]
      BY <2>3 DEF Prouvee, SourceFidele
    <3>2. CASE lu[p].cles[f] # 0
      <4>1. Cle(p, f) = lu[p].cles[f]
        BY <3>2 DEF Cle
      <4>2. Cle(p, f) \in DOMAIN objets[f]
        BY <1>2, <2>2, <3>2, <4>1 DEF ClesTenues, Existe
      <4>3. tampon' = tampon
        <5>1. tampon' = [tampon EXCEPT ![p] = tampon[p]]
          BY <2>3, <3>2 DEF Noter
        <5> QED BY <5>1 DEF TypeTeleversement, TypeLocales
      <4>4. reste' = [reste EXCEPT ![p] = @ \ {f}] /\ pc' = pc
        BY <2>3 DEF Noter
      <4>5. Noterait(p, f, Cle(p, f))
        BY <2>1, <2>2, <3>1, <3>2, <4>1, <4>2, <4>3, <4>4 DEF Noterait, Tiendra, Existera
      <4> QED BY <1>1, <2>2, <4>5
    <3>3. CASE lu[p].cles[f] = 0
      <4>1. AuJournal(f) # {}
        BY <2>1, <3>3 DEF CleConnue
      <4>2. PICK e : e = CHOOSE x \in AuJournal(f) : TRUE
        OBVIOUS
      <4>3. e \in journal /\ e.nom = f /\ Cle(p, f) = e.cle
        BY <3>3, <4>1, <4>2 DEF AuJournal, Cle
      <4>4. e.cle \in DOMAIN objets[f]
        BY <1>2, <4>3 DEF ClesTenues, Existe
      <4>5. \A a \in journal : a.nom = f => a.cle = e.cle
        BY <1>2, <4>3 DEF ClesTenues, JournalLisible, AuJournal
      <4>6. /\ tampon' = [tampon EXCEPT ![p] = @ \cup {[nom |-> f, cle |-> e.cle, sha |-> lu[p].recus[f]]}]
            /\ reste' = [reste EXCEPT ![p] = @ \ {f}] /\ pc' = pc
        BY <2>3, <3>3, <4>3 DEF Noter
      <4>7. Noterait(p, f, e.cle)
        BY <2>1, <2>2, <3>1, <3>3, <4>3, <4>4, <4>5, <4>6 DEF Noterait, Tiendra, Existera
      <4> QED BY <1>1, <2>2, <4>7
    <3>4. lu[p].cles[f] \in Nat
      BY <1>2, <2>2 DEF Manifestes, Cles
    <3> QED BY <3>2, <3>3
  <2> QED BY <1>1, <1>3, <2>1, <2>3
<1>5. CASE Copier(p)
  <2>1. PICK f \in reste[p], repond \in BOOLEAN :
          /\ ~CleConnue(p, f)
          /\ \E c \in {disque[f], Tronque} : objets' = [objets EXCEPT ![f] = Append(@, c)]
          /\ IF repond /\ Prouvee(p, f, Len(objets[f]) + 1) THEN Noter(p, f, Len(objets[f]) + 1) ELSE Echouer(p)
    BY <1>5 DEF Copier
  <2>2. f \in DOMAIN lu[p].recus /\ f \in Fichiers
    BY <1>2, <2>1
  <2>3. CASE Noter(p, f, Len(objets[f]) + 1) /\ Prouvee(p, f, Len(objets[f]) + 1)
    <3>1. PICK n : n = Len(objets[f]) + 1
      OBVIOUS
    <3>2. objets'[f][n] = lu[p].recus[f]
      BY <2>3, <3>1 DEF Prouvee, SourceFidele
    <3>3. n \in DOMAIN objets'[f]
      <4>1. PICK c : objets' = [objets EXCEPT ![f] = Append(objets[f], c)]
        BY <2>1
      <4>2. objets \in [Fichiers -> Seq(SurDisque \cup {Tronque})]
        BY DEF TypeTeleversement, TypeCopies
      <4>3. objets'[f] = Append(objets[f], c)
        BY <2>2, <4>1, <4>2
      <4>4. PICK s \in Seq(SurDisque \cup {Tronque}) : s = objets[f]
        BY <2>2, <4>2
      <4>5. Len(s) + 1 \in DOMAIN Append(s, c)
        OBVIOUS
      <4> QED BY <3>1, <4>3, <4>4, <4>5
    <3>4. lu[p].cles[f] = 0 /\ \A a \in journal : a.nom # f
      BY <2>1 DEF CleConnue, AuJournal
    <3>5. /\ tampon' = [tampon EXCEPT ![p] = @ \cup {[nom |-> f, cle |-> n, sha |-> lu[p].recus[f]]}]
          /\ reste' = [reste EXCEPT ![p] = @ \ {f}] /\ pc' = pc
      BY <2>3, <3>1, <3>4 DEF Noter
    <3>6. Noterait(p, f, n)
      BY <2>1, <2>2, <3>2, <3>3, <3>4, <3>5 DEF Noterait, Tiendra, Existera
    <3> QED BY <1>1, <2>2, <3>6
  <2> QED BY <1>1, <1>3, <2>1, <2>3
<1> QED BY <1>4, <1>5

(* What each step leaves to a promotion under way.                         *)
Prouve(p) ==
  /\ ~promu'
  /\ \A e \in tampon'[p] :
       /\ Tiendra(lu'[p], e.nom, e.cle) /\ e.sha = lu'[p].recus[e.nom]
       /\ lu'[p].cles[e.nom] = 0 /\ e.nom \notin reste'[p]
       /\ \A a \in tampon'[p] \cup journal' : a.nom = e.nom => a.cle = e.cle
Copie(p) ==
  /\ reste'[p] \subseteq DOMAIN lu'[p].recus
  /\ \A f \in DOMAIN lu'[p].recus \ reste'[p] :
       \/ lu'[p].cles[f] # 0 /\ Tiendra(lu'[p], f, lu'[p].cles[f])
       \/ \E e \in tampon'[p] : e.nom = f

LEMMA PromotionPas ==
  ASSUME TypeTeleversement, InvCles, InvTampon,
         NEW p \in Processus, Pas(p), pc'[p] \in {"copier", "clore"}
  PROVE  Prouve(p) /\ (pc'[p] = "copier" => Copie(p))
<1>1. CASE Promouvoir(p)
  <2>1. /\ tampon'[p] = {} /\ promu' = FALSE
        /\ reste'[p] = DOMAIN lu'[p].recus
    BY <1>1 DEF Promouvoir, Entrer, InvTampon, TypeTeleversement, TypeLocales
  <2> QED BY <2>1 DEF Prouve, Copie
<1>2. CASE ~Promouvoir(p)
  <2>0. \/ VerifierCopie(p) \/ Copier(p)
        \/ /\ Interrompre(p) \/ Vider(p)
           /\ pc[p] \in {"copier", "clore"} /\ (pc'[p] = "copier" => pc[p] = "copier")
           /\ tampon'[p] = tampon[p] /\ reste'[p] = reste[p]
    BY <1>2, TamponPas DEF InvTampon, EnPromotion
  <2>1. pc[p] \in {"copier", "clore"} /\ promu' = promu /\ lu' = lu
    BY <2>0 DEF VerifierCopie, Copier, Interrompre, Vider, session, copies, locales
  <2>2. lu[p] \in Manifestes /\ DOMAIN lu[p].recus \subseteq Fichiers
    BY <2>1, CopieDe, ManifesteType, RecusType DEF AvecCopie
  <2>3. \A f : \A n : Tenue(lu[p], f, n) => Tiendra(lu[p], f, n)
    BY <2>2, TenueReste
  <2>4. /\ ~promu
        /\ \A e \in tampon[p] :
              /\ Tenue(lu[p], e.nom, e.cle) /\ e.sha = lu[p].recus[e.nom]
              /\ lu[p].cles[e.nom] = 0 /\ e.nom \notin reste[p]
              /\ \A a \in tampon[p] \cup journal : a.nom = e.nom => a.cle = e.cle
    BY <2>1 DEF InvTampon
  <2>5. pc[p] = "copier" =>
          /\ reste[p] \subseteq DOMAIN lu[p].recus
          /\ \A f \in DOMAIN lu[p].recus \ reste[p] :
               \/ lu[p].cles[f] # 0 /\ Tenue(lu[p], f, lu[p].cles[f])
               \/ \E e \in tampon[p] : e.nom = f
    BY DEF InvTampon
  <2>6. CASE tampon'[p] = tampon[p] /\ reste'[p] = reste[p] /\ (pc'[p] = "copier" => pc[p] = "copier")
    <3>1. \A a \in tampon'[p] \cup journal' : a \in tampon[p] \cup journal
      <4>1. CASE Vider(p)
        BY <2>6, <4>1 DEF Vider
      <4>2. CASE ~Vider(p)
        <5>1. journal' = journal
          BY <2>0, <4>2 DEF VerifierCopie, Copier, Interrompre, copies
        <5> QED BY <2>6, <5>1
      <4> QED BY <4>1, <4>2
    <3>2. Prouve(p)
      BY <2>1, <2>3, <2>4, <2>6, <3>1 DEF Prouve
    <3>3. pc'[p] = "copier" => Copie(p)
      BY <2>1, <2>3, <2>5, <2>6 DEF Copie
    <3> QED BY <3>2, <3>3
  <2>7. CASE VerifierCopie(p) \/ Copier(p)
    <3>1. /\ pc[p] = "copier" /\ UNCHANGED <<journal, promu, lu>>
          /\ \/ pc'[p] = "clore" /\ tampon' = tampon /\ reste' = reste
             \/ \E f \in Fichiers : \E n : Noterait(p, f, n)
      BY <2>7, UnFichier
    <3>2. CASE pc'[p] = "clore" /\ tampon' = tampon /\ reste' = reste
      BY <2>6, <3>2
    <3>3. CASE \E f \in Fichiers : \E n : Noterait(p, f, n)
      <4>1. PICK f \in Fichiers : \E n : Noterait(p, f, n)
        BY <3>3
      <4>2. PICK n : Noterait(p, f, n)
        BY <4>1
      <4>3. /\ reste'[p] = reste[p] \ {f} /\ f \in reste[p] /\ pc'[p] = "copier"
            /\ f \in DOMAIN lu[p].recus /\ Tiendra(lu[p], f, n)
        BY <3>1, <4>2 DEF Noterait, Tiendra, Existera, TypeTeleversement, TypeLocales
      <4>4. \A g \in DOMAIN lu'[p].recus \ reste'[p] : g = f \/ g \in DOMAIN lu[p].recus \ reste[p]
        BY <2>1, <4>3
      <4>5. CASE lu[p].cles[f] # 0 /\ n = lu[p].cles[f] /\ tampon' = tampon
        <5>1. Prouve(p)
          BY <2>1, <2>3, <2>4, <3>1, <4>3, <4>5 DEF Prouve
        <5>2. Copie(p)
          BY <2>1, <2>3, <2>5, <3>1, <4>3, <4>4, <4>5 DEF Copie
        <5> QED BY <5>1, <5>2
      <4>6. CASE /\ lu[p].cles[f] = 0 /\ \A a \in journal : a.nom = f => a.cle = n
                 /\ tampon' = [tampon EXCEPT ![p] = @ \cup {[nom |-> f, cle |-> n, sha |-> lu[p].recus[f]]}]
        <5>1. PICK t : t = [nom |-> f, cle |-> n, sha |-> lu[p].recus[f]]
          OBVIOUS
        <5>2. tampon'[p] = tampon[p] \cup {t} /\ t.nom = f /\ t.cle = n /\ t.sha = lu[p].recus[f]
          BY <4>6, <5>1 DEF TypeTeleversement, TypeLocales
        <5>3. \A e \in tampon[p] : e.nom # f
          BY <2>4, <4>3
        <5>4. ASSUME NEW e \in tampon'[p]
              PROVE /\ Tiendra(lu'[p], e.nom, e.cle) /\ e.sha = lu'[p].recus[e.nom]
                    /\ lu'[p].cles[e.nom] = 0 /\ e.nom \notin reste'[p]
                    /\ \A a \in tampon'[p] \cup journal' : a.nom = e.nom => a.cle = e.cle
          <6>1. CASE e = t
            BY <2>1, <3>1, <4>3, <4>6, <5>2, <5>3, <6>1
          <6>2. CASE e \in tampon[p]
            <7>1. Tiendra(lu[p], e.nom, e.cle)
              BY <2>3, <2>4, <6>2
            <7> QED BY <2>1, <2>4, <3>1, <4>3, <5>2, <5>3, <6>2, <7>1
          <6> QED BY <5>2, <5>4, <6>1, <6>2
        <5>5. Prouve(p)
          BY <2>1, <2>4, <5>4 DEF Prouve
        <5>6. Copie(p)
          BY <2>1, <2>3, <2>5, <3>1, <4>3, <4>4, <5>2 DEF Copie
        <5> QED BY <5>5, <5>6
      <4> QED BY <4>2, <4>5, <4>6 DEF Noterait
    <3> QED BY <3>1, <3>2, <3>3
  <2> QED BY <2>0, <2>6, <2>7
<1> QED BY <1>1, <1>2

(* The end of a promotion: each file has its key in the manifest.          *)
Fini == /\ ~promu'
        /\ manifeste' # Absent =>
             \A f \in DOMAIN manifeste'.recus : Tiendra(manifeste', f, manifeste'.cles[f])

LEMMA FinDesCopies ==
  ASSUME TypeTeleversement, InvDocuments, InvTampon, NEW p \in Processus, Pas(p), pc'[p] = "effacer"
  PROVE  Fini
<1>1. SauverCles(p) /\ pc[p] = "copier"
  BY TamponPas DEF InvTampon, EnPromotion
<1>2. /\ lu[p] \in Manifestes /\ DOMAIN lu[p].recus \subseteq Fichiers /\ reste[p] = {}
      /\ promu' = promu /\ objets' = objets
  BY <1>1, ClesEcrites, ManifesteType, RecusType DEF SauverCles, copies
<1>3. /\ ~promu
      /\ \A e \in tampon[p] : Tenue(lu[p], e.nom, e.cle)
      /\ \A f \in DOMAIN lu[p].recus :
           (lu[p].cles[f] # 0 /\ Tenue(lu[p], f, lu[p].cles[f])) \/ \E e \in tampon[p] : e.nom = f
  BY <1>1, <1>2 DEF InvTampon
<1>4. ASSUME manifeste' # Absent, NEW f \in DOMAIN manifeste'.recus
      PROVE  Tiendra(manifeste', f, manifeste'.cles[f])
  <2>1. manifeste'.recus = lu[p].recus /\ manifeste'.cles = Sauvees(p, lu[p])
    BY <1>1, <1>4, ClesEcrites DEF Sauvees
  <2>2. Tenue(lu[p], f, manifeste'.cles[f])
    <3>1. CASE manifeste'.cles[f] = lu[p].cles[f] /\ \A e \in tampon[p] : e.nom # f
      BY <1>3, <1>4, <2>1, <3>1
    <3>2. CASE \E e \in tampon[p] : e.nom = f /\ manifeste'.cles[f] = e.cle
      BY <1>3, <3>2
    <3> QED BY <1>2, <1>4, <2>1, <3>1, <3>2, NouvellesCles
  <2> QED BY <1>2, <2>1, <2>2 DEF Tenue, Existe, Tiendra, Existera
<1> QED BY <1>2, <1>3, <1>4 DEF Fini

(* Nobody else disturbs a promotion.                                       *)
LEMMA PromotionDesAutres ==
  ASSUME TypeTeleversement, InvVerrou, InvCree, InvTampon,
         NEW p \in Processus, Pas(p), NEW q \in Processus \ {p}, pc'[q] \in EnPromotion
  PROVE  /\ pc'[q] = pc[q] /\ lu'[q] = lu[q] /\ reste'[q] = reste[q] /\ tampon'[q] = tampon[q]
         /\ manifeste' \in {Absent, manifeste} /\ UNCHANGED <<journal, promu>>
<1>1. pc'[q] = pc[q] /\ lu'[q] = lu[q] /\ reste'[q] = reste[q] /\ tampon'[q] = tampon[q]
  BY EffetPas, TamponPas DEF Effet, InvTampon, EnPromotion
<1>2. Tient(q) /\ ~Tient(p) /\ verrou.tenant # Personne /\ pc[q] \in SousVerrou
  BY <1>1, UnSeulTient, HypContenus DEF Tient, SousVerrou, EnPromotion, InvVerrou
<1>3. ~Vider(p) /\ ~EffacerJournal(p) /\ ~Promouvoir(p)
  BY <1>2 DEF Vider, EffacerJournal, Promouvoir, Entrer, Libre, Tient, SousVerrou
<1> QED BY <1>1, <1>2, <1>3, QuiNote, ManifesteAilleurs

LEMMA PasInvTampon ==
  ASSUME TypeTeleversement, InvVerrou, InvCree, InvDocuments, InvCles, InvTampon, [Next]_vars
  PROVE  InvTampon'
<1> DEFINE Suite(q) == /\ pc'[q] \notin EnPromotion => tampon'[q] = {}
                       /\ pc'[q] \in {"copier", "clore"} => Prouve(q)
                       /\ pc'[q] = "copier" => Copie(q)
                       /\ pc'[q] = "effacer" => Fini
<1>1. ASSUME NEW p \in Processus, Pas(p), NEW q \in Processus PROVE Suite(q)
  <2>1. CASE q = p
    <3>1. pc'[p] \notin EnPromotion => tampon'[p] = {}
      BY <1>1, TamponPas DEF InvTampon, EnPromotion
    <3> QED BY <1>1, <2>1, <3>1, PromotionPas, FinDesCopies
  <2>2. CASE q # p
    <3>1. pc'[q] \notin EnPromotion => tampon'[q] = {}
      BY <1>1, <2>2, TamponPas, EffetPas DEF InvTampon, EnPromotion, Effet
    <3>2. ASSUME pc'[q] \in EnPromotion
          PROVE  /\ pc'[q] \in {"copier", "clore"} => Prouve(q)
                 /\ pc'[q] = "copier" => Copie(q)
                 /\ pc'[q] = "effacer" => Fini
      <4>1. /\ pc'[q] = pc[q] /\ lu'[q] = lu[q] /\ reste'[q] = reste[q] /\ tampon'[q] = tampon[q]
            /\ manifeste' \in {Absent, manifeste} /\ UNCHANGED <<journal, promu>>
        BY <1>1, <2>2, <3>2, PromotionDesAutres
      <4>2. \A m \in Manifestes : \A f : \A n : Tenue(m, f, n) => Tiendra(m, f, n)
        BY <1>1, TenueReste
      <4>3. ASSUME pc[q] \in {"copier", "clore"} PROVE Prouve(q) /\ (pc[q] = "copier" => Copie(q))
        <5>1. lu[q] \in Manifestes
          BY <4>3, CopieDe DEF AvecCopie
        <5>2. Prouve(q)
          BY <4>1, <4>2, <4>3, <5>1 DEF InvTampon, Prouve
        <5>3. pc[q] = "copier" => Copie(q)
          BY <4>1, <4>2, <4>3, <5>1 DEF InvTampon, Copie
        <5> QED BY <5>2, <5>3
      <4>4. ASSUME pc[q] = "effacer" PROVE Fini
        BY <4>1, <4>2, <4>4 DEF InvTampon, Fini, TypeTeleversement, TypeSession
      <4> QED BY <4>1, <4>3, <4>4
    <3> QED BY <3>1, <3>2 DEF EnPromotion
  <2> QED BY <2>1, <2>2
<1>2. (\A q \in Processus : Suite(q)) => InvTampon'
  BY DEF InvTampon, EnPromotion, Prouve, Copie, Fini, Tenue, Existe, Tiendra, Existera
<1>3. CASE Alterer
  BY <1>3 DEF Alterer, copies, locales, InvTampon, Tenue, Existe
<1>4. CASE AltererCopie
  BY <1>4 DEF AltererCopie, locales, InvTampon
<1>5. CASE UNCHANGED vars
  BY <1>5 DEF vars, session, copies, locales, InvTampon, Tenue, Existe
<1> QED BY <1>1, <1>2, <1>3, <1>4, <1>5 DEF Next, Pas

(* What a promotion said done is.                                          *)
LEMMA PromuReste ==
  ASSUME TypeTeleversement, InvLu, InvPret, InvCles, InvTampon, InvPromu, NEW p \in Processus, Pas(p),
         promu, promu', manifeste' # Absent
  PROVE  /\ manifeste \in Manifestes /\ manifeste # Absent
         /\ manifeste'.idLot # SansLot
         /\ manifeste'.recus = manifeste.recus /\ manifeste'.cles = manifeste.cles
<1>0. manifeste # Absent => manifeste \in Manifestes /\ manifeste \in Documents /\ manifeste.idLot # SansLot
  BY DocumentsType DEF InvPromu
<1>1. CASE manifeste' = manifeste
  BY <1>0, <1>1
<1>2. ~CreerDossier(p) /\ ~SupprimerManifeste(p)
  BY DEF CreerDossier, SupprimerManifeste, InvCles
<1>3. ~SauverCles(p)
  BY DEF SauverCles, InvTampon
<1>4. CASE Associer(p) /\ manifeste' # manifeste
  BY <1>4, LotAssocie, ManifesteType DEF SansLot
<1>5. CASE Reconciliation(p)
  <2>1. /\ manifeste # Absent /\ manifeste'.idLot = manifeste.idLot /\ manifeste'.recus = disque
        /\ manifeste'.cles = [f \in Fichiers |-> IF f \in DOMAIN disque THEN manifeste.cles[f] ELSE 0]
    BY <1>5, ReconciliationGarde DEF Reconciliation
  <2>2. manifeste.recus = disque
    BY <1>0, <1>5, <2>1, ReconciliationLot
  <2>3. \A f \in Fichiers : manifeste.cles[f] # 0 => f \in DOMAIN disque
    BY <1>0, <2>1, <2>2 DEF InvCles, ClesTenues, Existe
  <2>4. manifeste.cles \in [Fichiers -> Nat]
    BY <1>0, <2>1 DEF Manifestes, Cles
  <2>5. manifeste'.cles = manifeste.cles
    BY <2>1, <2>3, <2>4
  <2> QED BY <1>0, <2>1, <2>2, <2>5
<1>6. ~SauverEnvoi(p)
  <2> SUFFICES ASSUME SauverEnvoi(p) PROVE FALSE
    OBVIOUS
  <2>1. lu[p] \in Documents /\ pc[p] = "promouvoir"
    BY CopieDe DEF SauverEnvoi, AvecCopie
  <2> QED BY <2>1 DEF InvLu, InvCles, ClesTenues
<1> QED BY <1>1, <1>2, <1>3, <1>4, <1>5, <1>6, QuiEcrit

LEMMA PasInvPromu ==
  ASSUME TypeTeleversement, InvLu, InvDocuments, InvPret, InvCles, InvTampon, InvPromu, [Next]_vars
  PROVE  InvPromu'
<1> SUFFICES ASSUME promu', manifeste' # Absent PROVE InvPromu'
  BY DEF InvPromu
<1>1. ASSUME NEW p \in Processus, Pas(p) PROVE InvPromu'
  <2>1. CASE EffacerJournal(p)
    <3>1. pc[p] = "effacer" /\ manifeste' = manifeste /\ objets' = objets
      BY <2>1 DEF EffacerJournal
    <3> QED BY <3>1 DEF InvTampon, InvDocuments, InvPromu, Tenue, Existe
  <2>2. CASE ~EffacerJournal(p)
    <3>1. promu
      BY <1>1, <2>2, QuiNote DEF Promouvoir
    <3>2. /\ manifeste \in Manifestes /\ manifeste # Absent /\ manifeste'.idLot # SansLot
          /\ manifeste'.recus = manifeste.recus /\ manifeste'.cles = manifeste.cles
      BY <1>1, <3>1, PromuReste
    <3>3. \A f : \A n : Tenue(manifeste, f, n) => Tiendra(manifeste, f, n)
      BY <1>1, <3>2, TenueReste
    <3>4. ASSUME NEW f \in DOMAIN manifeste'.recus PROVE Tiendra(manifeste', f, manifeste'.cles[f])
      <4>1. Tiendra(manifeste, f, manifeste.cles[f])
        BY <3>1, <3>2, <3>3, <3>4 DEF InvPromu
      <4> QED BY <3>2, <4>1 DEF Tiendra, Existera
    <3> QED BY <3>2, <3>4 DEF InvPromu, Tenue, Existe, Tiendra, Existera
  <2> QED BY <2>1, <2>2
<1>2. CASE Alterer
  BY <1>2 DEF Alterer, copies, InvPromu, Tenue, Existe
<1>3. CASE AltererCopie
  BY <1>3 DEF AltererCopie
<1>4. CASE UNCHANGED vars
  BY <1>4 DEF vars, session, copies, InvPromu, Tenue, Existe
<1> QED BY <1>1, <1>2, <1>3, <1>4 DEF Next, Pas

-----------------------------------------------------------------------------
LEMMA PromotionInvariante == Spec => [](InvCles /\ InvTampon /\ InvPromu)
<1> DEFINE Inv == InvCles /\ InvTampon /\ InvPromu
<1>1. InitTeleversement => Inv
  BY DEF InitTeleversement, InvCles, InvTampon, InvPromu, Documents, AvecCopie
<1>2. TypeTeleversement /\ InvSession /\ InvDocuments /\ InvPret /\ Inv /\ [Next]_vars => Inv'
  BY PasInvCles, PasInvTampon, PasInvPromu DEF InvSession
<1> QED BY <1>1, <1>2, TypeCorrectTeleversement, SessionInvariante, DocumentsInvariants, PTL DEF Spec

LEMMA PromesseInvariante == Spec => []InvPromesse
BY DocumentsInvariants, TenueInvariante, PromotionInvariante, PTL DEF InvPromesse

(* A promotion keeps its promises through crashes, replays, damage and     *)
(* removals, in whatever order these meet the entries: a key kept is that  *)
(* of a faithful copy, the journal can be read again, an answer "promoted" *)
(* covers every file (promouvoir_session_televersement_objets,             *)
(* _reprendre_journal_promotion).                                          *)
THEOREM PromotionTenueProuvee == Spec => []PromotionTenue
<1>1. ASSUME TypeTeleversement, InvPret, InvCles, InvPromu PROVE PromotionTenue
  <2>0. manifeste # Absent => manifeste \in Documents /\ ClesTenues(manifeste)
    BY <1>1, DocumentsType DEF InvCles
  <2>1. ClesProuvees
    BY <2>0 DEF ClesProuvees, CopieFidele, ClesTenues, Tenue, Existe
  <2>2. JournalReprenable
    BY <2>0 DEF JournalReprenable, ClesTenues
  <2>3. PromotionEntiere
    BY <1>1, <2>0 DEF PromotionEntiere, CopieFidele, InvPromu, InvPret, Tenue, Existe, TypeTeleversement, Coherence
  <2> QED BY <2>1, <2>2, <2>3 DEF PromotionTenue
<1> QED BY <1>1, PromotionInvariante, DocumentsInvariants, TypeCorrectTeleversement, PTL
=============================================================================
