---------------------------- MODULE Lots_preuves ----------------------------
(***************************************************************************)
(* Proofs about lots, for any number of lots, folders, workers and faults. *)
(***************************************************************************)
EXTENDS Lots, FiniteSetTheorems, TLAPS

LEMMA InitType == Init => TypeLots
BY HypAucunLot DEF Init, TypeLots, TypeJobs, TypeLignes, TypeTaches, Fins, Pcs, PcLot, PcDossier

LEMMA NombreEchecs == ASSUME NEW l \in Lots PROVE Cardinality(EnEchec(l)) \in Nat
BY HypDossiers, FS_Subset, FS_CardinalityType DEF EnEchec, DossiersDe

(* The state after a step on the web, of the sweep or of the clock.        *)
LEMMA TypeLot ==
  ASSUME TypeLots, NEW l \in Lots,
         creer_lot(l) \/ route_creer_lot(l) \/ route_annuler_lot(l) \/ cancel_job(l)
         \/ Balayage(l) \/ ExpirerMort(l) \/ ExpirerVivant(l)
  PROVE  TypeLots'
<1> USE DEF TypeLots, TypeJobs, TypeLignes, TypeTaches, file, job, suivi, lignes, tache, alea, STATUTS_ACTIFS, Fins
<1>1. CASE creer_lot(l)
  BY <1>1, HypAucunLot, HypBornesLots DEF creer_lot
<1>2. CASE route_creer_lot(l)
  BY <1>2, HypAucunLot, HypBornesLots DEF route_creer_lot
<1>3. CASE route_annuler_lot(l)
  BY <1>3, HypAucunLot, HypBornesLots DEF route_annuler_lot
<1>4. CASE cancel_job(l)
  BY <1>4, HypAucunLot, HypBornesLots DEF cancel_job, Actif
<1>5. CASE reprendre_tache_orpheline(l)
  BY <1>5, HypAucunLot, HypBornesLots DEF reprendre_tache_orpheline, Actif
<1>6. CASE reprendre_job_sans_livraison(l)
  BY <1>6, HypAucunLot, HypBornesLots DEF reprendre_job_sans_livraison, Actif
<1>7. CASE ExpirerMort(l)
  BY <1>7, HypAucunLot, HypBornesLots DEF ExpirerMort, LacherClaim
<1>8. CASE ExpirerVivant(l)
  BY <1>8, HypAucunLot, HypBornesLots DEF ExpirerVivant, LacherClaim
<1> QED BY <1>1, <1>2, <1>3, <1>4, <1>5, <1>6, <1>7, <1>8 DEF Balayage

(* What settling a folder leaves of the rows.                              *)
LEMMA RegleType ==
  ASSUME TypeLots, NEW w \in Workers, pc[w] \in PcDossier,
         NEW s \in {"traite", "echec"}, NEW avec \in BOOLEAN, Regler(w, s, avec)
  PROVE  /\ statutDossier' \in [Dossiers -> {"en_attente", "traite", "echec"}]
         /\ porteCle' \in [Dossiers -> BOOLEAN]
         /\ apresAnnulation' \in [Lots -> Nat]
         /\ pc' = [pc EXCEPT ![w] = "compte"]
<1>1. lot[w] \in Lots
  BY HypDossiers DEF TypeLots, TypeTaches
<1>2. apresAnnulation' \in [Lots -> Nat]
  BY <1>1 DEF TypeLots, TypeLignes, Regler
<1> QED BY <1>2 DEF TypeLots, TypeLignes, Regler, Aller

LEMMA TypeWorker ==
  ASSUME TypeLots, NEW w \in Workers,
         process_lot_task(w) \/ Tuer(w) \/ PanneLot(w) \/ DrapeauIllisible(w) \/ ErreurApresDepot(w)
  PROVE  TypeLots'
<1> USE DEF TypeLots, TypeJobs, TypeLignes, TypeTaches, file, job, suivi, lignes, tache, alea, STATUTS_ACTIFS, Fins, Pcs, PcLot, PcDossier
<1>0. pc[w] # "boucle" => lot[w] \in Lots
  BY HypAucunLot
<1>1. CASE marquer_job_claim(w)
  <2>1. CASE Actif(lot[w])
    BY <1>0, <1>1, <2>1, HypAucunLot DEF marquer_job_claim, Aller, Actif
  <2>2. CASE ~Actif(lot[w])
    <3>1. TypeJobs'
      BY <1>0, <1>1, <2>2, HypAucunLot DEF marquer_job_claim, Lacher, Aller
    <3>2. TypeLignes'
      BY <1>0, <1>1, <2>2, HypAucunLot DEF marquer_job_claim, Lacher, Aller
    <3>3. TypeTaches'
      <4>1. /\ pc' = [pc EXCEPT ![w] = "boucle"] /\ lot' = [lot EXCEPT ![w] = Aucun]
            /\ dossier' = [dossier EXCEPT ![w] = Aucun]
            /\ reference' = [reference EXCEPT ![w] = Aucun]
            /\ verdict' = [verdict EXCEPT ![w] = "aucun"]
        BY <1>1, <2>2 DEF marquer_job_claim, Lacher, Aller
      <4> QED BY <1>0, <4>1, HypAucunLot
    <3> QED BY <3>1, <3>2, <3>3
  <2> QED BY <2>1, <2>2
<1>2. CASE acquerir_claim_job(w)
  BY <1>0, <1>2, HypAucunLot DEF acquerir_claim_job, Rendre, Aller, Actif
<1>3. CASE preparer_objets_lot(w)
  BY <1>0, <1>3, HypAucunLot DEF preparer_objets_lot, Rendre, Aller, SignalerEchec, ResteInchange
<1>4. CASE reprendre_lot(w)
  BY <1>0, <1>4, HypAucunLot DEF reprendre_lot, SousClaim, Rendre, Aller, ResteInchange
<1>5. CASE doit_continuer(w)
  BY <1>0, <1>5, HypAucunLot DEF doit_continuer, Rendre, Aller, ResteInchange
<1>6. CASE choisir_dossier(w)
  <2>1. TypeJobs'
    BY <1>0, <1>6, HypAucunLot, HypDossiers DEF choisir_dossier, SousClaim, Rendre, Aller, ResteInchange, EnAttente, DossiersDe
  <2>2. TypeLignes'
    <3>1. UNCHANGED lignes
      BY <1>6 DEF choisir_dossier, SousClaim
    <3> QED BY <3>1
  <2>3. TypeTaches'
    BY <1>0, <1>6, HypAucunLot, HypDossiers DEF choisir_dossier, SousClaim, Rendre, Aller, ResteInchange, EnAttente, DossiersDe
  <2> QED BY <2>1, <2>2, <2>3
<1>7. CASE analyser(w)
  BY <1>0, <1>7, HypAucunLot DEF analyser, Aller, ResteInchange, PorteursDe
<1>8. CASE lier_rejeu_objets(w)
  <2>1. CASE par[lot[w]] = w /\ porteCle[reference[w]] /\ claim[lot[w]] = w
    <3>1. PICK avec \in BOOLEAN : Regler(w, "traite", avec) /\ pc[w] \in PcDossier
      BY <1>8, <2>1 DEF lier_rejeu_objets, SousClaim, JusquAuCommit
    <3>2. UNCHANGED <<depots, createurs, verdict, suivi, dossier, reference>> /\ ResteInchange
      BY <1>8, <2>1 DEF lier_rejeu_objets, SousClaim, JusquAuCommit
    <3>3. TypeLignes'
      BY <3>1, <3>2, RegleType
    <3>4. TypeTaches'
      BY <3>1, <3>2, RegleType DEF ResteInchange
    <3> QED BY <3>2, <3>3, <3>4 DEF ResteInchange
  <2>2. CASE par[lot[w]] # w
    BY <1>0, <1>8, <2>2, HypAucunLot DEF lier_rejeu_objets, SousClaim, Rendre, Aller, ResteInchange
  <2>3. CASE par[lot[w]] = w /\ ~porteCle[reference[w]]
    BY <1>0, <1>8, <2>3, HypAucunLot DEF lier_rejeu_objets, SousClaim, Aller, ResteInchange
  <2>4. CASE par[lot[w]] = w /\ porteCle[reference[w]] /\ claim[lot[w]] # w
    BY <1>0, <1>8, <2>4, HypAucunLot DEF lier_rejeu_objets, SousClaim, JusquAuCommit, Rendre, Aller, ResteInchange
  <2> QED BY <2>1, <2>2, <2>3, <2>4
<1>9. CASE deposer_dossier(w)
  <2>1. CASE par[lot[w]] = w /\ DepotPossible(w) /\ claim[lot[w]] = w
    <3>1. PICK avec \in BOOLEAN : Regler(w, "traite", avec) /\ pc[w] \in PcDossier
      BY <1>9, <2>1 DEF deposer_dossier, SousClaim, JusquAuCommit
    <3>2. UNCHANGED <<verdict, suivi, dossier, reference>> /\ ResteInchange
      BY <1>9, <2>1 DEF deposer_dossier, SousClaim, JusquAuCommit
    <3>3. depots' \in [Dossiers -> Nat]
      BY <1>9, <2>1 DEF deposer_dossier, SousClaim, JusquAuCommit
    <3>4. CleDe[dossier[w]] \in Cles
      BY <3>1 DEF Cles
    <3>5. createurs' \subseteq Dossiers
      BY <1>9, <2>1, <3>4 DEF deposer_dossier, SousClaim, JusquAuCommit
    <3> QED BY <1>0, <3>1, <3>2, <3>3, <3>5, RegleType DEF ResteInchange
  <2>2. CASE ~(par[lot[w]] = w /\ DepotPossible(w) /\ claim[lot[w]] = w)
    BY <1>0, <1>9, <2>2, HypAucunLot DEF deposer_dossier, SousClaim, JusquAuCommit, Rendre, Aller, ResteInchange
  <2> QED BY <2>1, <2>2
<1>10. CASE refuser_dossier(w)
  BY <1>0, <1>10, HypAucunLot DEF refuser_dossier, Aller, ResteInchange
<1>11. CASE maj_ligne_echec(w)
  <2>1. CASE par[lot[w]] = w
    <3>1. PICK avec \in BOOLEAN : Regler(w, "echec", avec) /\ pc[w] \in PcDossier
      BY <1>11, <2>1 DEF maj_ligne_echec, SousClaim
    <3>2. UNCHANGED <<depots, createurs, verdict, suivi, dossier, reference>> /\ ResteInchange
      BY <1>11, <2>1 DEF maj_ligne_echec, SousClaim
    <3> QED BY <1>0, <3>1, <3>2, RegleType DEF ResteInchange
  <2>2. CASE par[lot[w]] # w
    BY <1>0, <1>11, <2>2, HypAucunLot DEF maj_ligne_echec, SousClaim, Rendre, Aller, ResteInchange
  <2> QED BY <2>1, <2>2
<1>12. CASE rafraichir_compteurs(w)
  <2>1. TypeJobs'
    BY <1>0, <1>12, HypAucunLot, NombreEchecs DEF rafraichir_compteurs, SousClaim, Rendre, Aller, ResteInchange
  <2>2. TypeLignes'
    BY <1>0, <1>12, HypAucunLot, NombreEchecs DEF rafraichir_compteurs, SousClaim, Rendre, Aller, ResteInchange
  <2>3. TypeTaches'
    BY <1>0, <1>12, HypAucunLot, NombreEchecs DEF rafraichir_compteurs, SousClaim, Rendre, Aller, ResteInchange
  <2> QED BY <2>1, <2>2, <2>3
<1>13. CASE terminer_lot(w)
  BY <1>0, <1>13, HypAucunLot DEF terminer_lot, FermerLot, SousClaim, Rendre, Aller, ResteInchange
<1>14. CASE annuler_lot(w)
  BY <1>0, <1>14, HypAucunLot DEF annuler_lot, FermerLot, SousClaim, Rendre, Aller, ResteInchange
<1>15. CASE bilan(w)
  BY <1>0, <1>15, HypAucunLot DEF bilan, Rendre, Aller, ResteInchange
<1>16. CASE terminer_job(w)
  BY <1>0, <1>16, HypAucunLot DEF terminer_job, Rendre, Aller
<1>17. CASE clore_livraison(w)
  <2> DEFINE l == lot[w]
  <2>a. /\ statut' = statut \/ \E v \in {"pending", "failed"} : statut' = [statut EXCEPT ![l] = v]
        /\ par' = par \/ par' = [par EXCEPT ![l] = Aucun]
        /\ UNCHANGED tentatives
    BY <1>17 DEF clore_livraison, job
  <2>b. /\ \/ livraison' = livraison
           \/ \E v \in {"file", "morte", "absente"} : livraison' = [livraison EXCEPT ![l] = v]
        /\ essai' = essai \/ essai' = [essai EXCEPT ![l] = essai[l]]
           \/ essai' = [essai EXCEPT ![l] = essai[l] + 1]
    BY <1>17 DEF clore_livraison
  <2>c. /\ claim' = claim \/ claim' = [claim EXCEPT ![l] = Aucun]
        /\ UNCHANGED <<drapeau, statutLot, nbEchecs, pannes, erreurs, expirations>>
    BY <1>17 DEF clore_livraison, Lacher, suivi, alea
  <2>d. l \in Lots \cup {Aucun}
    BY <1>0
  <2> HIDE DEF l
  <2>e. /\ statut' \in [Lots -> STATUTS_ACTIFS \cup Fins \cup {"absent"}]
        /\ par' \in [Lots -> Workers \cup {Aucun}]
        /\ tentatives' \in [Lots -> Nat]
    BY <1>0, <2>a
  <2>f. /\ livraison' \in [Lots -> {"absente", "file", "traitement", "morte"}]
        /\ claim' \in [Lots -> Workers \cup {Aucun}]
    BY <1>0, <2>b, <2>c
  <2>g. essai' \in [Lots -> Nat]
    BY <1>0, <2>b
  <2>1. TypeJobs'
    BY <1>0, <2>c, <2>e, <2>f, <2>g
  <2>2. TypeLignes'
    BY <1>0, <1>17, HypAucunLot DEF clore_livraison, Lacher, Aller
  <2>3. TypeTaches'
    BY <1>0, <1>17, HypAucunLot DEF clore_livraison, Lacher, Aller
  <2> QED BY <2>1, <2>2, <2>3
<1>18. CASE Tuer(w)
  BY <1>0, <1>18, HypAucunLot DEF Tuer, Aller
<1>19. CASE PanneLot(w)
  BY <1>0, <1>19, HypAucunLot DEF PanneLot, Rendre, Aller
<1>20. CASE DrapeauIllisible(w)
  BY <1>0, <1>20, HypAucunLot DEF DrapeauIllisible, Aller
<1>21. CASE ErreurApresDepot(w)
  BY <1>0, <1>21, HypAucunLot DEF ErreurApresDepot, Aller
<1> QED BY <1>1, <1>2, <1>3, <1>4, <1>5, <1>6, <1>7, <1>8, <1>9, <1>10, <1>11, <1>12, <1>13, <1>14, <1>15, <1>16, <1>17, <1>18, <1>19, <1>20, <1>21 DEF process_lot_task, executer_lot

LEMMA TypePrendre ==
  ASSUME TypeLots, NEW w \in Workers, NEW l \in Lots, prendre(w, l)
  PROVE  TypeLots'
BY HypAucunLot DEF TypeLots, TypeJobs, TypeLignes, TypeTaches, prendre, Aller, job, suivi, lignes, alea, Pcs, PcLot, PcDossier

LEMMA TypePas == ASSUME TypeLots, [Next]_vars PROVE TypeLots'
<1>1. CASE UNCHANGED vars
  BY <1>1 DEF vars, TypeLots, TypeJobs, TypeLignes, TypeTaches, file, job, suivi, lignes,
     tache, alea
<1> QED BY <1>1, TypeLot, TypeWorker, TypePrendre DEF Next

(* Every reachable state of lots, rows and workers is well typed.          *)
THEOREM TypeCorrectLots == Spec => []TypeLots
BY InitType, TypePas, PTL DEF Spec

---------------------------------------------------------------------------
(* A step settles a folder in the hands of the owner of the job, or leaves *)
(* every folder as it is.                                                  *)

Regle(w) ==
  /\ pc[w] \in {"lie", "ecrit", "echec"} /\ par[lot[w]] = w
  /\ \E s \in {"traite", "echec"}, avec \in BOOLEAN :
       /\ Regler(w, s, avec)
       /\ pc[w] = "ecrit" => s = "traite" /\ avec = (reference[w] = Aucun)
       /\ pc[w] # "ecrit" => avec = FALSE
       /\ pc[w] = "echec" => s = "echec"
  /\ IF pc[w] = "ecrit"
       THEN /\ DepotPossible(w)
            /\ depots' = [depots EXCEPT ![dossier[w]] = @ + 1]
            /\ createurs' = IF reference[w] = Aucun THEN createurs \cup {dossier[w]}
                                                    ELSE createurs
       ELSE UNCHANGED <<depots, createurs>>
  /\ UNCHANGED <<suivi, dossier, reference, verdict>>
  /\ ResteInchange

LEMMA ReglerLie ==
  ASSUME NEW w \in Workers, lier_rejeu_objets(w)
  PROVE  Regle(w) \/ UNCHANGED lignes
BY DEF lier_rejeu_objets, SousClaim, JusquAuCommit, Regle, lignes

LEMMA ReglerDepot ==
  ASSUME NEW w \in Workers, deposer_dossier(w)
  PROVE  Regle(w) \/ UNCHANGED lignes
BY DEF deposer_dossier, SousClaim, JusquAuCommit, Regle, lignes

LEMMA ReglerEchec ==
  ASSUME NEW w \in Workers, maj_ligne_echec(w)
  PROVE  Regle(w) \/ UNCHANGED lignes
BY DEF maj_ligne_echec, SousClaim, Regle, lignes

LEMMA RegleOuRien ==
  ASSUME [Next]_vars
  PROVE  UNCHANGED lignes \/ \E w \in Workers : Regle(w)
<1>1. CASE UNCHANGED vars
  BY <1>1 DEF vars
<1>2. ASSUME NEW l \in Lots,
             creer_lot(l) \/ route_creer_lot(l) \/ route_annuler_lot(l) \/ cancel_job(l)
             \/ Balayage(l) \/ ExpirerMort(l) \/ ExpirerVivant(l)
             \/ \E w \in Workers : prendre(w, l)
      PROVE  UNCHANGED lignes
  BY <1>2 DEF creer_lot, route_creer_lot, route_annuler_lot, cancel_job, Balayage,
     reprendre_tache_orpheline, reprendre_job_sans_livraison, ExpirerMort, ExpirerVivant,
     LacherClaim, prendre
<1>3. ASSUME NEW w \in Workers,
             process_lot_task(w) \/ Tuer(w) \/ PanneLot(w) \/ DrapeauIllisible(w)
             \/ ErreurApresDepot(w)
      PROVE  UNCHANGED lignes \/ Regle(w)
  <2>1. CASE executer_lot(w)
    <3>1. CASE lier_rejeu_objets(w) \/ deposer_dossier(w) \/ maj_ligne_echec(w)
      BY <3>1, ReglerLie, ReglerDepot, ReglerEchec
    <3>2. CASE reprendre_lot(w) \/ doit_continuer(w) \/ choisir_dossier(w) \/ analyser(w)
               \/ refuser_dossier(w) \/ rafraichir_compteurs(w) \/ terminer_lot(w)
      BY <3>2 DEF reprendre_lot, doit_continuer, choisir_dossier, analyser, refuser_dossier,
         rafraichir_compteurs, terminer_lot, FermerLot, SousClaim
    <3> QED BY <2>1, <3>1, <3>2 DEF executer_lot
  <2>2. CASE marquer_job_claim(w) \/ acquerir_claim_job(w) \/ preparer_objets_lot(w)
             \/ annuler_lot(w) \/ bilan(w) \/ terminer_job(w) \/ clore_livraison(w)
    BY <2>2 DEF marquer_job_claim, acquerir_claim_job, preparer_objets_lot, annuler_lot,
       FermerLot, SousClaim, bilan, terminer_job, clore_livraison
  <2>3. CASE Tuer(w) \/ PanneLot(w) \/ DrapeauIllisible(w) \/ ErreurApresDepot(w)
    BY <2>3 DEF Tuer, PanneLot, DrapeauIllisible, ErreurApresDepot
  <2> QED BY <1>3, <2>1, <2>2, <2>3 DEF process_lot_task
<1> QED BY <1>1, <1>2, <1>3 DEF Next

---------------------------------------------------------------------------
(* How the owner of a job goes from one place to the next.                 *)

PcSuivis == {"choisit", "analyse", "lie", "ecrit", "echec", "termine", "bilan", "publie"}

Suivi(x) == Detient(x) /\ pc[x] \in PcSuivis

Immobile(x) ==
  /\ Suivi(x) /\ lot'[x] = lot[x] /\ pc'[x] = pc[x]
  /\ dossier'[x] = dossier[x] /\ verdict'[x] = verdict[x]

Mouvement(x) ==
  /\ Detient(x) /\ lot'[x] = lot[x] /\ UNCHANGED <<statut, drapeau>>
  /\ \/ /\ pc[x] = "continue" /\ pc'[x] = "choisit" /\ UNCHANGED lignes
        /\ ~ArretDemande(lot[x]) \/ erreurs' = erreurs + 1
     \/ /\ pc[x] = "choisit" /\ pc'[x] = "analyse" /\ UNCHANGED lignes
        /\ dossier'[x] \in EnAttente(lot[x])
     \/ /\ pc[x] \in {"analyse", "lie", "ecrit"} /\ pc'[x] \in {"lie", "ecrit", "echec"}
        /\ dossier'[x] = dossier[x] /\ UNCHANGED lignes
     \/ /\ pc[x] = "compte" /\ pc'[x] = "echec"
        /\ erreurs' = erreurs + 1 /\ UNCHANGED lignes
     \/ /\ pc[x] = "choisit" /\ pc'[x] = "termine" /\ UNCHANGED lignes
        /\ EnAttente(lot[x]) = {}
     \/ /\ pc[x] = "termine" /\ pc'[x] = "bilan" /\ UNCHANGED lignes
        /\ statutLot'[lot[x]] = "termine"
     \/ pc[x] = "bilan" /\ pc'[x] = "publie" /\ UNCHANGED <<lignes, suivi>>
     \/ pc[x] = "annuleJob" /\ pc'[x] = "publie" /\ verdict'[x] = "cancelled"

LEMMA PasDuLot ==
  ASSUME TypeLots, NEW x \in Workers, NEW l \in Lots,
         creer_lot(l) \/ route_creer_lot(l) \/ route_annuler_lot(l) \/ cancel_job(l)
         \/ Balayage(l) \/ ExpirerMort(l) \/ ExpirerVivant(l),
         Suivi(x)'
  PROVE  Immobile(x)
<1>1. UNCHANGED <<pc, tache>>
  BY DEF creer_lot, route_creer_lot, route_annuler_lot, cancel_job, Balayage,
     reprendre_tache_orpheline, reprendre_job_sans_livraison, ExpirerMort, ExpirerVivant,
     LacherClaim
<1>2. par' = par \/ par' = [par EXCEPT ![l] = Aucun]
  BY DEF creer_lot, route_creer_lot, route_annuler_lot, cancel_job, Balayage, job,
     reprendre_tache_orpheline, reprendre_job_sans_livraison, ExpirerMort, ExpirerVivant,
     LacherClaim
<1>3. Detient(x)
  BY <1>1, <1>2, HypAucunLot DEF TypeLots, TypeJobs, Suivi, Detient, tache
<1> QED BY <1>1, <1>3 DEF Suivi, Immobile, tache

LEMMA PasDUnAutre ==
  ASSUME TypeLots, NEW x \in Workers, NEW w \in Workers, w # x, Suivi(x)',
         process_lot_task(w) \/ Tuer(w) \/ PanneLot(w) \/ DrapeauIllisible(w)
         \/ ErreurApresDepot(w) \/ \E l \in Lots : prendre(w, l)
  PROVE  Immobile(x)
<1> USE DEF Aller, Rendre, SousClaim, ResteInchange, job, file, suivi, lignes, tache, alea
<1> DEFINE Place(y) == /\ pc'[y] = pc[y] /\ lot'[y] = lot[y]
                       /\ dossier'[y] = dossier[y] /\ verdict'[y] = verdict[y]
<1>0. pc[w] # "boucle" => lot[w] \in Lots
  BY HypAucunLot DEF TypeLots, TypeTaches
<1>1. Place(x) /\ \A l \in Lots : par'[l] = par[l] \/ par'[l] = w \/ par'[l] = Aucun
  <2> USE DEF TypeLots, TypeJobs, TypeTaches
  <2>1. CASE marquer_job_claim(w)
    BY <2>1, <1>0 DEF marquer_job_claim, Lacher
  <2>2. CASE acquerir_claim_job(w)
    BY <2>2, <1>0 DEF acquerir_claim_job
  <2>3. CASE preparer_objets_lot(w)
    BY <2>3 DEF preparer_objets_lot, SignalerEchec
  <2>4. CASE reprendre_lot(w)
    BY <2>4 DEF reprendre_lot
  <2>5. CASE doit_continuer(w)
    BY <2>5 DEF doit_continuer
  <2>6. CASE choisir_dossier(w)
    BY <2>6 DEF choisir_dossier
  <2>7. CASE analyser(w)
    BY <2>7 DEF analyser
  <2>8. CASE lier_rejeu_objets(w)
    BY <2>8 DEF lier_rejeu_objets, JusquAuCommit, Regler
  <2>9. CASE deposer_dossier(w)
    BY <2>9 DEF deposer_dossier, JusquAuCommit, Regler
  <2>10. CASE refuser_dossier(w)
    BY <2>10 DEF refuser_dossier
  <2>11. CASE maj_ligne_echec(w)
    BY <2>11 DEF maj_ligne_echec, Regler
  <2>12. CASE rafraichir_compteurs(w)
    BY <2>12 DEF rafraichir_compteurs
  <2>13. CASE terminer_lot(w) \/ annuler_lot(w)
    BY <2>13 DEF terminer_lot, annuler_lot, FermerLot
  <2>14. CASE bilan(w)
    BY <2>14 DEF bilan
  <2>15. CASE terminer_job(w)
    BY <2>15, <1>0 DEF terminer_job
  <2>16. CASE clore_livraison(w)
    BY <2>16, <1>0 DEF clore_livraison, Lacher
  <2>17. CASE Tuer(w) \/ PanneLot(w) \/ DrapeauIllisible(w) \/ ErreurApresDepot(w)
    BY <2>17 DEF Tuer, PanneLot, DrapeauIllisible, ErreurApresDepot
  <2>18. CASE \E l \in Lots : prendre(w, l)
    BY <2>18 DEF prendre
  <2> QED BY <2>1, <2>2, <2>3, <2>4, <2>5, <2>6, <2>7, <2>8, <2>9, <2>10, <2>11, <2>12,
             <2>13, <2>14, <2>15, <2>16, <2>17, <2>18 DEF process_lot_task, executer_lot
<1>2. Detient(x)
  BY <1>1, HypAucunLot DEF Suivi, Detient
<1> QED BY <1>1, <1>2 DEF Suivi, Immobile

LEMMA PasPropre ==
  ASSUME TypeLots, NEW x \in Workers, Suivi(x)',
         process_lot_task(x) \/ Tuer(x) \/ PanneLot(x) \/ DrapeauIllisible(x)
         \/ ErreurApresDepot(x) \/ \E l \in Lots : prendre(x, l)
  PROVE  Mouvement(x)
<1> USE DEF Aller, Rendre, SousClaim, ResteInchange, job, file, suivi, lignes, tache, alea,
            TypeLots, TypeTaches, Suivi, PcSuivis, Detient, Mouvement
<1>0. pc[x] # "boucle" => lot[x] \in Lots
  BY HypAucunLot
<1>1. CASE marquer_job_claim(x)
  BY <1>1, <1>0 DEF marquer_job_claim, Lacher
<1>2. CASE acquerir_claim_job(x)
  BY <1>2, <1>0 DEF acquerir_claim_job
<1>3. CASE preparer_objets_lot(x)
  BY <1>3 DEF preparer_objets_lot, SignalerEchec
<1>4. CASE reprendre_lot(x)
  BY <1>4 DEF reprendre_lot
<1>5. CASE doit_continuer(x)
  BY <1>5 DEF doit_continuer, ArretDemande
<1>6. CASE choisir_dossier(x)
  BY <1>6 DEF choisir_dossier
<1>7. CASE analyser(x)
  BY <1>7 DEF analyser
<1>8. CASE lier_rejeu_objets(x)
  BY <1>8 DEF lier_rejeu_objets, JusquAuCommit, Regler
<1>9. CASE deposer_dossier(x)
  BY <1>9 DEF deposer_dossier, JusquAuCommit, Regler
<1>10. CASE refuser_dossier(x)
  BY <1>10 DEF refuser_dossier
<1>11. CASE maj_ligne_echec(x)
  BY <1>11 DEF maj_ligne_echec, Regler
<1>12. CASE rafraichir_compteurs(x)
  BY <1>12 DEF rafraichir_compteurs
<1>13. CASE terminer_lot(x)
  BY <1>13, <1>0 DEF terminer_lot, FermerLot, TypeJobs
<1>14. CASE annuler_lot(x)
  BY <1>14 DEF annuler_lot, FermerLot
<1>15. CASE bilan(x)
  BY <1>15 DEF bilan
<1>16. CASE terminer_job(x)
  BY <1>16, <1>0 DEF terminer_job
<1>17. CASE clore_livraison(x)
  BY <1>17, <1>0 DEF clore_livraison, Lacher
<1>18. CASE Tuer(x) \/ PanneLot(x)
  BY <1>18 DEF Tuer, PanneLot
<1>19. CASE DrapeauIllisible(x)
  BY <1>19, <1>0 DEF DrapeauIllisible
<1>20. CASE ErreurApresDepot(x)
  BY <1>20, <1>0 DEF ErreurApresDepot
<1>21. CASE \E l \in Lots : prendre(x, l)
  BY <1>21 DEF prendre
<1> QED BY <1>1, <1>2, <1>3, <1>4, <1>5, <1>6, <1>7, <1>8, <1>9, <1>10, <1>11, <1>12,
           <1>13, <1>14, <1>15, <1>16, <1>17, <1>18, <1>19, <1>20, <1>21
        DEF process_lot_task, executer_lot

LEMMA Progression ==
  ASSUME TypeLots, [Next]_vars, NEW x \in Workers, Suivi(x)'
  PROVE  Immobile(x) \/ Mouvement(x)
<1>1. CASE UNCHANGED vars
  BY <1>1 DEF vars, job, tache, Suivi, Detient, Immobile
<1>2. CASE Next
  BY <1>2, PasDuLot, PasDUnAutre, PasPropre DEF Next
<1> QED BY <1>1, <1>2

---------------------------------------------------------------------------
(* A job has one owner, hence a folder in hand is settled by nobody else.  *)
LEMMA DossierIntact ==
  ASSUME TypeLots, NEW x \in Workers, Detient(x), pc[x] \in PcDossier,
         NEW w \in Workers, w # x, Regle(w)
  PROVE  statutDossier'[dossier[x]] = statutDossier[dossier[x]]
<1>1. pc[w] \in PcDossier /\ lot[w] # lot[x]
  BY DEF Regle, Detient, PcDossier
<1>2. dossier[w] # dossier[x] /\ dossier[x] \in Dossiers
  BY <1>1 DEF TypeLots, TypeTaches
<1> QED BY <1>2 DEF Regle, Regler, TypeLots, TypeLignes

LEMMA PlaceApresRegle ==
  ASSUME TypeLots, NEW w \in Workers, Regle(w)
  PROVE  pc'[w] = "compte"
BY DEF Regle, Regler, Aller, TypeLots, TypeTaches

LEMMA EnMainStable ==
  ASSUME TypeLots, InvEnMain, [Next]_vars
  PROVE  InvEnMain'
<1>1. SUFFICES ASSUME NEW x \in Workers, Detient(x)',
                      pc'[x] \in {"analyse", "lie", "ecrit"}
               PROVE  EnMain(x)'
  BY DEF InvEnMain
<1>2. Immobile(x) \/ Mouvement(x)
  BY <1>1, Progression DEF Suivi, PcSuivis
<1>3. CASE Immobile(x)
  <2>1. EnMain(x) /\ Detient(x) /\ pc[x] \in PcDossier
    BY <1>1, <1>3 DEF InvEnMain, Immobile, Suivi, PcDossier
  <2>2. \A w \in Workers : Regle(w) => w # x
    BY <1>1, <1>3, PlaceApresRegle DEF Immobile
  <2>3. statutDossier'[dossier[x]] = statutDossier[dossier[x]]
    BY <2>1, <2>2, DossierIntact, RegleOuRien DEF lignes
  <2> QED BY <1>3, <2>1, <2>3 DEF EnMain, Immobile
<1>4. CASE Mouvement(x)
  BY <1>1, <1>4 DEF Mouvement, InvEnMain, EnMain, EnAttente, DossiersDe, lignes
<1> QED BY <1>2, <1>3, <1>4

(* A step settles one folder, and never reopens it.                        *)
LEMMA RegleDepots ==
  ASSUME TypeLots, NEW w \in Workers, Regle(w), NEW d \in Dossiers
  PROVE  /\ d # dossier[w] => /\ statutDossier'[d] = statutDossier[d]
                              /\ porteCle'[d] = porteCle[d]
                              /\ depots'[d] = depots[d]
         /\ d = dossier[w] => /\ statutDossier'[d] \in {"traite", "echec"}
                              /\ IF pc[w] = "ecrit" THEN depots'[d] = depots[d] + 1
                                                    ELSE depots'[d] = depots[d]
<1>1. dossier[w] \in Dossiers
  BY DEF Regle, TypeLots, TypeTaches, PcDossier
<1> QED BY <1>1 DEF Regle, Regler, TypeLots, TypeLignes

LEMMA DepotsStable ==
  ASSUME TypeLots, InvEnMain, InvDepots, [Next]_vars
  PROVE  InvDepots'
<1>1. CASE UNCHANGED lignes
  BY <1>1 DEF InvDepots, lignes
<1>2. ASSUME NEW w \in Workers, Regle(w) PROVE InvDepots'
  <2>1. pc[w] = "ecrit" => lot[w] \in Lots /\ EnMain(w)
    BY <1>2, HypDossiers DEF InvEnMain, Detient, Regle, TypeLots, TypeTaches, PcDossier
  <2>2. ASSUME NEW d \in Dossiers
        PROVE  depots'[d] <= 1 /\ (depots'[d] = 1 => statutDossier'[d] # "en_attente")
    BY <1>2, <2>1, RegleDepots DEF InvDepots, EnMain, TypeLots, TypeLignes
  <2> QED BY <2>2 DEF InvDepots
<1> QED BY <1>1, <1>2, RegleOuRien

(* No takeover, retry, kill, stalled worker or failed call makes the       *)
(* record of a folder be written twice.                                    *)
THEOREM JamaisRefaitProuve == Spec => []JamaisRefait
<1> DEFINE Inv == TypeLots /\ InvEnMain /\ InvDepots
<1>1. Init => Inv
  BY InitType, HypAucunLot DEF Init, InvEnMain, InvDepots, Detient
<1>2. Inv /\ [Next]_vars => Inv'
  BY TypePas, EnMainStable, DepotsStable
<1>3. Inv => JamaisRefait
  BY DEF InvDepots, JamaisRefait
<1> QED BY <1>1, <1>2, <1>3, PTL DEF Spec

---------------------------------------------------------------------------
(* The keys.                                                               *)
LEMMA CleReglee ==
  ASSUME TypeLots, NEW w \in Workers, Regle(w)
  PROVE  /\ dossier[w] \in Dossiers
         /\ pc[w] = "echec" => statutDossier'[dossier[w]] = "echec"
         /\ pc[w] = "ecrit" => statutDossier'[dossier[w]] = "traite"
         /\ porteCle'[dossier[w]] = (pc[w] = "ecrit" /\ reference[w] = Aucun)
         /\ createurs' = IF pc[w] = "ecrit" /\ reference[w] = Aucun
                         THEN createurs \cup {dossier[w]} ELSE createurs
         /\ porteCle'[dossier[w]] => PorteursDe(CleDe[dossier[w]]) = {}
<1>1. dossier[w] \in Dossiers
  BY DEF Regle, TypeLots, TypeTaches, PcDossier
<1>2. /\ pc[w] = "echec" => statutDossier'[dossier[w]] = "echec"
      /\ pc[w] = "ecrit" => statutDossier'[dossier[w]] = "traite"
      /\ pc[w] = "ecrit" => porteCle'[dossier[w]] = (reference[w] = Aucun)
      /\ pc[w] # "ecrit" => porteCle'[dossier[w]] = FALSE
  BY <1>1 DEF Regle, Regler, TypeLots, TypeLignes
<1>3. createurs' = IF pc[w] = "ecrit" /\ reference[w] = Aucun
                   THEN createurs \cup {dossier[w]} ELSE createurs
  BY DEF Regle
<1>4. pc[w] = "ecrit" /\ reference[w] = Aucun => PorteursDe(CleDe[dossier[w]]) = {}
  BY DEF Regle, DepotPossible
<1>5. porteCle'[dossier[w]] = (pc[w] = "ecrit" /\ reference[w] = Aucun)
  BY <1>2
<1> QED BY <1>1, <1>2, <1>3, <1>4, <1>5

LEMMA ClesStable ==
  ASSUME TypeLots, InvEnMain, InvCles, [Next]_vars
  PROVE  InvCles'
<1>1. CASE UNCHANGED lignes
  BY <1>1 DEF InvCles, lignes, PorteursDe
<1>2. ASSUME NEW w \in Workers, Regle(w) PROVE InvCles'
  <2>1. dossier[w] \in createurs => pc[w] = "echec"
    BY <1>2, HypDossiers DEF InvEnMain, InvCles, EnMain, Detient, Regle, TypeLots, TypeTaches, PcDossier
  <2>2. ASSUME NEW d \in createurs'
        PROVE  statutDossier'[d] # "en_attente" /\ (statutDossier'[d] = "traite" => porteCle'[d])
    <3>1. CASE d = dossier[w]
      BY <1>2, <2>1, <2>2, <3>1, CleReglee
    <3>2. CASE d # dossier[w]
      <4>1. d \in createurs /\ d \in Dossiers
        BY <1>2, <2>2, <3>2, CleReglee DEF TypeLots, TypeLignes
      <4> QED BY <1>2, <3>2, <4>1, RegleDepots DEF InvCles
    <3> QED BY <3>1, <3>2
  <2>3. ASSUME NEW k \in Cles, NEW d \in PorteursDe(k)', NEW e \in PorteursDe(k)' PROVE d = e
    <3>1. ASSUME NEW x \in PorteursDe(k)', x # dossier[w] PROVE x \in PorteursDe(k)
      BY <1>2, <3>1, RegleDepots DEF PorteursDe
    <3>2. ASSUME dossier[w] \in PorteursDe(k)' PROVE PorteursDe(k) = {}
      BY <1>2, <3>2, CleReglee DEF PorteursDe
    <3> QED BY <2>3, <3>1, <3>2 DEF InvCles
  <2> QED BY <2>2, <2>3 DEF InvCles
<1> QED BY <1>1, <1>2, RegleOuRien

(* One document, met in several lots run by several workers, makes one     *)
(* record; a second is made only when the folder of the first was marked   *)
(* as failed after its deposit was committed (depot.py, executer_lot).     *)
THEOREM UneFicheParCleProuve == Spec => []UneFicheParCle
<1> DEFINE Inv == TypeLots /\ InvEnMain /\ InvCles
<1>1. Init => Inv
  BY InitType, HypAucunLot DEF Init, InvEnMain, InvCles, Detient, PorteursDe
<1>2. Inv /\ [Next]_vars => Inv'
  BY TypePas, EnMainStable, ClesStable
<1>3. Inv => UneFicheParCle
  <2> SUFFICES ASSUME TypeLots, InvCles, NEW d \in createurs, NEW e \in createurs, d # e, CleDe[d] = CleDe[e],
                      statutDossier[d] # "echec", statutDossier[e] # "echec"
               PROVE  FALSE
    BY DEF UneFicheParCle
  <2>1. d \in Dossiers /\ e \in Dossiers
    BY DEF TypeLots, TypeLignes
  <2>2. /\ statutDossier[d] = "traite" /\ porteCle[d]
        /\ statutDossier[e] = "traite" /\ porteCle[e]
    BY <2>1 DEF InvCles, TypeLots, TypeLignes
  <2> QED BY <2>1, <2>2 DEF InvCles, PorteursDe, Cles
<1> QED BY <1>1, <1>2, <1>3, PTL DEF Spec

---------------------------------------------------------------------------
(* The end of a lot.                                                       *)

(* A folder settled stays settled.                                         *)
LEMMA EnAttenteDecroit ==
  ASSUME TypeLots, [Next]_vars, NEW l \in Lots, EnAttente(l) = {}
  PROVE  EnAttente(l)' = {}
<1>1. CASE UNCHANGED lignes
  BY <1>1 DEF lignes, EnAttente, DossiersDe
<1>2. ASSUME NEW w \in Workers, Regle(w), NEW d \in Dossiers, statutDossier'[d] = "en_attente"
      PROVE  statutDossier[d] = "en_attente"
  BY <1>2, RegleDepots
<1> QED BY <1>1, <1>2, RegleOuRien DEF EnAttente, DossiersDe

(* Only the owner, at certain places, moves a lot that is closed.          *)
LEMMA LotFerme ==
  ASSUME TypeLots, [Next]_vars, NEW l \in Lots, statutLot[l] = "termine"
  PROVE  \/ statutLot'[l] = "termine"
         \/ \E w \in Workers : /\ par[l] = w /\ lot[w] = l
                               /\ pc[w] \in {"annule", "annuleJob"}
                               /\ pc'[w] \in {"annuleJob", "publie"}
                               /\ (pc'[w] = "publie" => verdict'[w] = "cancelled")
<1> USE DEF TypeLots, TypeJobs, TypeTaches, suivi, ResteInchange
<1>1. CASE UNCHANGED vars
  BY <1>1 DEF vars
<1>2. ASSUME NEW m \in Lots,
             creer_lot(m) \/ route_creer_lot(m) \/ route_annuler_lot(m) \/ cancel_job(m)
             \/ Balayage(m) \/ ExpirerMort(m) \/ ExpirerVivant(m)
             \/ \E w \in Workers : prendre(w, m)
      PROVE  statutLot'[l] = "termine"
  BY <1>2 DEF creer_lot, route_creer_lot, route_annuler_lot, cancel_job, Balayage,
     reprendre_tache_orpheline, reprendre_job_sans_livraison, ExpirerMort, ExpirerVivant,
     LacherClaim, prendre
<1>3. ASSUME NEW w \in Workers, annuler_lot(w), statutLot'[l] # "termine"
      PROVE  /\ par[l] = w /\ lot[w] = l
             /\ pc[w] \in {"annule", "annuleJob"}
             /\ pc'[w] \in {"annuleJob", "publie"}
             /\ (pc'[w] = "publie" => verdict'[w] = "cancelled")
  BY <1>3 DEF annuler_lot, FermerLot, SousClaim, Aller
<1>4. ASSUME NEW w \in Workers,
             process_lot_task(w) \/ Tuer(w) \/ PanneLot(w) \/ DrapeauIllisible(w)
             \/ ErreurApresDepot(w),
             ~annuler_lot(w)
      PROVE  statutLot'[l] = "termine"
  <2>1. CASE executer_lot(w)
    <3>1. CASE reprendre_lot(w)
      BY <3>1 DEF reprendre_lot, SousClaim
    <3>2. CASE terminer_lot(w)
      BY <3>2 DEF terminer_lot, FermerLot, SousClaim
    <3>3. CASE lier_rejeu_objets(w) \/ deposer_dossier(w) \/ maj_ligne_echec(w)
      BY <3>3 DEF lier_rejeu_objets, deposer_dossier, maj_ligne_echec, SousClaim
    <3>4. CASE doit_continuer(w) \/ choisir_dossier(w) \/ analyser(w) \/ refuser_dossier(w)
               \/ rafraichir_compteurs(w)
      BY <3>4 DEF doit_continuer, choisir_dossier, analyser, refuser_dossier,
         rafraichir_compteurs, SousClaim
    <3> QED BY <2>1, <3>1, <3>2, <3>3, <3>4 DEF executer_lot
  <2>2. CASE marquer_job_claim(w) \/ acquerir_claim_job(w) \/ preparer_objets_lot(w)
             \/ bilan(w) \/ terminer_job(w) \/ clore_livraison(w)
    BY <2>2 DEF marquer_job_claim, acquerir_claim_job, preparer_objets_lot, bilan,
       terminer_job, clore_livraison
  <2>3. CASE Tuer(w) \/ PanneLot(w) \/ DrapeauIllisible(w) \/ ErreurApresDepot(w)
    BY <2>3 DEF Tuer, PanneLot, DrapeauIllisible, ErreurApresDepot
  <2> QED BY <1>4, <2>1, <2>2, <2>3 DEF process_lot_task
<1> QED BY <1>1, <1>2, <1>3, <1>4 DEF Next

(* A job that has ended well or for review got there by its owner, and has *)
(* none any more.                                                          *)
Conclut(w, l) ==
  /\ Suivi(w) /\ pc[w] = "publie" /\ lot[w] = l /\ verdict[w] = statut'[l]
  /\ par'[l] = Aucun /\ UNCHANGED <<suivi, lignes>>

LEMMA BonneFinVient ==
  ASSUME TypeLots, [Next]_vars, NEW l \in Lots, statut'[l] \in BonneFin
  PROVE  \/ statut[l] = statut'[l] /\ (par[l] = Aucun => par'[l] = Aucun)
         \/ \E w \in Workers : Conclut(w, l)
<1> USE DEF TypeLots, TypeJobs, TypeTaches, job, ResteInchange, BonneFin, STATUTS_ACTIFS, Actif
<1>1. CASE UNCHANGED vars
  BY <1>1 DEF vars
<1>2. ASSUME NEW m \in Lots,
             creer_lot(m) \/ route_creer_lot(m) \/ route_annuler_lot(m) \/ cancel_job(m)
             \/ Balayage(m) \/ ExpirerMort(m) \/ ExpirerVivant(m)
             \/ \E w \in Workers : prendre(w, m)
      PROVE  statut[l] = statut'[l] /\ (par[l] = Aucun => par'[l] = Aucun)
  BY <1>2 DEF creer_lot, route_creer_lot, route_annuler_lot, cancel_job, Balayage,
     reprendre_tache_orpheline, reprendre_job_sans_livraison, ExpirerMort, ExpirerVivant,
     LacherClaim, prendre
<1>3. ASSUME NEW w \in Workers, terminer_job(w)
      PROVE  \/ statut[l] = statut'[l] /\ (par[l] = Aucun => par'[l] = Aucun)
             \/ Conclut(w, l)
  BY <1>3, HypAucunLot DEF terminer_job, PeutConclure, Conclut, Suivi, Detient, PcSuivis
<1>4. ASSUME NEW w \in Workers,
             process_lot_task(w) \/ Tuer(w) \/ PanneLot(w) \/ DrapeauIllisible(w)
             \/ ErreurApresDepot(w),
             ~terminer_job(w)
      PROVE  statut[l] = statut'[l] /\ (par[l] = Aucun => par'[l] = Aucun)
  <2>1. CASE executer_lot(w)
    BY <2>1 DEF executer_lot, reprendre_lot, doit_continuer, choisir_dossier, analyser,
       lier_rejeu_objets, deposer_dossier, refuser_dossier, maj_ligne_echec,
       rafraichir_compteurs, terminer_lot
  <2>2. CASE marquer_job_claim(w)
    BY <2>2 DEF marquer_job_claim
  <2>3. CASE acquerir_claim_job(w)
    BY <2>3 DEF acquerir_claim_job
  <2>4. CASE preparer_objets_lot(w) \/ annuler_lot(w) \/ bilan(w)
    BY <2>4 DEF preparer_objets_lot, annuler_lot, bilan
  <2>5. CASE clore_livraison(w)
    BY <2>5 DEF clore_livraison
  <2>6. CASE Tuer(w) \/ PanneLot(w) \/ DrapeauIllisible(w) \/ ErreurApresDepot(w)
    BY <2>6 DEF Tuer, PanneLot, DrapeauIllisible, ErreurApresDepot
  <2> QED BY <1>4, <2>1, <2>2, <2>3, <2>4, <2>5, <2>6 DEF process_lot_task
<1> QED BY <1>1, <1>2, <1>3, <1>4 DEF Next

LEMMA FinStable ==
  ASSUME TypeLots, InvFin, [Next]_vars
  PROVE  InvFin'
<1>1. ASSUME NEW l \in Lots, SansReste(l), ~ \E w \in Workers : par[l] = w /\ lot[w] = l
                                              /\ pc[w] \in {"annule", "annuleJob"}
      PROVE  SansReste(l)'
  BY <1>1, EnAttenteDecroit, LotFerme DEF SansReste
<1>2. ASSUME NEW l \in Lots, statut'[l] \in BonneFin
      PROVE  SansReste(l)' /\ par'[l] = Aucun
  <2>1. CASE statut[l] = statut'[l] /\ (par[l] = Aucun => par'[l] = Aucun)
    BY <1>1, <1>2, <2>1, HypAucunLot DEF InvFin
  <2>2. CASE \E w \in Workers : Conclut(w, l)
    BY <1>2, <2>2 DEF Conclut, InvFin, Suivi, SansReste, EnAttente, DossiersDe, suivi, lignes
  <2> QED BY <1>2, <2>1, <2>2, BonneFinVient
<1>3. ASSUME NEW x \in Workers, Suivi(x)', Immobile(x) \/ Mouvement(x)
      PROVE  /\ pc'[x] = "termine" => EnAttente(lot[x])' = {}
             /\ pc'[x] = "bilan" => SansReste(lot[x])'
             /\ pc'[x] = "publie" /\ verdict'[x] \in BonneFin => SansReste(lot[x])'
  <2>0. PICK l \in Lots : Detient(x) /\ lot[x] = l /\ lot'[x] = l
    BY <1>3 DEF Immobile, Mouvement, Suivi, Detient
  <2>1. SUFFICES /\ pc'[x] = "termine" => EnAttente(l)' = {}
                 /\ pc'[x] = "bilan" => SansReste(l)'
                 /\ pc'[x] = "publie" /\ verdict'[x] \in BonneFin => SansReste(l)'
    BY <2>0 DEF SansReste, EnAttente, DossiersDe
  <2>2. CASE Immobile(x)
    <3>1. pc[x] = "termine" => EnAttente(l) = {}
      BY <2>0, <2>2 DEF InvFin
    <3>2. ASSUME pc[x] = "bilan" \/ (pc[x] = "publie" /\ verdict[x] \in BonneFin)
          PROVE  SansReste(l)'
      <4>1. SansReste(l)
        BY <2>0, <3>2 DEF InvFin
      <4>2. ~ \E w \in Workers : par[l] = w /\ lot[w] = l /\ pc[w] \in {"annule", "annuleJob"}
        BY <2>0, <3>2 DEF Detient
      <4> QED BY <1>1, <4>1, <4>2
    <3> QED BY <2>2, <3>1, <3>2, EnAttenteDecroit DEF Immobile
  <2>3. CASE Mouvement(x)
    <3>1. pc'[x] = "termine" => EnAttente(l) = {}
      BY <2>0, <2>3 DEF Mouvement
    <3>2. pc'[x] = "bilan" => EnAttente(l) = {} /\ statutLot'[l] = "termine"
      BY <2>0, <2>3 DEF Mouvement, InvFin
    <3>3. pc'[x] = "publie" /\ verdict'[x] \in BonneFin => SansReste(l) /\ UNCHANGED <<suivi, lignes>>
      BY <2>0, <2>3 DEF Mouvement, InvFin, BonneFin
    <3>4. SansReste(l) /\ UNCHANGED <<suivi, lignes>> => SansReste(l)'
      BY DEF SansReste, EnAttente, DossiersDe, suivi, lignes
    <3> QED BY <3>1, <3>2, <3>3, <3>4, EnAttenteDecroit DEF SansReste
  <2> QED BY <1>3, <2>2, <2>3
<1>4. ASSUME NEW x \in Workers, Detient(x)'
      PROVE  /\ pc'[x] = "termine" => EnAttente(lot[x])' = {}
             /\ pc'[x] = "bilan" => SansReste(lot[x])'
             /\ pc'[x] = "publie" /\ verdict'[x] \in BonneFin => SansReste(lot[x])'
  BY <1>3, <1>4, Progression DEF Suivi, PcSuivis
<1> QED BY <1>2, <1>4 DEF InvFin

(* No interleaving of deposits, failures, takeovers and cancellations ends *)
(* a job well, or for review, with a folder waiting or a lot open.         *)
THEOREM FinSansResteProuve == Spec => []FinSansReste
<1> DEFINE Inv == TypeLots /\ InvFin
<1>1. Init => Inv
  BY InitType, HypAucunLot DEF Init, InvFin, BonneFin, Detient
<1>2. Inv /\ [Next]_vars => Inv'
  BY TypePas, FinStable
<1>3. Inv => FinSansReste
  BY DEF InvFin, BonneFin, SansReste, FinSansReste
<1> QED BY <1>1, <1>2, <1>3, PTL DEF Spec

---------------------------------------------------------------------------
(* The cancellation of a lot.                                              *)

(* Neither a flag raised nor a cancelled job comes back.                   *)
LEMMA ArretStable ==
  ASSUME TypeLots, [Next]_vars, NEW l \in Lots, ArretDemande(l)
  PROVE  ArretDemande(l)'
<1> USE DEF TypeLots, TypeJobs, TypeTaches, job, ResteInchange, Actif, STATUTS_ACTIFS, Fins,
            ArretDemande
<1>1. CASE UNCHANGED vars
  BY <1>1 DEF vars
<1>2. ASSUME NEW m \in Lots,
             creer_lot(m) \/ route_creer_lot(m) \/ route_annuler_lot(m) \/ cancel_job(m)
             \/ Balayage(m) \/ ExpirerMort(m) \/ ExpirerVivant(m)
             \/ \E w \in Workers : prendre(w, m)
      PROVE  ArretDemande(l)'
  BY <1>2 DEF creer_lot, route_creer_lot, route_annuler_lot, cancel_job, Balayage,
     reprendre_tache_orpheline, reprendre_job_sans_livraison, ExpirerMort, ExpirerVivant,
     LacherClaim, prendre
<1>3. ASSUME NEW w \in Workers,
             process_lot_task(w) \/ Tuer(w) \/ PanneLot(w) \/ DrapeauIllisible(w)
             \/ ErreurApresDepot(w)
      PROVE  ArretDemande(l)'
  <2>1. CASE executer_lot(w)
    BY <2>1 DEF executer_lot, reprendre_lot, doit_continuer, choisir_dossier, analyser,
       lier_rejeu_objets, deposer_dossier, refuser_dossier, maj_ligne_echec,
       rafraichir_compteurs, terminer_lot
  <2>2. CASE marquer_job_claim(w)
    BY <2>2 DEF marquer_job_claim
  <2>3. CASE acquerir_claim_job(w)
    BY <2>3 DEF acquerir_claim_job
  <2>4. CASE preparer_objets_lot(w) \/ annuler_lot(w) \/ bilan(w)
    BY <2>4 DEF preparer_objets_lot, annuler_lot, bilan
  <2>5. CASE terminer_job(w)
    BY <2>5 DEF terminer_job, PeutConclure
  <2>6. CASE clore_livraison(w)
    BY <2>6 DEF clore_livraison
  <2>7. CASE Tuer(w) \/ PanneLot(w) \/ DrapeauIllisible(w) \/ ErreurApresDepot(w)
    BY <2>7 DEF Tuer, PanneLot, DrapeauIllisible, ErreurApresDepot
  <2> QED BY <1>3, <2>1, <2>2, <2>3, <2>4, <2>5, <2>6, <2>7 DEF process_lot_task
<1> QED BY <1>1, <1>2, <1>3 DEF Next

LEMMA ErreursCroissent ==
  ASSUME TypeLots, [Next]_vars
  PROVE  erreurs' \in {erreurs, erreurs + 1}
<1> USE DEF ResteInchange, alea
<1>1. CASE UNCHANGED vars
  BY <1>1 DEF vars
<1>2. ASSUME NEW m \in Lots,
             creer_lot(m) \/ route_creer_lot(m) \/ route_annuler_lot(m) \/ cancel_job(m)
             \/ Balayage(m) \/ ExpirerMort(m) \/ ExpirerVivant(m)
             \/ \E w \in Workers : prendre(w, m)
      PROVE  erreurs' = erreurs
  BY <1>2 DEF creer_lot, route_creer_lot, route_annuler_lot, cancel_job, Balayage,
     reprendre_tache_orpheline, reprendre_job_sans_livraison, ExpirerMort, ExpirerVivant,
     LacherClaim, prendre
<1>3. ASSUME NEW w \in Workers,
             process_lot_task(w) \/ Tuer(w) \/ PanneLot(w) \/ DrapeauIllisible(w)
             \/ ErreurApresDepot(w)
      PROVE  erreurs' \in {erreurs, erreurs + 1}
  <2>1. CASE executer_lot(w)
    BY <2>1 DEF executer_lot, reprendre_lot, doit_continuer, choisir_dossier, analyser,
       lier_rejeu_objets, deposer_dossier, refuser_dossier, maj_ligne_echec,
       rafraichir_compteurs, terminer_lot
  <2>2. CASE marquer_job_claim(w) \/ acquerir_claim_job(w) \/ preparer_objets_lot(w)
             \/ annuler_lot(w) \/ bilan(w) \/ terminer_job(w) \/ clore_livraison(w)
    BY <2>2 DEF marquer_job_claim, acquerir_claim_job, preparer_objets_lot, annuler_lot,
       bilan, terminer_job, clore_livraison
  <2>3. CASE Tuer(w) \/ PanneLot(w) \/ DrapeauIllisible(w) \/ ErreurApresDepot(w)
    BY <2>3 DEF Tuer, PanneLot, DrapeauIllisible, ErreurApresDepot
  <2> QED BY <1>3, <2>1, <2>2, <2>3 DEF process_lot_task
<1> QED BY <1>1, <1>2, <1>3 DEF Next

(* What settling a folder adds to the count of a cancelled lot.            *)
LEMMA RegleApres ==
  ASSUME TypeLots, NEW w \in Workers, Regle(w), NEW l \in Lots
  PROVE  \/ apresAnnulation'[l] = apresAnnulation[l]
         \/ /\ l = lot[w] /\ ArretDemande(l) /\ VaRegler(w)
            /\ apresAnnulation'[l] = apresAnnulation[l] + 1
<1>1. PICK s \in {"traite", "echec"}, avec \in BOOLEAN : Regler(w, s, avec)
  BY DEF Regle
<1>2. pc[w] \in {"lie", "ecrit", "echec"} /\ par[lot[w]] = w
  BY DEF Regle
<1>3. CASE l = lot[w] /\ ArretDemande(l) /\ statutDossier[dossier[w]] = "en_attente"
  BY <1>1, <1>2, <1>3 DEF Regler, TypeLots, TypeLignes, VaRegler, Detient, EnMain
<1>4. CASE ~(l = lot[w] /\ ArretDemande(l) /\ statutDossier[dossier[w]] = "en_attente")
  BY <1>1, <1>4 DEF Regler, TypeLots, TypeLignes
<1> QED BY <1>3, <1>4

LEMMA ArretInvariant ==
  ASSUME TypeLots, InvArret, [Next]_vars
  PROVE  InvArret'
<1>0. /\ erreurs \in Nat /\ erreurs' \in {erreurs, erreurs + 1}
      /\ \A l \in Lots : apresAnnulation[l] \in Nat
  BY ErreursCroissent DEF TypeLots, TypeJobs, TypeLignes
<1>1. ASSUME NEW l \in Lots
      PROVE  /\ apresAnnulation'[l] <= 1 + erreurs'
             /\ apresAnnulation'[l] > 0 => ArretDemande(l)'
  <2>1. CASE UNCHANGED lignes
    BY <1>0, <2>1, ArretStable DEF InvArret, lignes
  <2>2. ASSUME NEW w \in Workers, Regle(w)
        PROVE  /\ apresAnnulation'[l] <= 1 + erreurs'
               /\ apresAnnulation'[l] > 0 => ArretDemande(l)'
    BY <1>0, <2>2, RegleApres, ArretStable DEF InvArret
  <2> QED BY <2>1, <2>2, RegleOuRien
<1>2. ASSUME NEW x \in Workers, VaRegler(x)'
      PROVE  apresAnnulation'[lot'[x]] <= erreurs'
  <2>1. Suivi(x)'
    BY <1>2 DEF VaRegler, Suivi, PcSuivis
  <2>2. PICK l \in Lots : Detient(x) /\ lot[x] = l /\ lot'[x] = l
    BY <2>1, Progression DEF Immobile, Mouvement, Suivi, Detient
  <2>3. CASE Immobile(x)
    <3>1. \A w \in Workers : Regle(w) => w # x
      BY <1>2, <2>3, PlaceApresRegle DEF Immobile, VaRegler
    <3>2. apresAnnulation'[l] = apresAnnulation[l]
      BY <2>2, <3>1, RegleOuRien, RegleApres DEF lignes, VaRegler, Detient
    <3>3. EnMain(x)' /\ pc[x] = "echec" => EnMain(x)
      BY <2>2, <2>3, <3>1, DossierIntact, RegleOuRien DEF EnMain, Immobile, lignes, PcDossier
    <3>4. VaRegler(x)
      BY <1>2, <2>2, <2>3, <3>3 DEF VaRegler, Immobile
    <3> QED BY <1>0, <2>2, <3>2, <3>4 DEF InvArret
  <2>4. CASE Mouvement(x)
    <3>1. UNCHANGED lignes
      BY <1>2, <2>4 DEF Mouvement, VaRegler
    <3>2. apresAnnulation[l] <= erreurs'
      <4>1. CASE pc[x] \in {"choisit", "analyse", "lie", "ecrit"}
        BY <1>0, <2>2, <4>1 DEF InvArret, VaRegler
      <4>2. CASE pc[x] = "continue"
        BY <1>0, <1>2, <2>2, <2>4, <4>2 DEF Mouvement, InvArret
      <4>3. CASE pc[x] = "compte"
        BY <1>0, <1>2, <2>2, <2>4, <4>3 DEF Mouvement, InvArret
      <4> QED BY <1>2, <2>4, <4>1, <4>2, <4>3 DEF Mouvement, VaRegler
    <3> QED BY <2>2, <3>1, <3>2 DEF lignes
  <2> QED BY <2>1, <2>3, <2>4, Progression
<1> QED BY <1>1, <1>2 DEF InvArret

(* However the request to cancel falls among the steps of the lot, at most *)
(* the folder in hand is settled after it, plus one for each failed call.  *)
THEOREM ArretEntreDeuxDossiersProuve == Spec => []ArretEntreDeuxDossiers
<1> DEFINE Inv == TypeLots /\ InvArret
<1>1. Init => Inv
  BY InitType, HypAucunLot DEF Init, InvArret, VaRegler, Detient
<1>2. Inv /\ [Next]_vars => Inv'
  BY TypePas, ArretInvariant
<1>3. Inv => ArretEntreDeuxDossiers
  BY DEF InvArret, ArretEntreDeuxDossiers
<1> QED BY <1>1, <1>2, <1>3, PTL DEF Spec
=============================================================================
