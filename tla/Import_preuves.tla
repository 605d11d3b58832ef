---------------------------- MODULE Import_preuves ----------------------------
(***************************************************************************)
(* Proofs about an import and its job, for any number of jobs, workers and *)
(* failures: its publication never sends blindly, by induction on          *)
(* InvPublication; and its job ends well, or for review, only on what the  *)
(* import proves, or on an outcome still marked unknown, by induction on   *)
(* InvEtaye.                                                               *)
(***************************************************************************)
EXTENDS FileDurable_preuves

LEMMA InitPublication == Init => InvPublication
<1> SUFFICES ASSUME Init PROVE InvPublication
  OBVIOUS
<1>1. \A w \in Workers : pc[w] = "depart" /\ envoi[w] = ""
  BY DEF Init, InitFile
<1>2. \A j \in Jobs : incertain[j] = 0
  BY DEF Init, InitFile
<1>3. SectionSerialisee /\ EnvoiVide /\ \A w \in Workers : EtapeConnue(w)
  BY <1>1 DEF SectionSerialisee, EnvoiVide, EtapeConnue, PcVerrouille
<1>4. IncertainBorne
  BY <1>2 DEF IncertainBorne
<1> QED BY <1>3, <1>4 DEF InvPublication

(* A step that leaves the rows of imports and the tasks alone.             *)
LEMMA PublicationIntacte ==
  ASSUME TypeComplet, InvPublication, UNCHANGED <<imports, pc, tache>>
  PROVE  InvPublication'
BY DEF InvPublication, SectionSerialisee, EnvoiVide, IncertainBorne, EtapeConnue, JobDe, imports, tache

(* A worker that goes to a stage outside the section: it is past the       *)
(* upload, or has sent nothing.                                            *)
LEMMA HorsSection ==
  ASSUME TypeComplet, InvPublication, UNCHANGED imports,
         NEW w \in Workers, NEW e, Aller(w, e), e \notin PcVerrouille,
         e \in PcTache \ PcAvantEnvoi \/ envoi'[w] = "",
         \A x \in Workers \ {w} : livraison'[x] = livraison[x] /\ envoi'[x] = envoi[x]
  PROVE  InvPublication'
<1>1. pc'[w] = e /\ \A x \in Workers \ {w} : pc'[x] = pc[x]
  BY DEF Aller, TypeComplet, TypeOK, TypeTache
<1>2. SectionSerialisee'
  BY <1>1 DEF InvPublication, SectionSerialisee, JobDe, imports
<1>3. EnvoiVide'
  BY <1>1 DEF InvPublication, EnvoiVide
<1>4. IncertainBorne'
  BY DEF InvPublication, IncertainBorne, imports
<1>5. ASSUME NEW x \in Workers PROVE EtapeConnue(x)'
  <2>1. CASE x = w
    BY <1>1, <2>1 DEF EtapeConnue, PcVerrouille
  <2>2. CASE x # w
    BY <1>1, <2>2 DEF InvPublication, EtapeConnue, JobDe, imports
  <2> QED BY <2>1, <2>2
<1> QED BY <1>2, <1>3, <1>4, <1>5 DEF InvPublication

LEMMA PublicationSuite ==
  ASSUME TypeComplet, InvPublication, NEW w \in Workers, SuiteDeBoucle(w) \/ TeteDeBoucle(w)
  PROVE  InvPublication'
<1> USE DEF PcVerrouille, PcTache, PcTravail, PcAvantEnvoi, tache, imports
<1>0. pc[w] \in PcAvantEnvoi => envoi[w] = ""
  BY DEF InvPublication, EnvoiVide
<1>1. CASE revendiquer_tache(w)
  <2>1. livraison'[w] \in {livraison[w], Aucun} /\ \A x \in Workers \ {w} : livraison'[x] = livraison[x]
    BY <1>1 DEF revendiquer_tache, TypeComplet, TypeOK, TypeTache
  <2> QED BY <1>0, <1>1, <2>1, HorsSection DEF revendiquer_tache
<1>2. CASE marquer_job_claim(w)
  BY <1>0, <1>2, HorsSection DEF marquer_job_claim
<1>3. CASE AcquitterRefus(w)
  BY <1>3, HorsSection DEF AcquitterRefus
<1>4. CASE Decider(w)
  BY <1>4, HorsSection DEF Decider, SuiteDuVerdict
<1>5. CASE ack_task(w)
  BY <1>5, HorsSection DEF ack_task
<1>6. CASE retry_task(w)
  BY <1>6, HorsSection DEF retry_task
<1>7. CASE NoterRelance(w)
  BY <1>7, HorsSection DEF NoterRelance
<1>8. CASE deadletter_task(w)
  BY <1>8, HorsSection DEF deadletter_task
<1>9. CASE terminer_job(w)
  BY <1>9, HorsSection DEF terminer_job
<1>10. CASE liberer_revendication(w)
  <2>1. /\ envoi'[w] = "" 
        /\ \A x \in Workers \ {w} : livraison'[x] = livraison[x] /\ envoi'[x] = envoi[x]
    BY <1>10 DEF liberer_revendication, TypeComplet, TypeOK, TypeTache
  <2> QED BY <1>10, <2>1, HorsSection DEF liberer_revendication
<1>11. CASE process_retry_queue(w)
  BY <1>11, PublicationIntacte DEF process_retry_queue
<1>12. CASE dequeue_task(w)
  <2>1. /\ envoi'[w] = ""
        /\ \A x \in Workers \ {w} : livraison'[x] = livraison[x] /\ envoi'[x] = envoi[x]
    BY <1>12 DEF dequeue_task, InvPublication, EnvoiVide, TypeComplet, TypeOK, TypeTache
  <2> QED BY <1>12, <2>1, HorsSection DEF dequeue_task
<1> QED BY <1>1, <1>2, <1>3, <1>4, <1>5, <1>6, <1>7, <1>8, <1>9, <1>10, <1>11, <1>12
        DEF SuiteDeBoucle, TeteDeBoucle

(* The lock keeps any other worker out of the section of the import.       *)
LEMMA SeulEnSection ==
  ASSUME TypeComplet, InvPublication, NEW w \in Workers, NEW x \in Workers \ {w},
         verrou[JobDe(w)] = w \/ verrou[JobDe(w)] = Aucun, pc[x] \in PcVerrouille
  PROVE  JobDe(x) # JobDe(w)
BY HypAucun DEF InvPublication, SectionSerialisee

(* A step of the section of w: the import of w, and w, are all it touches. *)
DansLaSection(w) ==
  LET j == JobDe(w) IN
  /\ \/ pc[w] \in PcVerrouille
     \/ verrou[j] = Aucun /\ ~attente[j]
  /\ pc[w] \in PcTache
  /\ UNCHANGED livraison
  /\ \A x \in Workers \ {w} : pc'[x] = pc[x] /\ envoi'[x] = envoi[x]
  /\ \A i \in Jobs \ {j} : attente'[i] = attente[i] /\ verrou'[i] = verrou[i]
                           /\ incertain'[i] = incertain[i]
  /\ pc'[w] \in PcVerrouille => verrou'[j] = w
  /\ pc'[w] \in PcAvantEnvoi \/ pc'[w] \notin PcTache => envoi'[w] = ""
  /\ incertain'[j] \in {0, 1} /\ (incertain'[j] = 1 => attente'[j])
  /\ EtapeConnue(w)'

LEMMA PasDeSection ==
  ASSUME TypeComplet, InvPublication, NEW w \in Workers, DansLaSection(w)
  PROVE  InvPublication'
<1>1. JobDe(w) \in Jobs
  BY JobEnMain DEF DansLaSection
<1>2. ASSUME NEW x \in Workers \ {w}, pc[x] \in PcVerrouille
      PROVE  JobDe(x) \in Jobs \ {JobDe(w)}
  <2>1. JobDe(x) \in Jobs
    BY <1>2, JobEnMain DEF PcVerrouille, PcTache, PcTravail
  <2>2. verrou[JobDe(w)] = w \/ verrou[JobDe(w)] = Aucun
    BY DEF DansLaSection, InvPublication, SectionSerialisee
  <2> QED BY <1>2, <2>1, <2>2, SeulEnSection
<1>3. \A x \in Workers : JobDe(x)' = JobDe(x)
  BY DEF DansLaSection, JobDe
<1>4. SectionSerialisee'
  <2>1. pc'[w] \in PcVerrouille => verrou'[JobDe(w)] = w
    BY DEF DansLaSection
  <2>2. ASSUME NEW x \in Workers \ {w}, pc'[x] \in PcVerrouille
        PROVE  verrou'[JobDe(x)] = x
    <3>1. pc[x] \in PcVerrouille
      BY <2>2 DEF DansLaSection
    <3>2. verrou'[JobDe(x)] = verrou[JobDe(x)]
      BY <1>2, <3>1 DEF DansLaSection
    <3> QED BY <3>1, <3>2 DEF InvPublication, SectionSerialisee
  <2> QED BY <1>3, <2>1, <2>2 DEF SectionSerialisee
<1>5. EnvoiVide'
  BY DEF DansLaSection, InvPublication, EnvoiVide
<1>6. IncertainBorne'
  BY <1>1 DEF DansLaSection, InvPublication, IncertainBorne
<1>7. ASSUME NEW x \in Workers \ {w} PROVE EtapeConnue(x)'
  <2>1. CASE pc[x] \in PcVerrouille
    <3> DEFINE i == JobDe(x)
    <3>1. i \in Jobs \ {JobDe(w)} /\ JobDe(x)' = i
      BY <1>2, <1>3, <2>1
    <3>2. EtapeConnue(x)
      BY DEF InvPublication
    <3>3. /\ pc'[x] = pc[x] /\ envoi'[x] = envoi[x]
          /\ attente'[i] = attente[i] /\ incertain'[i] = incertain[i]
      BY <3>1 DEF DansLaSection
    <3> QED BY <3>1, <3>2, <3>3 DEF EtapeConnue
  <2>2. CASE pc[x] \notin PcVerrouille
    BY <2>2 DEF DansLaSection, EtapeConnue, PcVerrouille
  <2> QED BY <2>1, <2>2
<1> QED BY <1>4, <1>5, <1>6, <1>7 DEF InvPublication, DansLaSection

LEMMA PublicationTraitement ==
  ASSUME TypeComplet, InvPublication, NEW w \in Workers, Traiter(w)
  PROVE  InvPublication'
<1> USE DEF PcVerrouille, PcTache, PcTravail, PcAvantEnvoi
<1> DEFINE j == JobDe(w)
<1>0. pc[w] \in PcAvantEnvoi => envoi[w] = ""
  BY DEF InvPublication, EnvoiVide
<1>1. CASE DebuterTraitement(w)
  BY <1>0, <1>1, HorsSection DEF DebuterTraitement
<1>2. CASE EchouerApresPublication(w)
  BY <1>2, HorsSection DEF EchouerApresPublication, tache
<1>3. CASE EcrireResultat(w)
  BY <1>3, HorsSection DEF EcrireResultat
<1>4. CASE TerminerTraitement(w)
  BY <1>4, HorsSection DEF TerminerTraitement
<1>5. CASE PanneTardive(w)
  BY <1>5, HorsSection DEF PanneTardive, tache
<1>6. CASE AttraperAnnulation(w)
  BY <1>6, HorsSection DEF AttraperAnnulation, VerifierProprietaire
<1>7. CASE AttraperException(w)
  BY <1>7, HorsSection DEF AttraperException, VerifierProprietaire
<1>8. CASE EcrireAnnulation(w)
  BY <1>8, HorsSection DEF EcrireAnnulation, Rendre
<1>9. CASE EcrireRevue(w)
  BY <1>9, HorsSection DEF EcrireRevue, Rendre
<1>10. CASE EcrireEchec(w)
  BY <1>10, HorsSection DEF EcrireEchec, Rendre
<1> DEFINE Section == pc[w] \in PcVerrouille \cup {"verrou"}
<1>11. ASSUME Section PROVE /\ j \in Jobs /\ pc[w] \in PcTache
                            /\ incertain[j] \in {0, 1} /\ (incertain[j] = 1 => attente[j])
                            /\ EtapeConnue(w)
                            /\ pc[w] \in PcVerrouille => verrou[j] = w
  BY <1>11, JobEnMain DEF InvPublication, IncertainBorne, SectionSerialisee
<1>12. CASE PrendreVerrou(w)
  <2>1. CASE verrou[j] = Aucun /\ ~attente[j]
    <3>1. /\ verrou' = [verrou EXCEPT ![j] = w] /\ pc' = [pc EXCEPT ![w] = "capture"]
          /\ UNCHANGED <<attente, preuve, incertain, livraison, verdict, envoi>> /\ pc[w] = "verrou"
      BY <1>12, <2>1 DEF PrendreVerrou, Aller, tache
    <3> QED BY <1>0, <1>11, <2>1, <3>1, PasDeSection
            DEF DansLaSection, EtapeConnue, JobDe, TypeComplet, TypeOK, TypeTache, TypeImports
  <2>2. CASE ~(verrou[j] = Aucun /\ ~attente[j])
    BY <1>12, <2>2, HorsSection DEF PrendreVerrou, imports, tache
  <2> QED BY <2>1, <2>2
<1>13. ASSUME NEW e \in PcTache \ (PcAvantEnvoi \cup PcVerrouille), pc[w] \in PcVerrouille, Rompre(w, e)
       PROVE  InvPublication'
  <2>1. /\ verrou' = [verrou EXCEPT ![j] = Aucun] /\ pc' = [pc EXCEPT ![w] = e]
        /\ UNCHANGED <<attente, preuve, incertain, livraison, verdict, envoi>>
    BY <1>13 DEF Rompre, Aller, tache
  <2>2. pc'[w] = e /\ EtapeConnue(w)'
    BY <2>1 DEF EtapeConnue, TypeComplet, TypeOK, TypeTache
  <2>3. /\ \A x \in Workers \ {w} : pc'[x] = pc[x] /\ envoi'[x] = envoi[x]
        /\ \A i \in Jobs \ {j} : attente'[i] = attente[i] /\ verrou'[i] = verrou[i]
                                /\ incertain'[i] = incertain[i]
    BY <2>1 DEF TypeComplet, TypeOK, TypeTache, TypeImports
  <2>4. e \notin PcVerrouille /\ e \notin PcAvantEnvoi /\ e \in PcTache
    BY <1>13
  <2>6. incertain'[j] \in {0, 1} /\ (incertain'[j] = 1 => attente'[j])
    BY <1>11, <1>13, <2>1
  <2> QED BY <1>11, <1>13, <2>1, <2>2, <2>3, <2>4, <2>6, PasDeSection DEF DansLaSection
<1>14. CASE ConstaterAnnulation(w)
  BY <1>13, <1>14 DEF ConstaterAnnulation
<1>15. CASE EchouerTraitement(w)
  BY <1>13, <1>15 DEF EchouerTraitement
<1>16. CASE PersisterIntention(w)
  <2>1. /\ attente' = [attente EXCEPT ![j] = TRUE] /\ pc' = [pc EXCEPT ![w] = "envoi"]
        /\ UNCHANGED <<verrou, preuve, incertain, livraison, verdict, envoi>> /\ pc[w] = "capture"
    BY <1>16 DEF PersisterIntention, Aller, tache
  <2> QED BY <1>0, <1>11, <2>1, PasDeSection
          DEF DansLaSection, EtapeConnue, JobDe, TypeComplet, TypeOK, TypeTache, TypeImports
<1>17. CASE RienAEnvoyer(w)
  <2>1. /\ pc' = [pc EXCEPT ![w] = "publication"] /\ pc[w] = "capture"
        /\ UNCHANGED <<attente, verrou, preuve, incertain, livraison, verdict, envoi>>
    BY <1>17 DEF RienAEnvoyer, Aller, tache, imports
  <2> QED BY <1>0, <1>11, <2>1, PasDeSection
          DEF DansLaSection, EtapeConnue, JobDe, TypeComplet, TypeOK, TypeTache, TypeImports
<1>18. CASE Envoyer(w)
  <2>1. /\ incertain' = [incertain EXCEPT ![j] = @ + 1] /\ pc' = [pc EXCEPT ![w] = "publication"]
        /\ UNCHANGED <<attente, verrou, preuve, livraison, verdict>> /\ pc[w] = "envoi"
    BY <1>18 DEF Envoyer, Aller
  <2>2. incertain'[j] = 1
    <3>1. incertain[j] = 0
      BY <1>11, <2>1 DEF EtapeConnue
    <3>2. incertain'[j] = incertain[j] + 1
      BY <1>11, <2>1 DEF TypeComplet, TypeOK, TypeImports
    <3>3. 0 + 1 = 1
      OBVIOUS
    <3> QED BY <3>1, <3>2, <3>3
  <2>3. PICK r \in Envois \ {""} : envoi' = [envoi EXCEPT ![w] = r]
    BY <1>18 DEF Envoyer
  <2>4. /\ \A x \in Workers \ {w} : pc'[x] = pc[x] /\ envoi'[x] = envoi[x]
        /\ \A i \in Jobs \ {j} : attente'[i] = attente[i] /\ verrou'[i] = verrou[i]
                                /\ incertain'[i] = incertain[i]
        /\ pc'[w] = "publication" /\ envoi'[w] = r /\ attente'[j] /\ JobDe(w)' = j
    BY <1>11, <2>1, <2>3 DEF EtapeConnue, JobDe, TypeComplet, TypeOK, TypeTache, TypeImports
  <2>5. EtapeConnue(w)'
    BY <2>2, <2>4 DEF EtapeConnue
  <2> QED BY <1>11, <2>1, <2>2, <2>3, <2>4, <2>5, PasDeSection DEF DansLaSection
<1>19. CASE Publier(w)
  <2>1. /\ attente' = [attente EXCEPT ![j] = envoi[w] = "ambigu"]
        /\ incertain' = [incertain EXCEPT ![j] = IF envoi[w] \in {"", "ambigu"} THEN @ ELSE @ - 1]
        /\ verrou' = [verrou EXCEPT ![j] = Aucun] /\ pc' = [pc EXCEPT ![w] = "bilan"]
        /\ UNCHANGED <<livraison, verdict, envoi>> /\ pc[w] = "publication"
    BY <1>19 DEF Publier, Aller, tache
  <2>2. attente'[j] <=> envoi[w] = "ambigu"
    BY <1>11, <2>1 DEF TypeComplet, TypeOK, TypeImports
  <2>3. incertain'[j] = IF envoi[w] = "ambigu" THEN 1 ELSE 0
    <3>1. incertain[j] = IF envoi[w] = "" THEN 0 ELSE 1
      BY <1>11, <2>1 DEF EtapeConnue
    <3>2. incertain'[j] = IF envoi[w] \in {"", "ambigu"} THEN incertain[j] ELSE incertain[j] - 1
      BY <1>11, <2>1 DEF TypeComplet, TypeOK, TypeImports
    <3>3. CASE envoi[w] \in {"", "ambigu"}
      BY <3>1, <3>2, <3>3
    <3>4. CASE envoi[w] \notin {"", "ambigu"}
      <4>1. incertain[j] = 1 /\ incertain'[j] = incertain[j] - 1
        BY <3>1, <3>2, <3>4
      <4>2. incertain'[j] = 1 - 1
        BY <4>1
      <4>3. 1 - 1 = 0
        OBVIOUS
      <4> QED BY <3>4, <4>2, <4>3
    <3> QED BY <3>3, <3>4
  <2>4. pc'[w] = "bilan" /\ EtapeConnue(w)'
    BY <2>1 DEF EtapeConnue, TypeComplet, TypeOK, TypeTache
  <2>5. \A i \in Jobs \ {j} : attente'[i] = attente[i] /\ verrou'[i] = verrou[i]
                              /\ incertain'[i] = incertain[i]
    BY <2>1 DEF TypeComplet, TypeOK, TypeImports
  <2>6. \A x \in Workers \ {w} : pc'[x] = pc[x] /\ envoi'[x] = envoi[x]
    BY <2>1 DEF TypeComplet, TypeOK, TypeTache
  <2>7. incertain'[j] \in {0, 1} /\ (incertain'[j] = 1 => attente'[j])
    BY <2>2, <2>3
  <2> QED BY <1>11, <2>1, <2>4, <2>5, <2>6, <2>7, PasDeSection DEF DansLaSection
<1> QED BY <1>1, <1>2, <1>3, <1>4, <1>5, <1>6, <1>7, <1>8, <1>9, <1>10, <1>12, <1>14, <1>15,
           <1>16, <1>17, <1>18, <1>19 DEF Traiter

(* The steps of a reconciler leave imports and tasks alone.                *)
LEMMA PublicationReconcilier ==
  ASSUME TypeComplet, InvPublication, NEW w \in Workers,
         Reconcilier(w) \/ LireVersions(w) \/ SauterBalayage(w) \/ Relancer(w) \/ InterrompreBalayage(w)
  PROVE  InvPublication'
<1>1. ReconcilieHors(w)
  BY ReconcilierHors
<1>2. CASE UNCHANGED pc
  BY <1>1, <1>2, PublicationIntacte DEF ReconcilieHors
<1>3. ASSUME NEW e \in Pcs \ PcTache, Aller(w, e) PROVE InvPublication'
  <2>1. envoi'[w] = "" /\ UNCHANGED <<livraison, envoi, imports>>
    BY <1>1 DEF ReconcilieHors, InvPublication, EnvoiVide, tache
  <2>2. e \notin PcVerrouille
    BY <1>3 DEF PcVerrouille, PcTache, PcTravail
  <2> QED BY <1>3, <2>1, <2>2, HorsSection
<1> QED BY <1>1, <1>2, <1>3 DEF ReconcilieHors

LEMMA PublicationAlea ==
  ASSUME TypeComplet, InvPublication, NEW w \in Workers, Tuer(w) \/ PanneAppel(w)
  PROVE  InvPublication'
<1>1. CASE Tuer(w)
  <2>1. /\ pc' = [pc EXCEPT ![w] = "arret"] /\ envoi' = [envoi EXCEPT ![w] = ""]
        /\ livraison' = [livraison EXCEPT ![w] = Aucun]
        /\ verrou' = [i \in Jobs |-> IF verrou[i] = w THEN Aucun ELSE verrou[i]]
        /\ UNCHANGED <<attente, preuve, incertain>>
    BY <1>1 DEF Tuer, Aller
  <2>2. pc'[w] = "arret" /\ envoi'[w] = ""
    BY <2>1 DEF TypeComplet, TypeOK, TypeTache
  <2>3. ASSUME NEW x \in Workers \ {w}
        PROVE  pc'[x] = pc[x] /\ envoi'[x] = envoi[x] /\ JobDe(x)' = JobDe(x)
    BY <2>1 DEF JobDe, TypeComplet, TypeOK, TypeTache
  <2>4. SectionSerialisee'
    <3>1. pc'[w] \notin PcVerrouille
      BY <2>2 DEF PcVerrouille
    <3>2. ASSUME NEW x \in Workers \ {w}, pc'[x] \in PcVerrouille PROVE verrou'[JobDe(x)] = x
      <4>1. verrou[JobDe(x)] = x /\ JobDe(x) \in Jobs
        BY <2>3, <3>2, JobEnMain DEF InvPublication, SectionSerialisee, PcVerrouille, PcTache, PcTravail
      <4> QED BY <2>1, <4>1
    <3> QED BY <2>3, <3>1, <3>2 DEF SectionSerialisee
  <2>5. EnvoiVide'
    BY <2>2, <2>3 DEF InvPublication, EnvoiVide
  <2>6. IncertainBorne'
    BY <2>1 DEF InvPublication, IncertainBorne
  <2>7. ASSUME NEW x \in Workers PROVE EtapeConnue(x)'
    BY <2>1, <2>2, <2>3 DEF InvPublication, EtapeConnue
  <2> QED BY <2>4, <2>5, <2>6, <2>7 DEF InvPublication
<1>2. CASE PanneAppel(w)
  <2>1. PICK e \in {"relancer", "enterrer", "libere"} : Aller(w, e)
    BY <1>2 DEF PanneAppel, ExceptionEchappee, ClotureRatee
  <2>2. UNCHANGED <<imports, livraison, envoi>>
    BY <1>2 DEF PanneAppel, ExceptionEchappee, ClotureRatee, tache
  <2> QED BY <2>1, <2>2, HorsSection DEF PcVerrouille, PcTache, PcTravail, PcAvantEnvoi
<1> QED BY <1>1, <1>2

LEMMA PublicationPas == TypeComplet /\ InvPublication /\ [Next]_vars => InvPublication'
<1> SUFFICES ASSUME TypeComplet, InvPublication, [Next]_vars PROVE InvPublication'
  OBVIOUS
<1>1. ASSUME NEW w \in Workers, PasWorker(w) \/ Balayer(w) \/ AleaWorker(w) PROVE InvPublication'
  BY <1>1, PublicationSuite, PublicationTraitement, PublicationReconcilier, PublicationAlea
     DEF PasWorker, Avancer, Balayer, AleaWorker
<1>2. CASE AutrePas
  BY <1>2, AutrePasHors, PublicationIntacte
<1> QED BY <1>1, <1>2 DEF Next, AutrePas

(* The intention is durable before the first byte leaves, and no second    *)
(* upload starts while the outcome of one is recorded nowhere.             *)
THEOREM JamaisDeRenvoiAveugle == Spec => []PasDeRenvoiAveugle
<1>1. Init => InvPublication
  BY InitPublication
<1>2. TypeComplet /\ InvPublication /\ [Next]_vars => InvPublication'
  BY PublicationPas
<1>3. InvPublication => PasDeRenvoiAveugle
  BY DEF InvPublication, IncertainBorne, PasDeRenvoiAveugle
<1> QED BY <1>1, <1>2, <1>3, TypeCorrect, PTL DEF Spec

(* No two workers ever are in the serialised section of one import.        *)
THEOREM UnSeulPublie == Spec => []SectionSerialisee
<1>1. Init => InvPublication
  BY InitPublication
<1>2. TypeComplet /\ InvPublication /\ [Next]_vars => InvPublication'
  BY PublicationPas
<1>3. InvPublication => SectionSerialisee
  BY DEF InvPublication
<1> QED BY <1>1, <1>2, <1>3, TypeCorrect, PTL DEF Spec

----------------------------------------------------------------------------
(* The verdict.                                                             *)

InvEtaye == FinProuvee /\ \A w \in Workers : VerdictEtaye(w)

Bons == {"completed", "needs_review"}

LEMMA InitVerdict == Init => InvEtaye
<1> SUFFICES ASSUME Init PROVE InvEtaye
  OBVIOUS
<1>1. \A w \in Workers : pc[w] = "depart" /\ verdict[w] = ""
  BY DEF Init, InitFile
<1>2. \A j \in Jobs : statut[j] = "absent"
  BY DEF Init, InitFile
<1>3. FinProuvee
  BY <1>2 DEF FinProuvee
<1>4. \A w \in Workers : VerdictEtaye(w)
  BY <1>1 DEF VerdictEtaye, PcTache, PcTravail
<1> QED BY <1>3, <1>4 DEF InvEtaye

(* What a step of w must respect for the others, and of itself.            *)
PasEtaye(w) ==
  /\ UNCHANGED <<attente, preuve>>
  /\ \A x \in Workers \ {w} :
       pc'[x] = pc[x] /\ livraison'[x] = livraison[x] /\ verdict'[x] = verdict[x]
  /\ \A j \in Jobs :
       /\ par'[j] \in {par[j], Aucun, w}
       /\ statut'[j] = statut[j] \/ statut'[j] \notin Bons \/ Etayee(j)

LEMMA PasEtayeSuffit ==
  ASSUME TypeComplet, InvEtaye, StockageConfigure, NEW w \in Workers, PasEtaye(w), VerdictEtaye(w)'
  PROVE  InvEtaye'
<1>1. \A j \in Jobs : Etayee(j)' <=> Etayee(j)
  BY DEF PasEtaye, Etayee
<1>2. FinProuvee'
  BY <1>1 DEF InvEtaye, FinProuvee, PasEtaye, Etayee, Bons
<1>3. ASSUME NEW x \in Workers \ {w} PROVE VerdictEtaye(x)'
  <2>1. pc'[x] = pc[x] /\ JobDe(x)' = JobDe(x) /\ verdict'[x] = verdict[x] /\ VerdictEtaye(x)
    BY DEF PasEtaye, InvEtaye, JobDe
  <2>2. CASE pc[x] \notin PcTache
    BY <2>1, <2>2 DEF VerdictEtaye
  <2>3. CASE pc[x] \in PcTache
    <3>1. JobDe(x) \in Jobs
      BY <2>3, JobEnMain
    <3>2. par'[JobDe(x)] = x => par[JobDe(x)] = x
      BY <3>1, HypAucun DEF PasEtaye
    <3> QED BY <1>1, <2>1, <3>1, <3>2 DEF VerdictEtaye, PasEtaye
  <2> QED BY <2>2, <2>3
<1> QED BY <1>2, <1>3 DEF InvEtaye

(* The verdict of w is unchanged, and its stage before or after it too.    *)
LEMMA MemeVerdict ==
  ASSUME TypeComplet, InvEtaye, NEW w \in Workers, NEW e \in PcTache \ {"excRevue"}, Aller(w, e),
         pc[w] \in PcTache, e \in PcSansVerdict => pc[w] \in PcSansVerdict,
         UNCHANGED <<attente, preuve, livraison, verdict>>,
         par'[JobDe(w)] \in {par[JobDe(w)], Aucun} \/ pc[w] \in PcSansVerdict
  PROVE  VerdictEtaye(w)'
<1>1. pc'[w] = e /\ JobDe(w)' = JobDe(w) /\ verdict'[w] = verdict[w] /\ VerdictEtaye(w)
  BY DEF Aller, InvEtaye, JobDe, TypeComplet, TypeOK, TypeTache
<1>2. par'[JobDe(w)] = w => par[JobDe(w)] = w \/ verdict[w] = ""
  BY <1>1, HypAucun DEF VerdictEtaye
<1> QED BY <1>1, <1>2 DEF VerdictEtaye, Etayee

(* A new verdict that owes nothing to the import.                          *)
LEMMA AutreVerdict ==
  ASSUME TypeComplet, NEW w \in Workers, NEW e \in PcTache \ (PcSansVerdict \cup {"excRevue"}),
         Aller(w, e), verdict'[w] \notin Bons
  PROVE  VerdictEtaye(w)'
BY DEF Aller, VerdictEtaye, Bons, TypeComplet, TypeOK, TypeTache

LEMMA VerdictSuite ==
  ASSUME TypeComplet, InvEtaye, StockageConfigure, NEW w \in Workers,
         SuiteDeBoucle(w) \/ TeteDeBoucle(w)
  PROVE  InvEtaye'
<1> DEFINE j == JobDe(w)
<1>0. VerdictEtaye(w)
  BY DEF InvEtaye
<1>1. CASE revendiquer_tache(w)
  <2>1. PasEtaye(w)
    BY <1>1 DEF revendiquer_tache, PasEtaye, imports, registre, Aller, TypeComplet, TypeOK, TypeTache
  <2>2. verdict'[w] = "" /\ pc'[w] \in {"revendique", "boucle"}
    BY <1>0, <1>1 DEF revendiquer_tache, Aller, VerdictEtaye, PcSansVerdict, PcAvantEnvoi,
       TypeComplet, TypeOK, TypeTache
  <2> QED BY <2>1, <2>2, PasEtayeSuffit DEF VerdictEtaye
<1>2. CASE marquer_job_claim(w)
  <2>1. PasEtaye(w)
    BY <1>2 DEF marquer_job_claim, PasEtaye, Bons, imports, tache, Aller, TypeComplet, TypeOK,
       TypeTache, TypeRegistre
  <2>2. VerdictEtaye(w)'
    BY <1>2, MemeVerdict DEF marquer_job_claim, PcSansVerdict, PcAvantEnvoi, PcTache, PcTravail,
       imports, tache
  <2> QED BY <2>1, <2>2, PasEtayeSuffit
<1>3. CASE AcquitterRefus(w) \/ Decider(w) \/ ack_task(w) \/ retry_task(w)
  <2>1. PasEtaye(w)
    BY <1>3 DEF AcquitterRefus, Decider, ack_task, retry_task, PasEtaye, imports, registre, tache,
       Aller, TypeComplet, TypeOK, TypeTache
  <2>2. VerdictEtaye(w)'
    BY <1>3, MemeVerdict DEF AcquitterRefus, Decider, SuiteDuVerdict, ack_task, retry_task,
       PcSansVerdict, PcAvantEnvoi, PcTache, PcTravail, imports, registre, tache
  <2> QED BY <2>1, <2>2, PasEtayeSuffit
<1>4. CASE NoterRelance(w)
  <2>1. PasEtaye(w)
    BY <1>4 DEF NoterRelance, PasEtaye, Bons, imports, tache, Aller, TypeComplet, TypeOK, TypeTache,
       TypeRegistre
  <2>2. VerdictEtaye(w)'
    BY <1>4, MemeVerdict DEF NoterRelance, PcSansVerdict, PcAvantEnvoi, PcTache, PcTravail, imports,
       tache
  <2> QED BY <2>1, <2>2, PasEtayeSuffit
<1>5. CASE deadletter_task(w)
  <2>1. PasEtaye(w)
    BY <1>5 DEF deadletter_task, PasEtaye, imports, registre, Aller, TypeComplet, TypeOK, TypeTache
  <2>2. CASE PeutClore(w)
    <3>1. verdict'[w] = "failed" /\ Aller(w, "clore")
      BY <1>5, <2>2 DEF deadletter_task, TypeComplet, TypeOK, TypeTache
    <3>2. VerdictEtaye(w)'
      BY <3>1, AutreVerdict DEF PcSansVerdict, PcAvantEnvoi, PcTache, PcTravail, Bons
    <3> QED BY <2>1, <3>2, PasEtayeSuffit
  <2>3. CASE ~PeutClore(w)
    <3>1. VerdictEtaye(w)'
      BY <1>5, <2>3, MemeVerdict DEF deadletter_task, PcSansVerdict, PcAvantEnvoi, PcTache, PcTravail,
         imports, registre
    <3> QED BY <2>1, <3>1, PasEtayeSuffit
  <2> QED BY <2>2, <2>3
<1>6. CASE terminer_job(w)
  <2>1. j \in Jobs
    BY <1>6, JobEnMain DEF terminer_job, PcTache, PcTravail
  <2>2. PeutTerminer(w) /\ verdict[w] \in Bons => Etayee(j)
    BY <1>0, <1>6 DEF terminer_job, PeutTerminer, VerdictEtaye, Bons, PcTache, PcTravail
  <2>3. PasEtaye(w)
    BY <1>6, <2>1, <2>2 DEF terminer_job, PasEtaye, imports, tache, Aller, TypeComplet, TypeOK,
       TypeTache, TypeRegistre
  <2>4. VerdictEtaye(w)'
    <3>1. par'[j] \in {par[j], Aucun}
      BY <1>6, <2>1 DEF terminer_job, TypeComplet, TypeOK, TypeRegistre
    <3> QED BY <1>6, <3>1, MemeVerdict DEF terminer_job, PcSansVerdict, PcAvantEnvoi, PcTache,
            PcTravail, imports, tache
  <2> QED BY <2>3, <2>4, PasEtayeSuffit
<1>7. CASE liberer_revendication(w)
  <2>1. PasEtaye(w)
    BY <1>7 DEF liberer_revendication, PasEtaye, imports, registre, Aller, TypeComplet, TypeOK,
       TypeTache
  <2>2. verdict'[w] = "" /\ pc'[w] = "boucle"
    BY <1>7 DEF liberer_revendication, Aller, TypeComplet, TypeOK, TypeTache
  <2> QED BY <2>1, <2>2, PasEtayeSuffit DEF VerdictEtaye
<1>8. CASE process_retry_queue(w)
  <2>1. PasEtaye(w) /\ UNCHANGED <<pc, tache, registre, imports>>
    BY <1>8 DEF process_retry_queue, PasEtaye, imports, registre, tache
  <2>2. VerdictEtaye(w)'
    BY <1>0, <2>1 DEF VerdictEtaye, Etayee, JobDe, imports, registre, tache
  <2> QED BY <2>1, <2>2, PasEtayeSuffit
<1>9. CASE dequeue_task(w)
  <2>1. PasEtaye(w)
    BY <1>9 DEF dequeue_task, PasEtaye, imports, registre, Aller, TypeComplet, TypeOK, TypeTache
  <2>2. verdict'[w] = "" /\ pc'[w] = "depile"
    BY <1>0, <1>9 DEF dequeue_task, Aller, VerdictEtaye, PcTache, PcTravail, TypeComplet, TypeOK,
       TypeTache
  <2> QED BY <2>1, <2>2, PasEtayeSuffit DEF VerdictEtaye
<1> QED BY <1>1, <1>2, <1>3, <1>4, <1>5, <1>6, <1>7, <1>8, <1>9 DEF SuiteDeBoucle, TeteDeBoucle

LEMMA VerdictTraitement ==
  ASSUME TypeComplet, InvEtaye, StockageConfigure, NEW w \in Workers, Traiter(w)
  PROVE  InvEtaye'
<1> DEFINE j == JobDe(w)
<1> USE DEF PcSansVerdict, PcAvantEnvoi, PcTache, PcTravail
<1>0. VerdictEtaye(w)
  BY DEF InvEtaye
<1>1. j \in Jobs
  BY JobEnMain DEF Traiter, DebuterTraitement, PrendreVerrou, ConstaterAnnulation, EchouerTraitement,
     PcVerrouille, PersisterIntention, RienAEnvoyer, Envoyer, Publier, EchouerApresPublication,
     EcrireResultat, TerminerTraitement, PanneTardive, AttraperAnnulation, AttraperException,
     EcrireAnnulation, EcrireRevue, EcrireEchec
<1>2. CASE DebuterTraitement(w)
  <2>1. PasEtaye(w)
    BY <1>2 DEF DebuterTraitement, PasEtaye, Bons, imports, Aller, TypeComplet, TypeOK, TypeTache,
       TypeRegistre
  <2>2. CASE EstProprietaireActif(w)
    BY <1>2, <2>1, <2>2, MemeVerdict, PasEtayeSuffit DEF DebuterTraitement, imports
  <2>3. CASE ~EstProprietaireActif(w)
    <3>1. verdict'[w] = "stale_worker" /\ Aller(w, "rendu")
      BY <1>2, <2>3 DEF DebuterTraitement, TypeComplet, TypeOK, TypeTache
    <3> QED BY <2>1, <3>1, AutreVerdict, PasEtayeSuffit DEF Bons
  <2> QED BY <2>2, <2>3
<1>3. ASSUME NEW e \in PcTache \ {"excRevue"}, pc[w] \in PcTache, Aller(w, e),
             e \in PcSansVerdict => pc[w] \in PcSansVerdict,
             UNCHANGED <<registre, attente, preuve, livraison, verdict>>
      PROVE  InvEtaye'
  <2>1. PasEtaye(w)
    BY <1>3 DEF PasEtaye, registre, Aller, TypeComplet, TypeOK, TypeTache
  <2>2. VerdictEtaye(w)'
    BY <1>3, MemeVerdict DEF registre
  <2> QED BY <2>1, <2>2, PasEtayeSuffit
<1>4. CASE PrendreVerrou(w)
  BY <1>3, <1>4 DEF PrendreVerrou, tache
<1>5. CASE ConstaterAnnulation(w) \/ EchouerTraitement(w)
  BY <1>3, <1>5 DEF ConstaterAnnulation, EchouerTraitement, Rompre, PcVerrouille, tache
<1>6. CASE RienAEnvoyer(w) \/ Envoyer(w)
  BY <1>3, <1>6 DEF RienAEnvoyer, Envoyer, imports, tache
<1>7. CASE EchouerApresPublication(w) \/ PanneTardive(w)
  BY <1>3, <1>7 DEF EchouerApresPublication, PanneTardive, imports, tache
<1>8. CASE PersisterIntention(w) \/ Publier(w)
  <2>1. /\ UNCHANGED <<statut, par, livraison, verdict>>
        /\ \A i \in Jobs \ {j} : attente'[i] = attente[i] /\ preuve'[i] = preuve[i]
        /\ par[j] = w /\ statut[j] = "running"
    BY <1>8 DEF PersisterIntention, Publier, PeutPublier, EstProprietaireActif, registre, tache,
       TypeComplet, TypeOK, TypeImports
  <2>2. \A x \in Workers \ {w} : pc'[x] = pc[x]
    BY <1>8 DEF PersisterIntention, Publier, Aller, TypeComplet, TypeOK, TypeTache
  <2>3. pc'[w] \in {"envoi", "bilan"} /\ verdict[w] = ""
    BY <1>0, <1>8 DEF PersisterIntention, Publier, Aller, VerdictEtaye, TypeComplet, TypeOK, TypeTache
  <2>4. FinProuvee'
    BY <2>1 DEF InvEtaye, FinProuvee
  <2>5. ASSUME NEW x \in Workers \ {w} PROVE VerdictEtaye(x)'
    <3>1. VerdictEtaye(x) /\ JobDe(x)' = JobDe(x)
      BY <2>1 DEF InvEtaye, JobDe
    <3>2. CASE pc[x] \in PcTache /\ par[JobDe(x)] = x
      <4>1. JobDe(x) \in Jobs \ {j}
        BY <2>1, <3>2, JobEnMain
      <4> QED BY <2>1, <2>2, <3>1, <4>1 DEF VerdictEtaye, Etayee
    <3>3. CASE ~(pc[x] \in PcTache /\ par[JobDe(x)] = x)
      BY <2>1, <2>2, <3>1, <3>3 DEF VerdictEtaye
    <3> QED BY <3>2, <3>3
  <2>6. VerdictEtaye(w)'
    BY <2>1, <2>3 DEF VerdictEtaye
  <2> QED BY <2>4, <2>5, <2>6 DEF InvEtaye
<1>9. CASE EcrireResultat(w)
  <2>1. CASE ~EstProprietaireActif(w)
    <3>1. verdict'[w] = "stale_worker" /\ Aller(w, "rendu")
      BY <1>9, <2>1 DEF EcrireResultat, TypeComplet, TypeOK, TypeTache
    <3>2. PasEtaye(w)
      BY <1>9, <2>1 DEF EcrireResultat, PasEtaye, imports, Aller, TypeComplet, TypeOK, TypeTache
    <3> QED BY <3>1, <3>2, AutreVerdict, PasEtayeSuffit DEF Bons
  <2>2. CASE EstProprietaireActif(w) /\ statut[j] = "cancelled"
    BY <1>3, <1>9, <2>2 DEF EcrireResultat, imports, registre
  <2>3. CASE EstProprietaireActif(w) /\ statut[j] # "cancelled"
    <3>1. PICK f \in StatutsFinaux(j) :
            /\ statut' = [statut EXCEPT ![j] = StatutEcrit(f)]
            /\ verdict' = [verdict EXCEPT ![w] = f]
            /\ Aller(w, "apres")
      BY <1>9, <2>3 DEF EcrireResultat
    <3>2. f \in Bons => Etayee(j)
      BY <3>1 DEF StatutsFinaux, Bons, Etayee
    <3>3. UNCHANGED <<par, attente, preuve, livraison>>
      BY <1>9 DEF EcrireResultat, imports
    <3>4. verdict'[w] = f /\ pc'[w] = "apres" /\ JobDe(w)' = j
      BY <3>1, <3>3 DEF Aller, JobDe, TypeComplet, TypeOK, TypeTache
    <3>5. VerdictEtaye(w)'
      BY <3>2, <3>3, <3>4 DEF VerdictEtaye, Etayee, Bons
    <3>6. StatutEcrit(f) \in Bons => Etayee(j)
      BY <3>2 DEF StatutEcrit, Bons
    <3>7. \A i \in Jobs : statut'[i] = statut[i] \/ statut'[i] \notin Bons \/ Etayee(i)
      BY <3>1, <3>6 DEF TypeComplet, TypeOK, TypeRegistre
    <3>8. PasEtaye(w)
      BY <3>1, <3>3, <3>7 DEF PasEtaye, Aller, TypeComplet, TypeOK, TypeTache
    <3> QED BY <3>5, <3>8, PasEtayeSuffit
  <2> QED BY <2>1, <2>2, <2>3
<1>10. ASSUME NEW e \in PcTache \ (PcSansVerdict \cup {"excRevue"}), Aller(w, e),
              NEW v \in Verdicts \ Bons, verdict' = [verdict EXCEPT ![w] = v],
              UNCHANGED <<attente, preuve, livraison, par>>,
              \A i \in Jobs : statut'[i] = statut[i] \/ statut'[i] \notin Bons \/ Etayee(i)
       PROVE  InvEtaye'
  <2>1. PasEtaye(w)
    BY <1>10 DEF PasEtaye, Aller, TypeComplet, TypeOK, TypeTache
  <2>2. verdict'[w] = v
    BY <1>10 DEF TypeComplet, TypeOK, TypeTache
  <2> QED BY <1>10, <2>1, <2>2, AutreVerdict, PasEtayeSuffit
<1>11. CASE TerminerTraitement(w)
  <2>1. CASE UNCHANGED verdict
    BY <1>3, <1>11, <2>1 DEF TerminerTraitement, imports
  <2>2. CASE verdict' = [verdict EXCEPT ![w] = "stale_worker"] /\ Aller(w, "rendu")
    BY <1>10, <1>11, <2>2 DEF TerminerTraitement, imports, registre, Verdicts, Bons
  <2> QED BY <1>11, <2>1, <2>2 DEF TerminerTraitement
<1>12. CASE AttraperAnnulation(w)
  <2>1. CASE EstProprietaireActif(w)
    BY <1>3, <1>12, <2>1 DEF AttraperAnnulation, VerifierProprietaire, imports
  <2>2. CASE ~EstProprietaireActif(w)
    BY <1>10, <1>12, <2>2 DEF AttraperAnnulation, VerifierProprietaire, imports, registre, Verdicts, Bons
  <2> QED BY <2>1, <2>2
<1>13. CASE AttraperException(w)
  <2>1. CASE EstProprietaireActif(w) /\ attente[j]
    <3>1. Aller(w, "excRevue") /\ UNCHANGED <<registre, imports, livraison, verdict>> /\ pc[w] = "exception"
      BY <1>13, <2>1 DEF AttraperException, VerifierProprietaire
    <3>2. PasEtaye(w)
      BY <3>1 DEF PasEtaye, imports, registre, Aller, TypeComplet, TypeOK, TypeTache
    <3>3. /\ pc'[w] = "excRevue" /\ JobDe(w)' = j /\ verdict'[w] = verdict[w]
          /\ UNCHANGED <<par, attente, preuve>>
      BY <3>1 DEF Aller, JobDe, imports, registre, TypeComplet, TypeOK, TypeTache
    <3>4. VerdictEtaye(w)'
      BY <1>0, <2>1, <3>1, <3>3 DEF VerdictEtaye, Etayee
    <3> QED BY <3>2, <3>4, PasEtayeSuffit
  <2>2. CASE EstProprietaireActif(w) /\ ~attente[j]
    BY <1>3, <1>13, <2>2 DEF AttraperException, VerifierProprietaire, imports
  <2>3. CASE ~EstProprietaireActif(w)
    BY <1>10, <1>13, <2>3 DEF AttraperException, VerifierProprietaire, imports, registre, Verdicts, Bons
  <2> QED BY <2>1, <2>2, <2>3
<1>14. CASE EcrireAnnulation(w)
  <2>1. \A i \in Jobs : statut'[i] = statut[i] \/ statut'[i] \notin Bons
    BY <1>14 DEF EcrireAnnulation, Bons, TypeComplet, TypeOK, TypeRegistre
  <2> QED BY <1>10, <1>14, <2>1 DEF EcrireAnnulation, Rendre, imports, Verdicts, Bons
<1>15. CASE EcrireRevue(w)
  <2>1. CASE par[j] = w /\ statut[j] # "cancelled"
    <3>1. Etayee(j)
      BY <1>0, <1>15, <2>1 DEF EcrireRevue, VerdictEtaye, Etayee
    <3>2. /\ statut' = [statut EXCEPT ![j] = "needs_review"]
          /\ verdict' = [verdict EXCEPT ![w] = "needs_review"] /\ Aller(w, "rendu")
          /\ UNCHANGED <<par, attente, preuve, livraison>>
      BY <1>15, <2>1 DEF EcrireRevue, Rendre, imports
    <3>3. PasEtaye(w)
      BY <3>1, <3>2 DEF PasEtaye, Aller, TypeComplet, TypeOK, TypeTache, TypeRegistre
    <3>4. VerdictEtaye(w)'
      BY <3>1, <3>2 DEF VerdictEtaye, Etayee, JobDe, Aller, TypeComplet, TypeOK, TypeTache
    <3> QED BY <3>3, <3>4, PasEtayeSuffit
  <2>2. CASE par[j] = w /\ statut[j] = "cancelled"
    BY <1>10, <1>15, <2>2 DEF EcrireRevue, Rendre, imports, Verdicts, Bons
  <2>3. CASE par[j] # w
    <3>1. /\ UNCHANGED <<statut, par, attente, preuve, livraison>> /\ Aller(w, "rendu")
          /\ \A x \in Workers \ {w} : verdict'[x] = verdict[x]
      BY <1>15, <2>3 DEF EcrireRevue, Rendre, imports, TypeComplet, TypeOK, TypeTache
    <3>2. PasEtaye(w)
      BY <3>1 DEF PasEtaye, Aller, TypeComplet, TypeOK, TypeTache
    <3>3. VerdictEtaye(w)'
      BY <2>3, <3>1 DEF VerdictEtaye, JobDe, Aller, TypeComplet, TypeOK, TypeTache
    <3> QED BY <3>2, <3>3, PasEtayeSuffit
  <2> QED BY <2>1, <2>2, <2>3
<1>16. CASE EcrireEchec(w)
  <2>1. \A i \in Jobs : statut'[i] = statut[i] \/ statut'[i] \notin Bons
    BY <1>16 DEF EcrireEchec, Bons, TypeComplet, TypeOK, TypeRegistre
  <2> QED BY <1>10, <1>16, <2>1 DEF EcrireEchec, Rendre, imports, Verdicts, Bons
<1> QED BY <1>2, <1>4, <1>5, <1>6, <1>7, <1>8, <1>9, <1>11, <1>12, <1>13, <1>14, <1>15, <1>16 DEF Traiter

(* A step that takes nothing in hand and makes no good end.                *)
LEMMA VerdictRecule ==
  ASSUME TypeComplet, InvEtaye, StockageConfigure, RegistreRecule, UNCHANGED <<imports, tache>>,
         NEW w \in Workers,
         UNCHANGED pc \/ (pc[w] \notin PcTache /\ \E e \in Pcs \ PcTache : Aller(w, e))
  PROVE  InvEtaye'
<1>1. PasEtaye(w)
  BY DEF PasEtaye, RegistreRecule, Bons, imports, tache, Aller, TypeComplet, TypeOK, TypeTache
<1>2. CASE UNCHANGED pc
  <2>1. /\ VerdictEtaye(w) /\ JobDe(w)' = JobDe(w)
        /\ pc'[w] = pc[w] /\ verdict'[w] = verdict[w] /\ UNCHANGED <<attente, preuve>>
    BY <1>2 DEF InvEtaye, JobDe, imports, tache
  <2>2. CASE pc[w] \in PcTache
    <3>1. par'[JobDe(w)] = w => par[JobDe(w)] = w
      BY <2>2, JobEnMain, HypAucun DEF RegistreRecule
    <3>2. VerdictEtaye(w)'
      BY <2>1, <2>2, <3>1 DEF VerdictEtaye, Etayee
    <3> QED BY <1>1, <3>2, PasEtayeSuffit
  <2>3. CASE pc[w] \notin PcTache
    <3>1. VerdictEtaye(w)'
      BY <2>1, <2>3 DEF VerdictEtaye
    <3> QED BY <1>1, <3>1, PasEtayeSuffit
  <2> QED BY <2>2, <2>3
<1>3. ASSUME pc[w] \notin PcTache, NEW e \in Pcs \ PcTache, Aller(w, e) PROVE InvEtaye'
  <2>1. pc'[w] = e /\ verdict'[w] = ""
    BY <1>3 DEF InvEtaye, VerdictEtaye, Aller, tache, TypeComplet, TypeOK, TypeTache
  <2> QED BY <1>1, <1>3, <2>1, PasEtayeSuffit DEF VerdictEtaye
<1> QED BY <1>2, <1>3

LEMMA VerdictAlea ==
  ASSUME TypeComplet, InvEtaye, StockageConfigure, NEW w \in Workers, Tuer(w) \/ PanneAppel(w)
  PROVE  InvEtaye'
<1>1. CASE Tuer(w)
  <2>1. PasEtaye(w)
    BY <1>1 DEF Tuer, PasEtaye, registre, Aller, TypeComplet, TypeOK, TypeTache
  <2>2. pc'[w] = "arret" /\ verdict'[w] = ""
    BY <1>1 DEF Tuer, Aller, TypeComplet, TypeOK, TypeTache
  <2> QED BY <2>1, <2>2, PasEtayeSuffit DEF VerdictEtaye, PcTache, PcTravail
<1>2. CASE PanneAppel(w)
  <2>1. PICK e \in {"relancer", "enterrer", "libere"} : Aller(w, e)
    BY <1>2 DEF PanneAppel, ExceptionEchappee, ClotureRatee
  <2>2. PasEtaye(w)
    BY <1>2, <2>1 DEF PanneAppel, ExceptionEchappee, ClotureRatee, PasEtaye, imports, registre, tache,
       Aller, TypeComplet, TypeOK, TypeTache
  <2>3. CASE ExceptionEchappee(w)
    <3>1. verdict'[w] = "failed"
      BY <2>3 DEF ExceptionEchappee, TypeComplet, TypeOK, TypeTache
    <3> QED BY <2>1, <2>2, <3>1, AutreVerdict, PasEtayeSuffit
            DEF PcSansVerdict, PcAvantEnvoi, PcTache, PcTravail, Bons
  <2>4. CASE ClotureRatee(w)
    BY <2>1, <2>2, <2>4, MemeVerdict, PasEtayeSuffit
       DEF ClotureRatee, PcSansVerdict, PcAvantEnvoi, PcTache, PcTravail, imports, registre, tache
  <2> QED BY <1>2, <2>3, <2>4 DEF PanneAppel
<1> QED BY <1>1, <1>2

LEMMA VerdictPas == TypeComplet /\ InvVerdict /\ [Next]_vars => InvVerdict'
<1> SUFFICES ASSUME TypeComplet, InvEtaye, StockageConfigure, [Next]_vars PROVE InvEtaye'
  BY DEF InvVerdict, InvEtaye
<1>1. ASSUME NEW w \in Workers, Reconcilier(w) \/ LireVersions(w) \/ SauterBalayage(w)
                                 \/ Relancer(w) \/ InterrompreBalayage(w)
      PROVE  InvEtaye'
  BY <1>1, ReconcilierHors, ReconcilierRecule, VerdictRecule DEF ReconcilieHors
<1>2. ASSUME NEW w \in Workers, PasWorker(w) \/ Balayer(w) \/ AleaWorker(w) PROVE InvEtaye'
  BY <1>1, <1>2, VerdictSuite, VerdictTraitement, VerdictAlea DEF PasWorker, Avancer, Balayer, AleaWorker
<1>3. CASE AutrePas
  <2>1. RegistreRecule /\ UNCHANGED <<imports, pc, tache>>
    BY <1>3, AutrePasRecule, AutrePasHors
  <2>2. CASE Workers = {}
    <3>1. FinProuvee'
      BY <2>1 DEF InvEtaye, FinProuvee, RegistreRecule, imports
    <3> QED BY <2>2, <3>1 DEF InvEtaye
  <2>3. CASE Workers # {}
    BY <2>1, <2>3, VerdictRecule
  <2> QED BY <2>2, <2>3
<1> QED BY <1>2, <1>3 DEF Next, AutrePas

(* With an object store, a job ends well or goes to review only when every *)
(* piece of its import is proven there, or its outcome is marked unknown.  *)
THEOREM FinToujoursProuvee == Spec => []FinProuvee
<1>1. Init => InvVerdict
  BY InitVerdict DEF InvVerdict, InvEtaye
<1>2. TypeComplet /\ InvVerdict /\ [Next]_vars => InvVerdict'
  BY VerdictPas
<1>3. InvVerdict => FinProuvee
  BY DEF InvVerdict, FinProuvee
<1> QED BY <1>1, <1>2, <1>3, TypeCorrect, PTL DEF Spec
=============================================================================
