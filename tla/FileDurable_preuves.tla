------------------------- MODULE FileDurable_preuves -------------------------
(***************************************************************************)
(* Proofs about the durable queue, for any number of jobs and workers and  *)
(* any bound on the failures.                                              *)
(***************************************************************************)
EXTENDS FileDurable, SequenceTheorems, TLAPS

----------------------------------------------------------------------------
(* What LREM, LMOVE and RPUSH do to a Redis list.                           *)

(* LREM leaves a list of the same kind, and every other element in it.     *)
LEMMA LremListe ==
  ASSUME NEW S, NEW s \in Seq(S), NEW e
  PROVE  Lrem(s, e) \in Seq(S)
<1>1. CASE ~Contains(s, e)
  BY <1>1 DEF Lrem
<1>2. CASE Contains(s, e)
  <2> DEFINE k == CHOOSE i \in 1..Len(s) : s[i] = e
  <2>1. k \in 1..Len(s)
    BY <1>2 DEF Contains
  <2>2. /\ SubSeq(s, 1, k-1) \in Seq(S)
        /\ SubSeq(s, k+1, Len(s)) \in Seq(S)
    <3>1. \A i \in 1..Len(s) : s[i] \in S
      BY ElementOfSeq
    <3> HIDE DEF k
    <3>2. \A i \in 1..k-1 : s[i] \in S
      BY <2>1, <3>1
    <3>3. \A i \in k+1..Len(s) : s[i] \in S
      BY <2>1, <3>1
    <3> QED BY <2>1, <3>2, <3>3, SubSeqProperties
  <2>3. Lrem(s, e) = SubSeq(s, 1, k-1) \o SubSeq(s, k+1, Len(s))
    BY <1>2 DEF Lrem, RemoveAt
  <2> QED BY <2>2, <2>3
<1> QED BY <1>1, <1>2

LEMMA LremGarde ==
  ASSUME NEW S, NEW s \in Seq(S), NEW e, NEW x \in S, x # e, Contains(s, x)
  PROVE  Contains(Lrem(s, e), x)
<1>1. CASE ~Contains(s, e)
  BY <1>1 DEF Lrem
<1>2. CASE Contains(s, e)
  <2> DEFINE k == CHOOSE i \in 1..Len(s) : s[i] = e
             a == SubSeq(s, 1, k-1)
             b == SubSeq(s, k+1, Len(s))
  <2>1. k \in 1..Len(s) /\ s[k] = e
    BY <1>2 DEF Contains
  <2>2. PICK i \in 1..Len(s) : s[i] = x
    BY DEF Contains
  <2>3. Lrem(s, e) = a \o b
    BY <1>2 DEF Lrem, RemoveAt
  <2> HIDE DEF k
  <2>4. /\ a \in Seq(S) /\ Len(a) = k-1 /\ \A n \in 1..k-1 : a[n] = s[n]
        /\ b \in Seq(S) /\ Len(b) = Len(s)-k /\ \A n \in 1..(Len(s)-k) : b[n] = s[n+k]
    BY <2>1
  <2> HIDE DEF a, b
  <2>5. /\ Len(a \o b) = Len(s)-1
        /\ \A n \in 1..Len(s)-1 : (a \o b)[n] = IF n <= k-1 THEN a[n] ELSE b[n-(k-1)]
    <3>1. /\ Len(a \o b) = Len(a) + Len(b)
          /\ \A n \in 1..Len(a) + Len(b) :
                 (a \o b)[n] = IF n <= Len(a) THEN a[n] ELSE b[n - Len(a)]
      BY <2>4, ConcatProperties
    <3>2. Len(s) \in Nat /\ Len(a) = k-1 /\ Len(a) + Len(b) = Len(s)-1
      BY <2>1, <2>4
    <3> QED BY <3>1, <3>2
  <2>6. i # k
    BY <2>1, <2>2
  <2>7. CASE i < k
    <3>1. i \in 1..Len(s)-1 /\ (a \o b)[i] = x
      BY <2>1, <2>2, <2>4, <2>5, <2>7
    <3> QED BY <2>3, <2>5, <3>1 DEF Contains
  <2>8. CASE i > k
    <3>1. i-1 \in 1..Len(s)-1 /\ ~(i-1 <= k-1) /\ (i-1)-(k-1) \in 1..(Len(s)-k)
      BY <2>1, <2>2, <2>8
    <3>2. (i-1)-(k-1)+k = i
      BY <2>1, <2>2
    <3>3. (a \o b)[i-1] = x
      BY <2>2, <2>4, <2>5, <3>1, <3>2
    <3> QED BY <2>3, <2>5, <3>1, <3>3 DEF Contains
  <2> QED BY <2>1, <2>2, <2>6, <2>7, <2>8
<1> QED BY <1>1, <1>2

(* RPUSH adds its element and leaves the others.                           *)
LEMMA AppendGarde ==
  ASSUME NEW S, NEW s \in Seq(S), NEW e \in S
  PROVE  /\ Append(s, e) \in Seq(S)
         /\ \A x : Contains(Append(s, e), x) <=> Contains(s, x) \/ x = e
<1>1. /\ Append(s, e) \in Seq(S)
      /\ Len(Append(s, e)) = Len(s)+1
      /\ \A i \in 1..Len(s) : Append(s, e)[i] = s[i]
      /\ Append(s, e)[Len(s)+1] = e
  OBVIOUS
<1>2. Len(s) \in Nat
  OBVIOUS
<1>3. ASSUME NEW x PROVE Contains(Append(s, e), x) <=> Contains(s, x) \/ x = e
  <2>1. ASSUME Contains(Append(s, e), x) PROVE Contains(s, x) \/ x = e
    <3>1. PICK i \in 1..Len(s)+1 : Append(s, e)[i] = x
      BY <1>1, <2>1 DEF Contains
    <3> QED BY <1>1, <1>2, <3>1 DEF Contains
  <2>2. ASSUME Contains(s, x) PROVE Contains(Append(s, e), x)
    BY <1>1, <1>2, <2>2 DEF Contains
  <2>3. ASSUME x = e PROVE Contains(Append(s, e), x)
    BY <1>1, <1>2, <2>3 DEF Contains
  <2> QED BY <2>1, <2>2, <2>3
<1> QED BY <1>1, <1>3

----------------------------------------------------------------------------
(* The types.                                                               *)

LEMMA InitType == Init => TypeComplet
<1> SUFFICES ASSUME Init PROVE TypeComplet
  OBVIOUS
<1>1. TypeRedis
  BY EmptySeq DEF Init, InitFile, TypeRedis
<1>2. TypeRegistre
  BY DEF Init, InitFile, TypeRegistre, Statuts
<1>3. TypeImports
  <2>1. incertain = [j \in Jobs |-> 0]
    BY DEF Init, InitFile
  <2>2. incertain \in [Jobs -> Int]
    BY <2>1
  <2>3. /\ attente \in [Jobs -> BOOLEAN] /\ preuve \in [Jobs -> Preuves]
        /\ verrou \in [Jobs -> Workers \cup {Aucun}]
    BY DEF Init, InitFile, Preuves
  <2> QED BY <2>2, <2>3 DEF TypeImports
<1>4. TypeTache
  BY DEF Init, InitFile, TypeTache, Pcs, PcLibre, PcTache, PcTravail, Verdicts, Envois
<1>5. TypeBalayage
  BY EmptySeq DEF Init, InitFile, TypeBalayage, Version, PcExamen
<1>6. TypePortes
  BY DEF Init, InitFile, TypePortes
<1>7. TypeWeb /\ TypeCompteurs
  BY DEF Init, InitWeb, TypeWeb, TypeCompteurs
<1> QED BY <1>1, <1>2, <1>3, <1>4, <1>5, <1>6, <1>7 DEF Init, TypeComplet, TypeOK

---------------------------------------------------------------------------
(* Types: what an action leaves alone keeps its type, and so does a worker *)
(* that goes from one stage of its task, or of its sweep, to another.      *)



LEMMA TypeCadre ==
  ASSUME TypeComplet
  PROVE  /\ UNCHANGED redis => TypeRedis'
         /\ UNCHANGED registre => TypeRegistre'
         /\ UNCHANGED imports => TypeImports'
         /\ UNCHANGED portes => TypePortes'
         /\ UNCHANGED web => TypeWeb'
         /\ UNCHANGED compteurs => TypeCompteurs'
         /\ UNCHANGED <<pc, tache>> => TypeTache'
         /\ UNCHANGED <<pc, balayage>> => TypeBalayage'
<1> USE DEF TypeComplet, TypeOK
<1>1. UNCHANGED redis => TypeRedis'
  BY DEF redis, TypeRedis
<1>2. UNCHANGED registre => TypeRegistre'
  BY DEF registre, TypeRegistre
<1>3. UNCHANGED imports => TypeImports'
  BY DEF imports, TypeImports
<1>4. UNCHANGED portes => TypePortes'
  BY DEF portes, TypePortes
<1>5. UNCHANGED web => TypeWeb'
  BY DEF web, TypeWeb
<1>6. UNCHANGED compteurs => TypeCompteurs'
  BY DEF compteurs, TypeCompteurs
<1>7. UNCHANGED <<pc, tache>> => TypeTache'
  BY DEF tache, TypeTache
<1>8. UNCHANGED <<pc, balayage>> => TypeBalayage'
  BY DEF balayage, TypeBalayage
<1> QED BY <1>1, <1>2, <1>3, <1>4, <1>5, <1>6, <1>7, <1>8

ResteTache(w) ==
  /\ pc[w] \in PcTache
  /\ \E e \in PcTache : Aller(w, e)
  /\ UNCHANGED <<livraison, balayage>>
  /\ verdict' \in [Workers -> Verdicts]
  /\ envoi' \in [Workers -> Envois]
  /\ pc'[w] \in {"apres", "rendu"} => verdict'[w] # ""
  /\ pc'[w] \in {"acquitter", "clore"} => verdict'[w] \in VerdictsClos
  /\ \A v \in Workers \ {w} : verdict'[v] = verdict[v]

LEMMA TypeResteTache ==
  ASSUME TypeComplet, NEW w \in Workers, ResteTache(w)
  PROVE  TypeTache' /\ TypeBalayage'
<1>1. PICK e \in PcTache : pc' = [pc EXCEPT ![w] = e]
  BY DEF ResteTache, Aller
<1>2. e \in Pcs /\ e \notin PcExamen
  BY DEF Pcs, PcTache, PcTravail, PcExamen
<1>3. TypeTache'
  BY <1>1, <1>2 DEF TypeComplet, TypeOK, TypeTache, ResteTache
<1>4. TypeBalayage'
  BY <1>1, <1>2 DEF TypeComplet, TypeOK, TypeTache, TypeBalayage, ResteTache, balayage
<1> QED BY <1>3, <1>4

LEMMA JobEnMain ==
  ASSUME TypeComplet, NEW w \in Workers, pc[w] \in PcTache
  PROVE  livraison[w] \in Livraisons /\ JobDe(w) \in Jobs
BY DEF TypeComplet, TypeOK, TypeTache, JobDe, Livraisons

HorsTache(w) ==
  /\ pc[w] \notin PcTache
  /\ \E e \in Pcs \ PcTache : Aller(w, e)
  /\ UNCHANGED tache

LEMMA TypeHorsTache ==
  ASSUME TypeComplet, NEW w \in Workers, HorsTache(w)
  PROVE  TypeTache'
<1>1. PICK e \in Pcs \ PcTache : pc' = [pc EXCEPT ![w] = e]
  BY DEF HorsTache, Aller
<1>2. e \notin {"apres", "rendu", "acquitter", "clore"}
  BY <1>1 DEF PcTache, PcTravail
<1> QED BY <1>1, <1>2 DEF TypeComplet, TypeOK, TypeTache, HorsTache, tache

LEMMA TypeRoute ==
  ASSUME TypeComplet, NEW j \in Jobs, UNCHANGED <<web, compteurs>>, PasRoute(j)
  PROVE  TypeComplet'
<1>1. CASE create_job(j)
  <2>1. UNCHANGED <<pc, tache, balayage>>
    BY <1>1 DEF create_job
  <2>2. TypeRegistre'
    BY <1>1 DEF create_job, TypeRegistre, Statuts, STATUTS_ACTIFS, TypeComplet, TypeOK, Aller
  <2>3. TypePortes'
    BY <1>1 DEF create_job, TypePortes, TypeComplet, TypeOK, Aller
  <2>4. UNCHANGED <<redis, imports, web>>
    BY <1>1 DEF create_job, redis, imports
  <2> QED BY <2>1, <2>2, <2>3, <2>4, TypeCadre DEF TypeComplet, TypeOK
<1>2. CASE enqueue_task(j)
  <2>1. UNCHANGED <<pc, tache, balayage>>
    BY <1>2 DEF enqueue_task
  <2>2. TypeRedis'
    <3>1. [job |-> j, task_id |-> numero[j] + 1, attempt |-> 0] \in Livraisons
      BY DEF TypeComplet, TypeOK, TypePortes, Livraisons
    <3> QED BY <1>2, <3>1, AppendGarde DEF enqueue_task, TypeRedis, TypeComplet, TypeOK
  <2>3. TypePortes'
    BY <1>2 DEF enqueue_task, TypePortes, TypeComplet, TypeOK, Aller
  <2>4. UNCHANGED <<registre, imports, web>>
    BY <1>2 DEF enqueue_task, registre, imports
  <2> QED BY <2>1, <2>2, <2>3, <2>4, TypeCadre DEF TypeComplet, TypeOK
<1>3. CASE EnfilageRate(j)
  <2>1. UNCHANGED <<pc, tache, balayage>>
    BY <1>3 DEF EnfilageRate
  <2>2. TypePortes'
    BY <1>3 DEF EnfilageRate, TypePortes, TypeComplet, TypeOK, Aller
  <2>3. UNCHANGED <<redis, registre, imports, web>>
    BY <1>3 DEF EnfilageRate, redis, registre, imports
  <2> QED BY <2>1, <2>2, <2>3, TypeCadre DEF TypeComplet, TypeOK
<1>4. CASE cancel_job(j)
  <2>1. UNCHANGED <<pc, tache, balayage>>
    BY <1>4 DEF cancel_job
  <2>2. TypeRegistre'
    BY <1>4 DEF cancel_job, TypeRegistre, Statuts, STATUTS_ACTIFS, TypeComplet, TypeOK, Aller
  <2>3. UNCHANGED <<redis, imports, portes, web>>
    BY <1>4 DEF cancel_job, redis, imports, portes
  <2> QED BY <2>1, <2>2, <2>3, TypeCadre DEF TypeComplet, TypeOK
<1> QED BY <1>1, <1>2, <1>3, <1>4 DEF PasRoute

LEMMA TypeSuite ==
  ASSUME TypeComplet, NEW w \in Workers, UNCHANGED <<web, compteurs>>, SuiteDeBoucle(w)
  PROVE  TypeComplet'
<1>1. CASE revendiquer_tache(w)
  <2>1. livraison[w] \in Livraisons /\ JobDe(w) \in Jobs
    BY <1>1, JobEnMain DEF revendiquer_tache, PcTache, PcTravail
  <2>2. TypeRedis'
    BY <1>1, <2>1 DEF revendiquer_tache, TypeRedis, Livraisons, TypeComplet, TypeOK, Aller
  <2>3. TypeTache'
    <3>1. CASE PeutRevendiquer(w)
      <4>1. UNCHANGED tache /\ pc' = [pc EXCEPT ![w] = "revendique"] /\ pc[w] = "depile"
        BY <1>1, <3>1 DEF revendiquer_tache, tache, Aller
      <4> QED BY <4>1 DEF TypeTache, tache, TypeComplet, TypeOK, Pcs, PcTache
    <3>2. CASE ~PeutRevendiquer(w)
      <4>1. /\ UNCHANGED <<verdict, envoi>> /\ livraison' = [livraison EXCEPT ![w] = Aucun]
            /\ pc' = [pc EXCEPT ![w] = "boucle"]
        BY <1>1, <3>2 DEF revendiquer_tache, Aller
      <4> QED BY <4>1 DEF TypeTache, TypeComplet, TypeOK, Pcs, PcTache, PcTravail, PcLibre
    <3> QED BY <3>1, <3>2
  <2>4. TypeBalayage'
    BY <1>1, <2>1 DEF revendiquer_tache, TypeBalayage, TypeTache, Version, PcExamen, balayage, TypeComplet, TypeOK, Aller
  <2>5. UNCHANGED <<registre, imports, portes, web>>
    BY <1>1 DEF revendiquer_tache, registre, imports, portes
  <2> QED BY <2>2, <2>3, <2>4, <2>5, TypeCadre DEF TypeComplet, TypeOK
<1>2. CASE marquer_job_claim(w)
  <2>1. livraison[w] \in Livraisons /\ JobDe(w) \in Jobs
    BY <1>2, JobEnMain DEF marquer_job_claim, Actif, PcTache, PcTravail
  <2>2. ResteTache(w)
    BY <1>2 DEF marquer_job_claim, Actif, ResteTache, tache, PcTache, PcTravail, TypeComplet, TypeOK, TypeTache, Aller, Verdicts, VerdictsClos, Envois
  <2>3. TypeRegistre'
    BY <1>2, <2>1 DEF marquer_job_claim, Actif, TypeRegistre, Statuts, STATUTS_ACTIFS, TypeComplet, TypeOK, Aller
  <2>4. UNCHANGED <<redis, imports, portes, web>>
    BY <1>2 DEF marquer_job_claim, Actif, redis, imports, portes
  <2> QED BY <2>2, <2>3, <2>4, TypeResteTache, TypeCadre DEF TypeComplet, TypeOK
<1>3. CASE AcquitterRefus(w)
  <2>1. livraison[w] \in Livraisons /\ JobDe(w) \in Jobs
    BY <1>3, JobEnMain DEF AcquitterRefus, PcTache, PcTravail
  <2>2. ResteTache(w)
    BY <1>3 DEF AcquitterRefus, ResteTache, tache, PcTache, PcTravail, TypeComplet, TypeOK, TypeTache, Aller, Verdicts, VerdictsClos, Envois
  <2>3. TypeRedis'
    BY <1>3, <2>1, LremListe DEF AcquitterRefus, TypeRedis, Livraisons, TypeComplet, TypeOK, Aller
  <2>4. UNCHANGED <<registre, imports, portes, web>>
    BY <1>3 DEF AcquitterRefus, registre, imports, portes
  <2> QED BY <2>2, <2>3, <2>4, TypeResteTache, TypeCadre DEF TypeComplet, TypeOK
<1>4. CASE Decider(w)
  <2>1. livraison[w] \in Livraisons /\ JobDe(w) \in Jobs
    BY <1>4, JobEnMain DEF Decider, SuiteDuVerdict, PcTache, PcTravail
  <2>2. ResteTache(w)
    BY <1>4 DEF Decider, SuiteDuVerdict, ResteTache, tache, PcTache, PcTravail, TypeComplet, TypeOK, TypeTache, Aller, Verdicts, VerdictsClos, Envois
  <2>3. UNCHANGED <<redis, registre, imports, portes, web>>
    BY <1>4 DEF Decider, SuiteDuVerdict, redis, registre, imports, portes
  <2> QED BY <2>2, <2>3, TypeResteTache, TypeCadre DEF TypeComplet, TypeOK
<1>5. CASE ack_task(w)
  <2>1. livraison[w] \in Livraisons /\ JobDe(w) \in Jobs
    BY <1>5, JobEnMain DEF ack_task, PcTache, PcTravail
  <2>2. ResteTache(w)
    BY <1>5 DEF ack_task, ResteTache, tache, PcTache, PcTravail, TypeComplet, TypeOK, TypeTache, Aller, Verdicts, VerdictsClos, Envois
  <2>3. TypeRedis'
    BY <1>5, <2>1, LremListe DEF ack_task, TypeRedis, Livraisons, TypeComplet, TypeOK, Aller
  <2>4. UNCHANGED <<registre, imports, portes, web>>
    BY <1>5 DEF ack_task, registre, imports, portes
  <2> QED BY <2>2, <2>3, <2>4, TypeResteTache, TypeCadre DEF TypeComplet, TypeOK
<1>6. CASE retry_task(w)
  <2>1. livraison[w] \in Livraisons /\ JobDe(w) \in Jobs
    BY <1>6, JobEnMain DEF retry_task, TacheRelancee, PcTache, PcTravail
  <2>2. ResteTache(w)
    BY <1>6 DEF retry_task, TacheRelancee, ResteTache, tache, PcTache, PcTravail, TypeComplet, TypeOK, TypeTache, Aller, Verdicts, VerdictsClos, Envois
  <2>3. TypeRedis'
    <3>1. Lrem(enTraitement, livraison[w]) \in Seq(Livraisons)
      BY LremListe DEF TypeComplet, TypeOK, TypeRedis
    <3>2. TacheRelancee(livraison[w]) \in Livraisons
      BY <2>1 DEF TacheRelancee, Livraisons
    <3> QED BY <1>6, <3>1, <3>2 DEF retry_task, TypeRedis, TypeComplet, TypeOK
  <2>4. UNCHANGED <<registre, imports, portes, web>>
    BY <1>6 DEF retry_task, TacheRelancee, registre, imports, portes
  <2> QED BY <2>2, <2>3, <2>4, TypeResteTache, TypeCadre DEF TypeComplet, TypeOK
<1>7. CASE NoterRelance(w)
  <2>1. livraison[w] \in Livraisons /\ JobDe(w) \in Jobs
    BY <1>7, JobEnMain DEF NoterRelance, PcTache, PcTravail
  <2>2. ResteTache(w)
    BY <1>7 DEF NoterRelance, ResteTache, tache, PcTache, PcTravail, TypeComplet, TypeOK, TypeTache, Aller, Verdicts, VerdictsClos, Envois
  <2>3. TypeRegistre'
    BY <1>7, <2>1 DEF NoterRelance, TypeRegistre, Statuts, STATUTS_ACTIFS, TypeComplet, TypeOK, Aller
  <2>4. UNCHANGED <<redis, imports, portes, web>>
    BY <1>7 DEF NoterRelance, redis, imports, portes
  <2> QED BY <2>2, <2>3, <2>4, TypeResteTache, TypeCadre DEF TypeComplet, TypeOK
<1>8. CASE deadletter_task(w)
  <2>1. livraison[w] \in Livraisons /\ JobDe(w) \in Jobs
    BY <1>8, JobEnMain DEF deadletter_task, PcTache, PcTravail
  <2>2. ResteTache(w)
    BY <1>8 DEF deadletter_task, ResteTache, tache, PcTache, PcTravail, TypeComplet, TypeOK, TypeTache, Aller, Verdicts, VerdictsClos, Envois
  <2>3. TypeRedis'
    <3>1. Lrem(enTraitement, livraison[w]) \in Seq(Livraisons)
      BY LremListe DEF TypeComplet, TypeOK, TypeRedis
    <3>2. Append(morte, livraison[w]) \in Seq(Livraisons)
      BY <2>1, AppendGarde DEF TypeComplet, TypeOK, TypeRedis
    <3> QED BY <1>8, <3>1, <3>2 DEF deadletter_task, TypeRedis, TypeComplet, TypeOK
  <2>4. UNCHANGED <<registre, imports, portes, web>>
    BY <1>8 DEF deadletter_task, registre, imports, portes
  <2> QED BY <2>2, <2>3, <2>4, TypeResteTache, TypeCadre DEF TypeComplet, TypeOK
<1>9. CASE terminer_job(w)
  <2>1. livraison[w] \in Livraisons /\ JobDe(w) \in Jobs
    BY <1>9, JobEnMain DEF terminer_job, PcTache, PcTravail
  <2>2. ResteTache(w)
    BY <1>9 DEF terminer_job, ResteTache, tache, PcTache, PcTravail, TypeComplet, TypeOK, TypeTache, Aller, Verdicts, VerdictsClos, Envois
  <2>3. TypeRegistre'
    <3>1. verdict[w] \in Statuts
      BY <1>9 DEF terminer_job, TypeComplet, TypeOK, TypeTache, VerdictsClos, Statuts
    <3>2. CASE PeutTerminer(w)
      <4>1. /\ statut' = [statut EXCEPT ![JobDe(w)] = verdict[w]]
            /\ par' = [par EXCEPT ![JobDe(w)] = Aucun]
            /\ UNCHANGED tentatives
        BY <1>9, <3>2 DEF terminer_job
      <4>2. motif' = [motif EXCEPT ![JobDe(w)] = verdict[w] \in {"failed", "cancelled"}]
        BY <1>9, <3>2 DEF terminer_job
      <4>3. (verdict[w] \in {"failed", "cancelled"}) \in BOOLEAN
        OBVIOUS
      <4>4. motif' \in [Jobs -> BOOLEAN]
        BY <4>2, <4>3 DEF TypeRegistre, TypeComplet, TypeOK
      <4> QED BY <3>1, <4>1, <4>4 DEF TypeRegistre, TypeComplet, TypeOK
    <3>3. CASE ~PeutTerminer(w)
      BY <1>9, <3>3 DEF terminer_job, TypeRegistre, TypeComplet, TypeOK
    <3> QED BY <3>2, <3>3
  <2>4. UNCHANGED <<redis, imports, portes, web>>
    BY <1>9 DEF terminer_job, redis, imports, portes
  <2> QED BY <2>2, <2>3, <2>4, TypeResteTache, TypeCadre DEF TypeComplet, TypeOK
<1>10. CASE liberer_revendication(w)
  <2>1. livraison[w] \in Livraisons /\ JobDe(w) \in Jobs
    BY <1>10, JobEnMain DEF liberer_revendication, PcTache, PcTravail
  <2>2. TypeRedis'
    BY <1>10, <2>1 DEF liberer_revendication, TypeRedis, Livraisons, TypeComplet, TypeOK, Aller
  <2>3. TypeTache'
    BY <1>10, <2>1 DEF liberer_revendication, TypeTache, Verdicts, VerdictsClos, Envois, Livraisons, Pcs, PcTache, PcTravail, PcBalayage, PcLibre, TypeComplet, TypeOK, Aller
  <2>4. TypeBalayage'
    BY <1>10, <2>1 DEF liberer_revendication, TypeBalayage, TypeTache, Version, PcExamen, balayage, TypeComplet, TypeOK, Aller
  <2>5. UNCHANGED <<registre, imports, portes, web>>
    BY <1>10 DEF liberer_revendication, registre, imports, portes
  <2> QED BY <2>2, <2>3, <2>4, <2>5, TypeCadre DEF TypeComplet, TypeOK
<1> QED BY <1>1, <1>2, <1>3, <1>4, <1>5, <1>6, <1>7, <1>8, <1>9, <1>10 DEF SuiteDeBoucle

LEMMA TypeTraitement ==
  ASSUME TypeComplet, NEW w \in Workers, UNCHANGED <<web, compteurs>>, Traiter(w)
  PROVE  TypeComplet'
<1>1. CASE DebuterTraitement(w)
  <2>1. livraison[w] \in Livraisons /\ JobDe(w) \in Jobs
    BY <1>1, JobEnMain DEF DebuterTraitement, PcTache, PcTravail
  <2>2. ResteTache(w)
    BY <1>1 DEF DebuterTraitement, ResteTache, tache, PcTache, PcTravail, TypeComplet, TypeOK, TypeTache, Aller, Verdicts, VerdictsClos, Envois
  <2>3. TypeRegistre'
    BY <1>1, <2>1 DEF DebuterTraitement, TypeRegistre, Statuts, STATUTS_ACTIFS, TypeComplet, TypeOK, Aller
  <2>4. UNCHANGED <<redis, imports, portes, web>>
    BY <1>1 DEF DebuterTraitement, redis, imports, portes
  <2> QED BY <2>2, <2>3, <2>4, TypeResteTache, TypeCadre DEF TypeComplet, TypeOK
<1>2. CASE PrendreVerrou(w)
  <2>1. livraison[w] \in Livraisons /\ JobDe(w) \in Jobs
    BY <1>2, JobEnMain DEF PrendreVerrou, PcTache, PcTravail
  <2>2. ResteTache(w)
    BY <1>2 DEF PrendreVerrou, ResteTache, tache, PcTache, PcTravail, TypeComplet, TypeOK, TypeTache, Aller, Verdicts, VerdictsClos, Envois
  <2>3. TypeImports'
    BY <1>2, <2>1 DEF PrendreVerrou, TypeImports, TypeComplet, TypeOK, Aller
  <2>4. UNCHANGED <<redis, registre, portes, web>>
    BY <1>2 DEF PrendreVerrou, redis, registre, portes
  <2> QED BY <2>2, <2>3, <2>4, TypeResteTache, TypeCadre DEF TypeComplet, TypeOK
<1>3. CASE ConstaterAnnulation(w)
  <2>1. livraison[w] \in Livraisons /\ JobDe(w) \in Jobs
    BY <1>3, JobEnMain DEF ConstaterAnnulation, Rompre, PcVerrouille, PcTache, PcTravail
  <2>2. ResteTache(w)
    BY <1>3 DEF ConstaterAnnulation, Rompre, PcVerrouille, ResteTache, tache, PcTache, PcTravail, TypeComplet, TypeOK, TypeTache, Aller, Verdicts, VerdictsClos, Envois
  <2>3. TypeImports'
    BY <1>3, <2>1 DEF ConstaterAnnulation, Rompre, PcVerrouille, TypeImports, TypeComplet, TypeOK, Aller
  <2>4. UNCHANGED <<redis, registre, portes, web>>
    BY <1>3 DEF ConstaterAnnulation, Rompre, PcVerrouille, redis, registre, portes
  <2> QED BY <2>2, <2>3, <2>4, TypeResteTache, TypeCadre DEF TypeComplet, TypeOK
<1>4. CASE EchouerTraitement(w)
  <2>1. livraison[w] \in Livraisons /\ JobDe(w) \in Jobs
    BY <1>4, JobEnMain DEF EchouerTraitement, Rompre, PcVerrouille, PcTache, PcTravail
  <2>2. ResteTache(w)
    BY <1>4 DEF EchouerTraitement, Rompre, PcVerrouille, ResteTache, tache, PcTache, PcTravail, TypeComplet, TypeOK, TypeTache, Aller, Verdicts, VerdictsClos, Envois
  <2>3. TypeImports'
    BY <1>4, <2>1 DEF EchouerTraitement, Rompre, PcVerrouille, TypeImports, TypeComplet, TypeOK, Aller
  <2>4. UNCHANGED <<redis, registre, portes, web>>
    BY <1>4 DEF EchouerTraitement, Rompre, PcVerrouille, redis, registre, portes
  <2> QED BY <2>2, <2>3, <2>4, TypeResteTache, TypeCadre DEF TypeComplet, TypeOK
<1>5. CASE PersisterIntention(w)
  <2>1. livraison[w] \in Livraisons /\ JobDe(w) \in Jobs
    BY <1>5, JobEnMain DEF PersisterIntention, PcTache, PcTravail
  <2>2. ResteTache(w)
    BY <1>5 DEF PersisterIntention, ResteTache, tache, PcTache, PcTravail, TypeComplet, TypeOK, TypeTache, Aller, Verdicts, VerdictsClos, Envois
  <2>3. TypeImports'
    BY <1>5, <2>1 DEF PersisterIntention, TypeImports, TypeComplet, TypeOK, Aller
  <2>4. UNCHANGED <<redis, registre, portes, web>>
    BY <1>5 DEF PersisterIntention, redis, registre, portes
  <2> QED BY <2>2, <2>3, <2>4, TypeResteTache, TypeCadre DEF TypeComplet, TypeOK
<1>6. CASE RienAEnvoyer(w)
  <2>1. livraison[w] \in Livraisons /\ JobDe(w) \in Jobs
    BY <1>6, JobEnMain DEF RienAEnvoyer, PcTache, PcTravail
  <2>2. ResteTache(w)
    BY <1>6 DEF RienAEnvoyer, ResteTache, tache, PcTache, PcTravail, TypeComplet, TypeOK, TypeTache, Aller, Verdicts, VerdictsClos, Envois
  <2>3. UNCHANGED <<redis, registre, imports, portes, web>>
    BY <1>6 DEF RienAEnvoyer, redis, registre, imports, portes
  <2> QED BY <2>2, <2>3, TypeResteTache, TypeCadre DEF TypeComplet, TypeOK
<1>7. CASE Envoyer(w)
  <2>1. livraison[w] \in Livraisons /\ JobDe(w) \in Jobs
    BY <1>7, JobEnMain DEF Envoyer, PcTache, PcTravail
  <2>2. ResteTache(w)
    BY <1>7 DEF Envoyer, ResteTache, tache, PcTache, PcTravail, TypeComplet, TypeOK, TypeTache, Aller, Verdicts, VerdictsClos, Envois
  <2>3. TypeImports'
    <3>1. incertain' \in [Jobs -> Int]
      <4>1. incertain \in [Jobs -> Int]
        BY DEF TypeImports, TypeComplet, TypeOK
      <4>2. incertain' = [incertain EXCEPT ![JobDe(w)] = incertain[JobDe(w)] + 1]
        BY <1>7 DEF Envoyer
      <4> QED BY <2>1, <4>1, <4>2
    <3> QED BY <1>7, <3>1 DEF Envoyer, TypeImports, TypeComplet, TypeOK
  <2>4. UNCHANGED <<redis, registre, portes, web>>
    BY <1>7 DEF Envoyer, redis, registre, portes
  <2> QED BY <2>2, <2>3, <2>4, TypeResteTache, TypeCadre DEF TypeComplet, TypeOK
<1>8. CASE Publier(w)
  <2>1. livraison[w] \in Livraisons /\ JobDe(w) \in Jobs
    BY <1>8, JobEnMain DEF Publier, PreuveApres, Preuves, PcTache, PcTravail
  <2>2. ResteTache(w)
    BY <1>8 DEF Publier, PreuveApres, Preuves, ResteTache, tache, PcTache, PcTravail, TypeComplet, TypeOK, TypeTache, Aller, Verdicts, VerdictsClos, Envois
  <2>3. TypeImports'
    <3> DEFINE j == JobDe(w)
    <3>1. PreuveApres(j, envoi[w]) \in Preuves
      BY <2>1 DEF PreuveApres, Preuves, TypeComplet, TypeOK, TypeImports
    <3>2. preuve' \in [Jobs -> Preuves] /\ attente' \in [Jobs -> BOOLEAN]
      BY <1>8, <2>1, <3>1 DEF Publier, TypeImports, TypeComplet, TypeOK
    <3>3. verrou' \in [Jobs -> Workers \cup {Aucun}]
      BY <1>8, <2>1 DEF Publier, TypeImports, TypeComplet, TypeOK
    <3>4. incertain' \in [Jobs -> Int]
      <4>1. incertain \in [Jobs -> Int]
        BY DEF TypeImports, TypeComplet, TypeOK
      <4>2. \/ incertain' = [incertain EXCEPT ![j] = incertain[j]]
            \/ incertain' = [incertain EXCEPT ![j] = incertain[j] - 1]
        BY <1>8 DEF Publier
      <4> QED BY <2>1, <4>1, <4>2
    <3> QED BY <3>2, <3>3, <3>4 DEF TypeImports
  <2>4. UNCHANGED <<redis, registre, portes, web>>
    BY <1>8 DEF Publier, PreuveApres, Preuves, redis, registre, portes
  <2> QED BY <2>2, <2>3, <2>4, TypeResteTache, TypeCadre DEF TypeComplet, TypeOK
<1>9. CASE EchouerApresPublication(w)
  <2>1. livraison[w] \in Livraisons /\ JobDe(w) \in Jobs
    BY <1>9, JobEnMain DEF EchouerApresPublication, PcTache, PcTravail
  <2>2. ResteTache(w)
    BY <1>9 DEF EchouerApresPublication, ResteTache, tache, PcTache, PcTravail, TypeComplet, TypeOK, TypeTache, Aller, Verdicts, VerdictsClos, Envois
  <2>3. UNCHANGED <<redis, registre, imports, portes, web>>
    BY <1>9 DEF EchouerApresPublication, redis, registre, imports, portes
  <2> QED BY <2>2, <2>3, TypeResteTache, TypeCadre DEF TypeComplet, TypeOK
<1>10. CASE EcrireResultat(w)
  <2>1. livraison[w] \in Livraisons /\ JobDe(w) \in Jobs
    BY <1>10, JobEnMain DEF EcrireResultat, StatutsFinaux, StatutEcrit, PcTache, PcTravail
  <2>2. ResteTache(w)
    <3>1. /\ pc[w] = "bilan" /\ UNCHANGED <<livraison, envoi, balayage>>
          /\ \/ Aller(w, "annulation") /\ UNCHANGED verdict
             \/ \E v \in Verdicts \ {""} :
                  /\ verdict' = [verdict EXCEPT ![w] = v]
                  /\ \E e \in {"rendu", "apres"} : Aller(w, e)
      BY <1>10 DEF EcrireResultat, StatutsFinaux, Verdicts
    <3> QED BY <3>1 DEF ResteTache, Aller, PcTache, PcTravail, TypeComplet, TypeOK, TypeTache
  <2>3. TypeRegistre'
    BY <1>10, <2>1 DEF EcrireResultat, StatutsFinaux, StatutEcrit, TypeRegistre, Statuts, STATUTS_ACTIFS, TypeComplet, TypeOK, Aller
  <2>4. UNCHANGED <<redis, imports, portes, web>>
    BY <1>10 DEF EcrireResultat, StatutsFinaux, StatutEcrit, redis, imports, portes
  <2> QED BY <2>2, <2>3, <2>4, TypeResteTache, TypeCadre DEF TypeComplet, TypeOK
<1>11. CASE TerminerTraitement(w)
  <2>1. livraison[w] \in Livraisons /\ JobDe(w) \in Jobs
    BY <1>11, JobEnMain DEF TerminerTraitement, PcTache, PcTravail
  <2>2. ResteTache(w)
    BY <1>11 DEF TerminerTraitement, ResteTache, tache, PcTache, PcTravail, TypeComplet, TypeOK, TypeTache, Aller, Verdicts, VerdictsClos, Envois
  <2>3. UNCHANGED <<redis, registre, imports, portes, web>>
    BY <1>11 DEF TerminerTraitement, redis, registre, imports, portes
  <2> QED BY <2>2, <2>3, TypeResteTache, TypeCadre DEF TypeComplet, TypeOK
<1>12. CASE PanneTardive(w)
  <2>1. livraison[w] \in Livraisons /\ JobDe(w) \in Jobs
    BY <1>12, JobEnMain DEF PanneTardive, PcTache, PcTravail
  <2>2. ResteTache(w)
    BY <1>12 DEF PanneTardive, ResteTache, tache, PcTache, PcTravail, TypeComplet, TypeOK, TypeTache, Aller, Verdicts, VerdictsClos, Envois
  <2>3. UNCHANGED <<redis, registre, imports, portes, web>>
    BY <1>12 DEF PanneTardive, redis, registre, imports, portes
  <2> QED BY <2>2, <2>3, TypeResteTache, TypeCadre DEF TypeComplet, TypeOK
<1>13. CASE AttraperAnnulation(w)
  <2>1. livraison[w] \in Livraisons /\ JobDe(w) \in Jobs
    BY <1>13, JobEnMain DEF AttraperAnnulation, VerifierProprietaire, PcTache, PcTravail
  <2>2. ResteTache(w)
    BY <1>13 DEF AttraperAnnulation, VerifierProprietaire, ResteTache, tache, PcTache, PcTravail, TypeComplet, TypeOK, TypeTache, Aller, Verdicts, VerdictsClos, Envois
  <2>3. UNCHANGED <<redis, registre, imports, portes, web>>
    BY <1>13 DEF AttraperAnnulation, VerifierProprietaire, redis, registre, imports, portes
  <2> QED BY <2>2, <2>3, TypeResteTache, TypeCadre DEF TypeComplet, TypeOK
<1>14. CASE AttraperException(w)
  <2>1. livraison[w] \in Livraisons /\ JobDe(w) \in Jobs
    BY <1>14, JobEnMain DEF AttraperException, VerifierProprietaire, PcTache, PcTravail
  <2>2. ResteTache(w)
    BY <1>14 DEF AttraperException, VerifierProprietaire, ResteTache, tache, PcTache, PcTravail, TypeComplet, TypeOK, TypeTache, Aller, Verdicts, VerdictsClos, Envois
  <2>3. UNCHANGED <<redis, registre, imports, portes, web>>
    BY <1>14 DEF AttraperException, VerifierProprietaire, redis, registre, imports, portes
  <2> QED BY <2>2, <2>3, TypeResteTache, TypeCadre DEF TypeComplet, TypeOK
<1>15. CASE EcrireAnnulation(w)
  <2>1. livraison[w] \in Livraisons /\ JobDe(w) \in Jobs
    BY <1>15, JobEnMain DEF EcrireAnnulation, Rendre, PcTache, PcTravail
  <2>2. ResteTache(w)
    BY <1>15 DEF EcrireAnnulation, Rendre, ResteTache, tache, PcTache, PcTravail, TypeComplet, TypeOK, TypeTache, Aller, Verdicts, VerdictsClos, Envois
  <2>3. TypeRegistre'
    BY <1>15, <2>1 DEF EcrireAnnulation, Rendre, TypeRegistre, Statuts, STATUTS_ACTIFS, TypeComplet, TypeOK, Aller
  <2>4. UNCHANGED <<redis, imports, portes, web>>
    BY <1>15 DEF EcrireAnnulation, Rendre, redis, imports, portes
  <2> QED BY <2>2, <2>3, <2>4, TypeResteTache, TypeCadre DEF TypeComplet, TypeOK
<1>16. CASE EcrireRevue(w)
  <2>1. livraison[w] \in Livraisons /\ JobDe(w) \in Jobs
    BY <1>16, JobEnMain DEF EcrireRevue, Rendre, PcTache, PcTravail
  <2>2. ResteTache(w)
    <3>1. /\ pc[w] = "excRevue" /\ UNCHANGED <<livraison, envoi, balayage>>
          /\ \E v \in Verdicts \ {""} : verdict' = [verdict EXCEPT ![w] = v]
          /\ Aller(w, "rendu")
      BY <1>16 DEF EcrireRevue, Rendre, Verdicts
    <3> QED BY <3>1 DEF ResteTache, Aller, PcTache, PcTravail, TypeComplet, TypeOK, TypeTache
  <2>3. TypeRegistre'
    BY <1>16, <2>1 DEF EcrireRevue, Rendre, TypeRegistre, Statuts, STATUTS_ACTIFS, TypeComplet, TypeOK, Aller
  <2>4. UNCHANGED <<redis, imports, portes, web>>
    BY <1>16 DEF EcrireRevue, Rendre, redis, imports, portes
  <2> QED BY <2>2, <2>3, <2>4, TypeResteTache, TypeCadre DEF TypeComplet, TypeOK
<1>17. CASE EcrireEchec(w)
  <2>1. livraison[w] \in Livraisons /\ JobDe(w) \in Jobs
    BY <1>17, JobEnMain DEF EcrireEchec, Rendre, PcTache, PcTravail
  <2>2. ResteTache(w)
    BY <1>17 DEF EcrireEchec, Rendre, ResteTache, tache, PcTache, PcTravail, TypeComplet, TypeOK, TypeTache, Aller, Verdicts, VerdictsClos, Envois
  <2>3. TypeRegistre'
    BY <1>17, <2>1 DEF EcrireEchec, Rendre, TypeRegistre, Statuts, STATUTS_ACTIFS, TypeComplet, TypeOK, Aller
  <2>4. UNCHANGED <<redis, imports, portes, web>>
    BY <1>17 DEF EcrireEchec, Rendre, redis, imports, portes
  <2> QED BY <2>2, <2>3, <2>4, TypeResteTache, TypeCadre DEF TypeComplet, TypeOK
<1> QED BY <1>1, <1>2, <1>3, <1>4, <1>5, <1>6, <1>7, <1>8, <1>9, <1>10, <1>11, <1>12, <1>13, <1>14, <1>15, <1>16, <1>17 DEF Traiter

LEMMA TypeReconcilier ==
  ASSUME TypeComplet, NEW w \in Workers, UNCHANGED <<web, compteurs>>, Reconcilier(w)
  PROVE  TypeComplet'
<1>1. CASE LireEnTraitement(w)
  <2>1. HorsTache(w)
    BY <1>1 DEF LireEnTraitement, HorsTache, Pcs, PcTache, PcTravail, PcBalayage, PcLibre
  <2>2. TypeBalayage'
    BY <1>1 DEF LireEnTraitement, TypeBalayage, TypeTache, TypeRedis, PcExamen, TypeComplet, TypeOK, Aller
  <2>3. UNCHANGED <<redis, registre, imports, portes, web>>
    BY <1>1 DEF LireEnTraitement, redis, registre, imports, portes
  <2> QED BY <2>1, <2>2, <2>3, TypeHorsTache, TypeCadre DEF TypeComplet, TypeOK, balayage, tache
<1>2. CASE reprendre_taches_orphelines(w)
  <2>1. UNCHANGED <<pc, tache>>
    BY <1>2 DEF reprendre_taches_orphelines
  <2>2. TypeRedis'
    <3> DEFINE d == Head(aVoir[w])
               suivante == [d EXCEPT !.attempt = @ + 1]
    <3>1. d \in Livraisons
      BY <1>2, HeadTailProperties DEF reprendre_taches_orphelines, TypeBalayage, TypeComplet, TypeOK
    <3>2. suivante \in Livraisons
      <4>1. d.job \in Jobs /\ d.task_id \in Nat /\ d.attempt + 1 \in Nat
        BY <3>1 DEF Livraisons
      <4>2. suivante = [job |-> d.job, task_id |-> d.task_id, attempt |-> d.attempt + 1]
        BY <3>1 DEF Livraisons
      <4> QED BY <4>1, <4>2 DEF Livraisons
    <3>3. /\ Lrem(enTraitement, d) \in Seq(Livraisons)
          /\ Append(file, suivante) \in Seq(Livraisons)
          /\ Append(morte, d) \in Seq(Livraisons)
      BY <3>1, <3>2, LremListe, AppendGarde DEF TypeRedis, TypeComplet, TypeOK
    <3> QED BY <1>2, <3>3 DEF reprendre_taches_orphelines, TypeRedis, TypeComplet, TypeOK
  <2>3. TypeBalayage'
    <3> DEFINE d == Head(aVoir[w])
               Decisions == [job : Jobs, requeued : BOOLEAN]
               decision == [job |-> d.job, requeued |-> d.attempt + 1 < MaxTentatives]
    <3>1. d \in Livraisons /\ Tail(aVoir[w]) \in Seq(Livraisons)
      BY <1>2, HeadTailProperties DEF reprendre_taches_orphelines, TypeBalayage, TypeComplet, TypeOK
    <3>2. decision \in Decisions
      BY <3>1 DEF Livraisons
    <3>3. Append(decisions[w], decision) \in Seq(Decisions)
      <4>1. decisions[w] \in Seq(Decisions)
        BY DEF TypeBalayage, TypeComplet, TypeOK
      <4> HIDE DEF Decisions, decision
      <4> QED BY <3>2, <4>1, AppendGarde
    <3>4. /\ UNCHANGED <<pc, versions, aVerifier, examine>>
          /\ aVoir' = [aVoir EXCEPT ![w] = Tail(aVoir[w])]
          /\ \/ UNCHANGED decisions
             \/ decisions' = [decisions EXCEPT ![w] = Append(decisions[w], decision)]
      BY <1>2 DEF reprendre_taches_orphelines
    <3> HIDE DEF decision
    <3> QED BY <3>1, <3>3, <3>4 DEF TypeBalayage, TypeComplet, TypeOK
  <2>4. UNCHANGED <<registre, imports, portes, web>>
    BY <1>2 DEF reprendre_taches_orphelines, registre, imports, portes
  <2> QED BY <2>1, <2>2, <2>3, <2>4, TypeCadre DEF TypeComplet, TypeOK
<1>3. CASE AppliquerDecision(w)
  <2>1. UNCHANGED <<pc, tache>>
    BY <1>3 DEF AppliquerDecision, remettre_en_file
  <2>2. TypeRegistre'
    BY <1>3 DEF AppliquerDecision, remettre_en_file, TypeRegistre, Statuts, STATUTS_ACTIFS, TypeComplet, TypeOK, Aller
  <2>3. TypeBalayage'
    <3>1. Tail(decisions[w]) \in Seq([job : Jobs, requeued : BOOLEAN])
      BY <1>3, HeadTailProperties DEF AppliquerDecision, TypeBalayage, TypeComplet, TypeOK
    <3> QED BY <1>3, <3>1 DEF AppliquerDecision, TypeBalayage, TypeComplet, TypeOK
  <2>4. UNCHANGED <<redis, imports, portes, web>>
    BY <1>3 DEF AppliquerDecision, remettre_en_file, redis, imports, portes
  <2> QED BY <2>1, <2>2, <2>3, <2>4, TypeCadre DEF TypeComplet, TypeOK
<1>4. CASE jobs_actifs(w)
  <2>1. HorsTache(w)
    BY <1>4 DEF jobs_actifs, VersionsLues, HorsTache, Pcs, PcTache, PcTravail, PcBalayage, PcLibre
  <2>2. TypeBalayage'
    <3>1. VersionsLues \in [Jobs -> Version]
      BY DEF VersionsLues, Version, TypeRegistre, TypeComplet, TypeOK
    <3> HIDE DEF VersionsLues
    <3> QED BY <1>4, <3>1 DEF jobs_actifs, TypeBalayage, TypeTache, PcExamen, TypeComplet, TypeOK, Aller
  <2>3. UNCHANGED <<redis, registre, imports, portes, web>>
    BY <1>4 DEF jobs_actifs, VersionsLues, redis, registre, imports, portes
  <2> QED BY <2>1, <2>2, <2>3, TypeHorsTache, TypeCadre DEF TypeComplet, TypeOK, balayage, tache
<1>5. CASE ChercherFile(w)
  <2>1. HorsTache(w)
    BY <1>5 DEF ChercherFile, Examiner, HorsTache, Pcs, PcTache, PcTravail, PcBalayage, PcLibre
  <2>2. TypeBalayage'
    <3>1. PICK j \in aVerifier[w] :
            /\ aVerifier' = [aVerifier EXCEPT ![w] = @ \ {j}]
            /\ Examiner(w, Aucun, "cas2") \/ Examiner(w, j, "cas2traitement")
      BY <1>5 DEF ChercherFile
    <3>2. j \in Jobs
      BY DEF TypeBalayage, TypeComplet, TypeOK
    <3> QED BY <3>1, <3>2 DEF Examiner, TypeBalayage, TypeTache, PcExamen, TypeComplet, TypeOK, Aller
  <2>3. UNCHANGED <<redis, registre, imports, portes, web>>
    BY <1>5 DEF ChercherFile, Examiner, redis, registre, imports, portes
  <2> QED BY <2>1, <2>2, <2>3, TypeHorsTache, TypeCadre DEF TypeComplet, TypeOK, balayage, tache
<1>6. CASE ChercherTraitement(w)
  <2>1. HorsTache(w)
    BY <1>6 DEF ChercherTraitement, Examiner, HorsTache, Pcs, PcTache, PcTravail, PcBalayage, PcLibre
  <2>2. TypeBalayage'
    BY <1>6 DEF ChercherTraitement, Examiner, TypeBalayage, TypeTache, Version, PcExamen, balayage, TypeComplet, TypeOK, Aller
  <2>3. UNCHANGED <<redis, registre, imports, portes, web>>
    BY <1>6 DEF ChercherTraitement, Examiner, redis, registre, imports, portes
  <2> QED BY <2>1, <2>2, <2>3, TypeHorsTache, TypeCadre DEF TypeComplet, TypeOK, balayage, tache
<1>7. CASE ChercherRelance(w)
  <2>1. HorsTache(w)
    BY <1>7 DEF ChercherRelance, Examiner, HorsTache, Pcs, PcTache, PcTravail, PcBalayage, PcLibre
  <2>2. TypeBalayage'
    BY <1>7 DEF ChercherRelance, Examiner, TypeBalayage, TypeTache, Version, PcExamen, balayage, TypeComplet, TypeOK, Aller
  <2>3. UNCHANGED <<redis, registre, imports, portes, web>>
    BY <1>7 DEF ChercherRelance, Examiner, redis, registre, imports, portes
  <2> QED BY <2>1, <2>2, <2>3, TypeHorsTache, TypeCadre DEF TypeComplet, TypeOK, balayage, tache
<1>8. CASE AbandonnerOrphelin(w)
  <2>1. HorsTache(w)
    BY <1>8 DEF AbandonnerOrphelin, remettre_en_file, HorsTache, Pcs, PcTache, PcTravail, PcBalayage, PcLibre
  <2>2. TypeRegistre'
    BY <1>8 DEF AbandonnerOrphelin, remettre_en_file, TypeRegistre, Statuts, STATUTS_ACTIFS, TypeBalayage, PcExamen, TypeComplet, TypeOK, Aller
  <2>3. TypeBalayage'
    BY <1>8 DEF AbandonnerOrphelin, remettre_en_file, TypeBalayage, TypeTache, Version, PcExamen, balayage, TypeComplet, TypeOK, Aller
  <2>4. UNCHANGED <<redis, imports, portes, web>>
    BY <1>8 DEF AbandonnerOrphelin, remettre_en_file, redis, imports, portes
  <2> QED BY <2>1, <2>2, <2>3, <2>4, TypeHorsTache, TypeCadre DEF TypeComplet, TypeOK, balayage, tache
<1>9. CASE enqueue_task_si_absent(w)
  <2>1. HorsTache(w)
    BY <1>9 DEF enqueue_task_si_absent, HorsTache, Pcs, PcTache, PcTravail, PcBalayage, PcLibre
  <2>2. TypeRedis'
    <3>1. [job |-> examine[w], task_id |-> numero[examine[w]] + 1, attempt |-> 0] \in Livraisons
      BY <1>9 DEF enqueue_task_si_absent, TypeBalayage, TypePortes, PcExamen, Livraisons,
         TypeComplet, TypeOK
    <3> DEFINE d == [job |-> examine[w], task_id |-> numero[examine[w]] + 1, attempt |-> 0]
    <3>2. Append(file, d) \in Seq(Livraisons)
      BY <3>1, AppendGarde DEF TypeRedis, TypeComplet, TypeOK
    <3>3. /\ UNCHANGED <<enTraitement, relance, morte, claim>>
          /\ UNCHANGED file \/ file' = Append(file, d)
      BY <1>9 DEF enqueue_task_si_absent
    <3> HIDE DEF d
    <3> QED BY <3>2, <3>3 DEF TypeRedis, TypeComplet, TypeOK
  <2>3. TypePortes'
    <3>1. /\ UNCHANGED demande
          /\ UNCHANGED numero \/ numero' = [numero EXCEPT ![examine[w]] = @ + 1]
      BY <1>9 DEF enqueue_task_si_absent
    <3> QED BY <3>1 DEF TypePortes, TypeComplet, TypeOK
  <2>4. TypeBalayage'
    <3>1. /\ UNCHANGED <<versions, aVoir, decisions, aVerifier>>
          /\ pc[w] = "cas2arbitre"
          /\ \/ Aller(w, "cas2remettre") /\ UNCHANGED examine
             \/ Aller(w, "cas2") /\ examine' = [examine EXCEPT ![w] = Aucun]
      BY <1>9 DEF enqueue_task_si_absent
    <3> QED BY <3>1 DEF TypeBalayage, TypeTache, PcExamen, TypeComplet, TypeOK, Aller
  <2>5. UNCHANGED <<registre, imports, web>>
    BY <1>9 DEF enqueue_task_si_absent, registre, imports
  <2> QED BY <2>1, <2>2, <2>3, <2>4, <2>5, TypeHorsTache, TypeCadre DEF TypeComplet, TypeOK, balayage, tache
<1>10. CASE RemettreOrphelin(w)
  <2>1. HorsTache(w)
    BY <1>10 DEF RemettreOrphelin, remettre_en_file, HorsTache, Pcs, PcTache, PcTravail, PcBalayage, PcLibre
  <2>2. TypeRegistre'
    BY <1>10 DEF RemettreOrphelin, remettre_en_file, TypeRegistre, Statuts, STATUTS_ACTIFS, TypeBalayage, PcExamen, TypeComplet, TypeOK, Aller
  <2>3. TypeBalayage'
    BY <1>10 DEF RemettreOrphelin, remettre_en_file, TypeBalayage, TypeTache, Version, PcExamen, balayage, TypeComplet, TypeOK, Aller
  <2>4. UNCHANGED <<redis, imports, portes, web>>
    BY <1>10 DEF RemettreOrphelin, remettre_en_file, redis, imports, portes
  <2> QED BY <2>1, <2>2, <2>3, <2>4, TypeHorsTache, TypeCadre DEF TypeComplet, TypeOK, balayage, tache
<1>11. CASE FinirReconciliation(w)
  <2>1. HorsTache(w)
    BY <1>11 DEF FinirReconciliation, HorsTache, Pcs, PcTache, PcTravail, PcBalayage, PcLibre
  <2>2. TypeBalayage'
    BY <1>11 DEF FinirReconciliation, TypeBalayage, TypeTache, Version, PcExamen, balayage, TypeComplet, TypeOK, Aller
  <2>3. UNCHANGED <<redis, registre, imports, portes, web>>
    BY <1>11 DEF FinirReconciliation, redis, registre, imports, portes
  <2> QED BY <2>1, <2>2, <2>3, TypeHorsTache, TypeCadre DEF TypeComplet, TypeOK, balayage, tache
<1> QED BY <1>1, <1>2, <1>3, <1>4, <1>5, <1>6, <1>7, <1>8, <1>9, <1>10, <1>11 DEF Reconcilier

LEMMA TypeTete ==
  ASSUME TypeComplet, NEW w \in Workers, UNCHANGED <<web, compteurs>>, TeteDeBoucle(w)
  PROVE  TypeComplet'
<1>1. CASE process_retry_queue(w)
  <2>1. UNCHANGED <<pc, tache, balayage>>
    BY <1>1 DEF process_retry_queue
  <2>2. TypeRedis'
    BY <1>1, AppendGarde DEF process_retry_queue, TypeRedis, Livraisons, TypeComplet, TypeOK, Aller
  <2>3. UNCHANGED <<registre, imports, portes, web>>
    BY <1>1 DEF process_retry_queue, registre, imports, portes
  <2> QED BY <2>1, <2>2, <2>3, TypeCadre DEF TypeComplet, TypeOK
<1>2. CASE dequeue_task(w)
  <2>1. TypeRedis'
    <3>1. Head(file) \in Livraisons /\ Tail(file) \in Seq(Livraisons)
      BY <1>2, HeadTailProperties DEF dequeue_task, TypeRedis, TypeComplet, TypeOK
    <3>2. Append(enTraitement, Head(file)) \in Seq(Livraisons)
      BY <3>1, AppendGarde DEF TypeRedis, TypeComplet, TypeOK
    <3> QED BY <1>2, <3>1, <3>2 DEF dequeue_task, TypeRedis, TypeComplet, TypeOK
  <2>2. TypeTache'
    <3>1. Head(file) \in Livraisons
      BY <1>2, HeadTailProperties DEF dequeue_task, TypeRedis, TypeComplet, TypeOK
    <3>2. /\ pc' = [pc EXCEPT ![w] = "depile"] /\ UNCHANGED <<verdict, envoi>>
          /\ livraison' = [livraison EXCEPT ![w] = Head(file)]
      BY <1>2 DEF dequeue_task, Aller
    <3> QED BY <3>1, <3>2, HypAucun DEF TypeTache, Pcs, PcTache, TypeComplet, TypeOK
  <2>3. TypeBalayage'
    BY <1>2, AppendGarde DEF dequeue_task, TypeBalayage, TypeTache, Version, PcExamen, balayage, TypeComplet, TypeOK, Aller
  <2>4. UNCHANGED <<registre, imports, portes, web>>
    BY <1>2 DEF dequeue_task, registre, imports, portes
  <2> QED BY <2>1, <2>2, <2>3, <2>4, TypeCadre DEF TypeComplet, TypeOK
<1> QED BY <1>1, <1>2 DEF TeteDeBoucle

LEMMA TypeDemarrer ==
  ASSUME TypeComplet, DemarrerWeb, UNCHANGED compteurs
  PROVE  TypeComplet'
<1>1. CASE ListerCandidats
  <2>1. UNCHANGED <<pc, tache, balayage>>
    BY <1>1 DEF ListerCandidats, autres
  <2>2. TypeWeb'
    BY <1>1 DEF ListerCandidats, autres, TypeWeb, TypeComplet, TypeOK, Aller
  <2>3. UNCHANGED <<redis, registre, imports, portes>>
    BY <1>1 DEF ListerCandidats, autres, redis, registre, imports, portes
  <2> QED BY <2>1, <2>2, <2>3, TypeCadre DEF TypeComplet, TypeOK
<1>2. CASE ChercherCandidat
  <2>1. UNCHANGED <<pc, tache, balayage>>
    BY <1>2 DEF ChercherCandidat, autres
  <2>2. TypeWeb'
    BY <1>2 DEF ChercherCandidat, autres, TypeWeb, TypeComplet, TypeOK, Aller
  <2>3. UNCHANGED <<redis, registre, imports, portes>>
    BY <1>2 DEF ChercherCandidat, autres, redis, registre, imports, portes
  <2> QED BY <2>1, <2>2, <2>3, TypeCadre DEF TypeComplet, TypeOK
<1>3. CASE ChercherCandidatTraitement
  <2>1. UNCHANGED <<pc, tache, balayage>>
    BY <1>3 DEF ChercherCandidatTraitement, autres
  <2>2. TypeWeb'
    BY <1>3 DEF ChercherCandidatTraitement, autres, TypeWeb, TypeComplet, TypeOK, Aller
  <2>3. UNCHANGED <<redis, registre, imports, portes>>
    BY <1>3 DEF ChercherCandidatTraitement, autres, redis, registre, imports, portes
  <2> QED BY <2>1, <2>2, <2>3, TypeCadre DEF TypeComplet, TypeOK
<1>4. CASE ChercherCandidatRelance
  <2>1. UNCHANGED <<pc, tache, balayage>>
    BY <1>4 DEF ChercherCandidatRelance, autres
  <2>2. TypeWeb'
    BY <1>4 DEF ChercherCandidatRelance, autres, TypeWeb, TypeComplet, TypeOK, Aller
  <2>3. UNCHANGED <<redis, registre, imports, portes>>
    BY <1>4 DEF ChercherCandidatRelance, autres, redis, registre, imports, portes
  <2> QED BY <2>1, <2>2, <2>3, TypeCadre DEF TypeComplet, TypeOK
<1>5. CASE recover_stale_jobs
  <2>1. UNCHANGED <<pc, tache, balayage>>
    BY <1>5 DEF recover_stale_jobs, autres
  <2>2. TypeRegistre'
    BY <1>5 DEF recover_stale_jobs, autres, TypeRegistre, Statuts, STATUTS_ACTIFS, TypeComplet, TypeOK, Aller
  <2>3. TypeWeb'
    BY <1>5 DEF recover_stale_jobs, autres, TypeWeb, TypeComplet, TypeOK, Aller
  <2>4. UNCHANGED <<redis, imports, portes>>
    BY <1>5 DEF recover_stale_jobs, autres, redis, imports, portes
  <2> QED BY <2>1, <2>2, <2>3, <2>4, TypeCadre DEF TypeComplet, TypeOK
<1> QED BY <1>1, <1>2, <1>3, <1>4, <1>5 DEF DemarrerWeb

LEMMA TypeAlea ==
  ASSUME TypeComplet, NEW w \in Workers, AleaWorker(w)
  PROVE  TypeComplet'
<1>1. ASSUME OublierBalayage(w)
      PROVE  /\ versions' \in [Workers -> [Jobs -> Version]]
             /\ aVoir' \in [Workers -> Seq(Livraisons)]
             /\ decisions' \in [Workers -> Seq([job : Jobs, requeued : BOOLEAN])]
             /\ aVerifier' \in [Workers -> SUBSET Jobs]
             /\ examine' = [examine EXCEPT ![w] = Aucun]
  <2> USE <1>1 DEF OublierBalayage, TypeComplet, TypeOK, TypeBalayage
  <2>1. versions' \in [Workers -> [Jobs -> Version]]
    <3>1. [j \in Jobs |-> -1] \in [Jobs -> Version]
      BY DEF Version
    <3> QED BY <3>1
  <2>2. aVoir' \in [Workers -> Seq(Livraisons)]
    BY EmptySeq
  <2>3. decisions' \in [Workers -> Seq([job : Jobs, requeued : BOOLEAN])]
    <3> DEFINE Decisions == [job : Jobs, requeued : BOOLEAN]
    <3>1. decisions \in [Workers -> Seq(Decisions)] /\ decisions' = [decisions EXCEPT ![w] = <<>>]
      OBVIOUS
    <3> HIDE DEF Decisions
    <3>2. decisions' \in [Workers -> Seq(Decisions)]
      BY <3>1, EmptySeq
    <3> QED BY <3>2 DEF Decisions
  <2>4. /\ aVerifier' \in [Workers -> SUBSET Jobs]
        /\ examine' = [examine EXCEPT ![w] = Aucun]
    OBVIOUS
  <2> QED BY <2>1, <2>2, <2>3, <2>4
<1>2. CASE Tuer(w)
  <2>1. /\ UNCHANGED <<redis, registre, portes, web>>
        /\ UNCHANGED <<attente, preuve, incertain>>
        /\ pannes' = pannes + 1 /\ UNCHANGED <<erreurs, expirations, pertes, rejeux, balayages>>
    BY <1>2 DEF Tuer
  <2>2. TypeCompteurs'
    BY <2>1 DEF TypeCompteurs, TypeComplet
  <2>3. TypeImports'
    BY <1>2 DEF Tuer, TypeImports, TypeComplet, TypeOK
  <2>4. TypeTache'
    BY <1>2 DEF Tuer, Aller, TypeTache, Verdicts, Envois, Pcs, PcTache, PcTravail, PcLibre,
       TypeComplet, TypeOK
  <2>5. TypeBalayage'
    BY <1>1, <1>2 DEF Tuer, Aller, TypeBalayage, TypeTache, PcExamen, OublierBalayage,
       TypeComplet, TypeOK
  <2> QED BY <2>1, <2>2, <2>3, <2>4, <2>5, TypeCadre DEF TypeComplet, TypeOK
<1>3. CASE Relancer(w)
  <2>1. HorsTache(w)
    BY <1>3 DEF Relancer, HorsTache, Pcs, PcTache, PcTravail, PcLibre
  <2>2. TypeBalayage'
    BY <1>3 DEF Relancer, Aller, TypeBalayage, TypeTache, PcExamen, balayage, TypeComplet, TypeOK
  <2>3. UNCHANGED <<redis, registre, imports, portes, web, compteurs>>
    BY <1>3 DEF Relancer
  <2> QED BY <2>1, <2>2, <2>3, TypeHorsTache, TypeCadre DEF TypeComplet, TypeOK
<1>4. CASE PanneAppel(w)
  <2>1. ResteTache(w)
    BY <1>4 DEF PanneAppel, ExceptionEchappee, ClotureRatee, PcSansFilet, ResteTache, tache,
       PcTache, PcTravail, TypeComplet, TypeOK, TypeTache, Aller, Verdicts
  <2>2. /\ UNCHANGED <<redis, registre, imports, portes, web>>
        /\ erreurs' = erreurs + 1 /\ UNCHANGED <<pannes, expirations, pertes, rejeux, balayages>>
    BY <1>4 DEF PanneAppel, ExceptionEchappee, ClotureRatee
  <2>3. TypeCompteurs'
    BY <2>2 DEF TypeCompteurs, TypeComplet
  <2> QED BY <2>1, <2>2, <2>3, TypeResteTache, TypeCadre DEF TypeComplet, TypeOK
<1>5. CASE InterrompreBalayage(w)
  <2>1. HorsTache(w)
    BY <1>5 DEF InterrompreBalayage, HorsTache, Pcs, PcTache, PcTravail, PcBalayage, PcLibre
  <2>2. TypeBalayage'
    BY <1>1, <1>5 DEF InterrompreBalayage, Aller, TypeBalayage, TypeTache, PcExamen,
       OublierBalayage, TypeComplet, TypeOK
  <2>3. /\ UNCHANGED <<redis, registre, imports, portes, web>>
        /\ erreurs' = erreurs + 1 /\ UNCHANGED <<pannes, expirations, pertes, rejeux, balayages>>
    BY <1>5 DEF InterrompreBalayage
  <2>4. TypeCompteurs'
    BY <2>3 DEF TypeCompteurs, TypeComplet
  <2> QED BY <2>1, <2>2, <2>3, <2>4, TypeHorsTache, TypeCadre DEF TypeComplet, TypeOK
<1> QED BY <1>2, <1>3, <1>4, <1>5 DEF AleaWorker

LEMMA TypeDebutBalayage ==
  ASSUME TypeComplet, NEW w \in Workers,
         Balayer(w) \/ (SauterBalayage(w) /\ UNCHANGED <<web, compteurs>>)
  PROVE  TypeComplet'
<1>1. CASE Balayer(w)
  <2>1. HorsTache(w)
    BY <1>1 DEF Balayer, LireVersions, HorsTache, Pcs, PcTache, PcTravail, PcBalayage, PcLibre
  <2>2. TypeBalayage'
    <3>1. VersionsLues \in [Jobs -> Version]
      BY DEF VersionsLues, Version, TypeRegistre, TypeComplet, TypeOK
    <3> HIDE DEF VersionsLues
    <3> QED BY <1>1, <3>1 DEF Balayer, LireVersions, Aller, TypeBalayage, TypeTache, PcExamen,
       TypeComplet, TypeOK
  <2>3. /\ UNCHANGED <<redis, registre, imports, portes, web>>
        /\ UNCHANGED <<pannes, erreurs, expirations, pertes, rejeux>>
        /\ UNCHANGED balayages \/ balayages' = balayages + 1
    BY <1>1 DEF Balayer, LireVersions
  <2>4. TypeCompteurs'
    BY <2>3 DEF TypeCompteurs, TypeComplet
  <2> QED BY <2>1, <2>2, <2>3, <2>4, TypeHorsTache, TypeCadre DEF TypeComplet, TypeOK
<1>2. CASE SauterBalayage(w) /\ UNCHANGED <<web, compteurs>>
  <2>1. HorsTache(w)
    BY <1>2 DEF SauterBalayage, HorsTache, Pcs, PcTache, PcTravail, PcLibre
  <2>2. TypeBalayage'
    BY <1>2 DEF SauterBalayage, Aller, TypeBalayage, TypeTache, PcExamen, balayage,
       TypeComplet, TypeOK
  <2>3. UNCHANGED <<redis, registre, imports, portes, web, compteurs>>
    BY <1>2 DEF SauterBalayage
  <2> QED BY <2>1, <2>2, <2>3, TypeHorsTache, TypeCadre DEF TypeComplet, TypeOK
<1> QED BY <1>1, <1>2

LEMMA TypeEnvironnement ==
  ASSUME TypeComplet,
         \/ \E j \in Jobs : ExpirerMort(j) \/ ExpirerVivant(j)
         \/ Rejouer
         \/ PerdreRedis
  PROVE  TypeComplet'
<1>1. ASSUME NEW j \in Jobs, ExpirerMort(j) \/ ExpirerVivant(j) PROVE TypeComplet'
  <2>1. /\ UNCHANGED <<registre, imports, pc, tache, balayage, portes, web>>
        /\ UNCHANGED <<file, enTraitement, relance, morte>>
        /\ claim' = [claim EXCEPT ![j] = Aucun]
        /\ UNCHANGED <<pannes, erreurs, pertes, rejeux, balayages>>
        /\ UNCHANGED expirations \/ expirations' = expirations + 1
    BY <1>1 DEF ExpirerMort, ExpirerVivant, LacherClaim
  <2>2. TypeRedis' /\ TypeCompteurs'
    BY <2>1 DEF TypeRedis, TypeCompteurs, TypeComplet, TypeOK
  <2> QED BY <2>1, <2>2, TypeCadre DEF TypeComplet, TypeOK
<1>2. CASE Rejouer
  <2>1. /\ UNCHANGED <<registre, imports, pc, tache, balayage, portes, web>>
        /\ rejeux' = rejeux + 1
        /\ UNCHANGED <<pannes, erreurs, expirations, pertes, balayages>>
    BY <1>2 DEF Rejouer, replay_deadletters
  <2>2. TypeCompteurs'
    BY <2>1 DEF TypeCompteurs, TypeComplet
  <2>3. Head(morte) \in Livraisons /\ Tail(morte) \in Seq(Livraisons)
    BY <1>2, HeadTailProperties DEF Rejouer, replay_deadletters, TypeRedis, TypeComplet, TypeOK
  <2>4. Append(file, Head(morte)) \in Seq(Livraisons)
    BY <2>3, AppendGarde DEF TypeRedis, TypeComplet, TypeOK
  <2>5. TypeRedis'
    BY <1>2, <2>3, <2>4 DEF Rejouer, replay_deadletters, TypeRedis, TypeComplet, TypeOK
  <2> QED BY <2>1, <2>2, <2>5, TypeCadre DEF TypeComplet, TypeOK
<1>3. CASE PerdreRedis
  <2>1. /\ UNCHANGED <<registre, imports, pc, tache, balayage, portes, web>>
        /\ pertes' = pertes + 1
        /\ UNCHANGED <<pannes, erreurs, expirations, rejeux, balayages>>
    BY <1>3 DEF PerdreRedis
  <2>2. TypeRedis' /\ TypeCompteurs'
    BY <1>3, <2>1, EmptySeq DEF PerdreRedis, TypeRedis, TypeCompteurs, TypeComplet, TypeOK
  <2> QED BY <2>1, <2>2, TypeCadre DEF TypeComplet, TypeOK
<1> QED BY <1>1, <1>2, <1>3

(* What the sweeps never touch, and the steps of no worker.                *)
ReconcilieHors(w) ==
  /\ UNCHANGED <<imports, tache>>
  /\ pc[w] \notin PcTache
  /\ UNCHANGED pc \/ \E e \in Pcs \ PcTache : Aller(w, e)

LEMMA ReconcilierHors ==
  ASSUME NEW w \in Workers,
         Reconcilier(w) \/ LireVersions(w) \/ SauterBalayage(w) \/ Relancer(w) \/ InterrompreBalayage(w)
  PROVE  ReconcilieHors(w)
<1> USE DEF ReconcilieHors, Pcs, PcTache, PcTravail, PcBalayage, PcLibre, Examiner
<1>1. CASE LireEnTraitement(w) \/ reprendre_taches_orphelines(w) \/ AppliquerDecision(w)
  BY <1>1 DEF LireEnTraitement, reprendre_taches_orphelines, AppliquerDecision
<1>2. CASE jobs_actifs(w) \/ ChercherFile(w) \/ ChercherTraitement(w) \/ ChercherRelance(w)
  BY <1>2 DEF jobs_actifs, ChercherFile, ChercherTraitement, ChercherRelance
<1>3. CASE AbandonnerOrphelin(w) \/ enqueue_task_si_absent(w) \/ RemettreOrphelin(w)
  BY <1>3 DEF AbandonnerOrphelin, enqueue_task_si_absent, RemettreOrphelin
<1>4. CASE FinirReconciliation(w) \/ LireVersions(w) \/ SauterBalayage(w)
  BY <1>4 DEF FinirReconciliation, LireVersions, SauterBalayage
<1>5. CASE Relancer(w) \/ InterrompreBalayage(w)
  BY <1>5 DEF Relancer, InterrompreBalayage
<1> QED BY <1>1, <1>2, <1>3, <1>4, <1>5 DEF Reconcilier

AutrePas ==
  \/ \E j \in Jobs : PasRoute(j) \/ ExpirerMort(j) \/ ExpirerVivant(j)
  \/ DemarrerWeb \/ Rejouer \/ PerdreRedis \/ UNCHANGED vars

LEMMA AutrePasHors == AutrePas => UNCHANGED <<imports, pc, tache>>
BY DEF AutrePas, PasRoute, create_job, enqueue_task, EnfilageRate, cancel_job, ExpirerMort,
   ExpirerVivant, LacherClaim, DemarrerWeb, ListerCandidats, ChercherCandidat,
   ChercherCandidatTraitement, ChercherCandidatRelance, recover_stale_jobs, autres, Rejouer,
   replay_deadletters, PerdreRedis, vars

(* What a sweep, a web request or the environment does to the rows: never  *)
(* a good end, never a new owner.                                          *)
RegistreRecule ==
  \A j \in Jobs : /\ par'[j] \in {par[j], Aucun}
                  /\ statut'[j] \in {statut[j], "pending", "failed", "cancelled"}

LEMMA ReconcilierRecule ==
  ASSUME TypeComplet, NEW w \in Workers,
         Reconcilier(w) \/ LireVersions(w) \/ SauterBalayage(w) \/ Relancer(w) \/ InterrompreBalayage(w)
  PROVE  RegistreRecule
<1>1. ASSUME NEW j \in Jobs, NEW d \in BOOLEAN, NEW v, remettre_en_file(j, d, v) PROVE RegistreRecule
  BY <1>1 DEF remettre_en_file, RegistreRecule, TypeComplet, TypeOK, TypeRegistre
<1>2. CASE AppliquerDecision(w)
  <2>1. Head(decisions[w]) \in [job : Jobs, requeued : BOOLEAN]
    BY <1>2, HeadTailProperties DEF AppliquerDecision, TypeComplet, TypeOK, TypeBalayage
  <2> QED BY <1>1, <1>2, <2>1 DEF AppliquerDecision
<1>3. CASE AbandonnerOrphelin(w) \/ RemettreOrphelin(w)
  <2>1. examine[w] \in Jobs
    BY <1>3 DEF AbandonnerOrphelin, RemettreOrphelin, TypeComplet, TypeOK, TypeBalayage, PcExamen
  <2> QED BY <1>1, <1>3, <2>1 DEF AbandonnerOrphelin, RemettreOrphelin
<1>4. ASSUME UNCHANGED registre PROVE RegistreRecule
  BY <1>4 DEF registre, RegistreRecule
<1>5. CASE \/ LireEnTraitement(w) \/ reprendre_taches_orphelines(w) \/ jobs_actifs(w)
           \/ enqueue_task_si_absent(w) \/ FinirReconciliation(w)
  BY <1>4, <1>5 DEF LireEnTraitement, reprendre_taches_orphelines, jobs_actifs,
     enqueue_task_si_absent, FinirReconciliation
<1>6. CASE ChercherFile(w) \/ ChercherTraitement(w) \/ ChercherRelance(w)
  BY <1>4, <1>6 DEF ChercherFile, ChercherTraitement, ChercherRelance, Examiner
<1>7. CASE LireVersions(w) \/ SauterBalayage(w) \/ Relancer(w) \/ InterrompreBalayage(w)
  BY <1>4, <1>7 DEF LireVersions, SauterBalayage, Relancer, InterrompreBalayage
<1> QED BY <1>2, <1>3, <1>5, <1>6, <1>7 DEF Reconcilier

LEMMA AutrePasRecule ==
  ASSUME TypeComplet, AutrePas
  PROVE  RegistreRecule
<1> USE DEF RegistreRecule
<1>1. ASSUME NEW j \in Jobs, PasRoute(j) PROVE RegistreRecule
  BY <1>1 DEF PasRoute, create_job, enqueue_task, EnfilageRate, cancel_job, registre, TypeComplet,
     TypeOK, TypeRegistre
<1>2. CASE recover_stale_jobs
  BY <1>2 DEF recover_stale_jobs
<1>3. CASE ~recover_stale_jobs /\ \A j \in Jobs : ~PasRoute(j)
  BY <1>3 DEF AutrePas, ExpirerMort, ExpirerVivant, LacherClaim, DemarrerWeb, ListerCandidats,
     ChercherCandidat, ChercherCandidatTraitement, ChercherCandidatRelance, Rejouer,
     replay_deadletters, PerdreRedis, vars, registre
<1> QED BY <1>1, <1>2, <1>3

LEMMA TypePas == TypeComplet /\ [Next]_vars => TypeComplet'
<1> SUFFICES ASSUME TypeComplet, [Next]_vars PROVE TypeComplet'
  OBVIOUS
<1>1. ASSUME NEW j \in Jobs, PasRoute(j) /\ UNCHANGED <<web, compteurs>> PROVE TypeComplet'
  BY <1>1, TypeRoute
<1>2. ASSUME NEW w \in Workers, PasWorker(w) /\ UNCHANGED <<web, compteurs>> PROVE TypeComplet'
  BY <1>2, TypeSuite, TypeTraitement, TypeReconcilier, TypeTete, TypeDebutBalayage
     DEF PasWorker, Avancer
<1>3. ASSUME NEW w \in Workers, Balayer(w) \/ AleaWorker(w) PROVE TypeComplet'
  BY <1>3, TypeAlea, TypeDebutBalayage
<1>4. CASE DemarrerWeb /\ UNCHANGED compteurs
  BY <1>4, TypeDemarrer
<1>5. CASE \/ \E j \in Jobs : ExpirerMort(j) \/ ExpirerVivant(j)
           \/ Rejouer
           \/ PerdreRedis
  BY <1>5, TypeEnvironnement
<1>6. CASE UNCHANGED vars
  BY <1>6, TypeCadre DEF vars, TypeComplet, TypeOK
<1> QED BY <1>1, <1>2, <1>3, <1>4, <1>5, <1>6 DEF Next

(* Every variable of the queue keeps its type, and a worker closes a job   *)
(* only with a verdict that closes one.                                    *)
THEOREM TypeCorrect == Spec => []TypeComplet
<1>1. Init => TypeComplet
  BY InitType
<1>2. TypeComplet /\ [Next]_vars => TypeComplet'
  BY TypePas
<1> QED BY <1>1, <1>2, PTL DEF Spec

----------------------------------------------------------------------------
(* A worker that holds the claim of its job has its delivery in the        *)
(* processing list.                                                        *)

LEMMA InitTenue == Init => LivraisonEnTraitement
BY DEF Init, InitFile, LivraisonEnTraitement, PcTenu, PcTravail

(* A step that leaves the processing list and the deliveries in hand, and  *)
(* takes no claim.                                                         *)
LEMMA TenueIntacte ==
  ASSUME TypeComplet, LivraisonEnTraitement, UNCHANGED <<enTraitement, livraison>>,
         \A j \in Jobs : claim'[j] \in {claim[j], Aucun},
         \A x \in Workers : pc'[x] \in PcTenu => pc[x] \in PcTenu
  PROVE  LivraisonEnTraitement'
<1> SUFFICES ASSUME NEW x \in Workers, pc'[x] \in PcTenu, claim'[JobDe(x)] = x
             PROVE  Contains(enTraitement, livraison[x])
  BY DEF LivraisonEnTraitement, ClaimAMoi, JobDe
<1>1. JobDe(x) \in Jobs
  BY JobEnMain DEF PcTenu, PcTache
<1>2. claim[JobDe(x)] = x
  BY <1>1, HypAucun
<1> QED BY <1>2 DEF LivraisonEnTraitement, ClaimAMoi

(* A payload comes in, or one goes out whose job is claimed by w, the      *)
(* worker that moves, or by nobody.                                        *)
GardeTenues(w) ==
  \/ UNCHANGED enTraitement
  \/ \E d \in Livraisons : enTraitement' = Append(enTraitement, d)
  \/ \E d \in Livraisons :
       claim[d.job] \in {w, Aucun} /\ enTraitement' = Lrem(enTraitement, d)

LEMMA TenueAutres ==
  ASSUME TypeComplet, LivraisonEnTraitement, NEW w \in Workers, GardeTenues(w),
         pc'[w] \notin PcTenu, \A j \in Jobs : claim'[j] \in {claim[j], Aucun},
         \A x \in Workers \ {w} : pc'[x] = pc[x] /\ livraison'[x] = livraison[x]
  PROVE  LivraisonEnTraitement'
<1> SUFFICES ASSUME NEW x \in Workers \ {w}, pc[x] \in PcTenu, claim'[JobDe(x)] = x
             PROVE  Contains(enTraitement', livraison[x])
  BY DEF LivraisonEnTraitement, ClaimAMoi, JobDe
<1>1. livraison[x] \in Livraisons /\ JobDe(x) \in Jobs
  BY JobEnMain DEF PcTenu, PcTache
<1>2. claim[JobDe(x)] = x
  BY <1>1, HypAucun
<1>3. Contains(enTraitement, livraison[x])
  BY <1>2 DEF LivraisonEnTraitement, ClaimAMoi
<1>4. enTraitement \in Seq(Livraisons)
  BY DEF TypeComplet, TypeOK, TypeRedis
<1>5. ASSUME NEW d \in Livraisons, enTraitement' = Append(enTraitement, d)
      PROVE  Contains(enTraitement', livraison[x])
  BY <1>3, <1>4, <1>5, AppendGarde
<1>6. ASSUME NEW d \in Livraisons, claim[d.job] \in {w, Aucun}, enTraitement' = Lrem(enTraitement, d)
      PROVE  Contains(enTraitement', livraison[x])
  <2>1. livraison[x] # d
    BY <1>2, <1>6, HypAucun DEF JobDe
  <2> QED BY <1>1, <1>3, <1>4, <1>6, <2>1, LremGarde
<1> QED BY <1>3, <1>5, <1>6 DEF GardeTenues

LEMMA TenueSuite ==
  ASSUME TypeComplet, LivraisonEnTraitement, NEW w \in Workers, SuiteDeBoucle(w) \/ TeteDeBoucle(w)
  PROVE  LivraisonEnTraitement'
<1> USE DEF PcTenu, PcTravail
<1>1. pc[w] \in PcTache => livraison[w] \in Livraisons /\ JobDe(w) \in Jobs
  BY JobEnMain
<1>2. CASE revendiquer_tache(w)
  <2>1. \A x \in Workers \ {w} : pc'[x] = pc[x] /\ livraison'[x] = livraison[x]
    BY <1>2 DEF revendiquer_tache, Aller, TypeComplet, TypeOK, TypeTache
  <2>2. CASE PeutRevendiquer(w)
    <3>1. /\ claim' = [claim EXCEPT ![JobDe(w)] = w] /\ UNCHANGED <<livraison, enTraitement>>
          /\ Contains(enTraitement, livraison[w])
      BY <1>2, <2>2 DEF revendiquer_tache, PeutRevendiquer
    <3>2. ASSUME NEW x \in Workers \ {w}, pc[x] \in PcTenu, claim'[JobDe(x)] = x
          PROVE  Contains(enTraitement, livraison[x])
      <4>1. JobDe(x) \in Jobs
        BY <3>2, JobEnMain DEF PcTache
      <4>2. claim[JobDe(x)] = x
        BY <3>1, <3>2, <4>1 DEF TypeComplet, TypeOK, TypeRedis
      <4> QED BY <3>2, <4>2 DEF LivraisonEnTraitement, ClaimAMoi
    <3> QED BY <2>1, <3>1, <3>2 DEF LivraisonEnTraitement, ClaimAMoi, JobDe
  <2>3. CASE ~PeutRevendiquer(w)
    <3>1. pc'[w] = "boucle" /\ UNCHANGED <<claim, enTraitement>>
      BY <1>2, <2>3 DEF revendiquer_tache, Aller, TypeComplet, TypeOK, TypeTache
    <3> QED BY <2>1, <3>1, TenueAutres DEF GardeTenues
  <2> QED BY <2>2, <2>3
<1>3. CASE AcquitterRefus(w) \/ ack_task(w) \/ retry_task(w) \/ deadletter_task(w)
  <2>1. pc[w] \in PcTache /\ UNCHANGED <<claim, livraison>>
    BY <1>3 DEF AcquitterRefus, ack_task, retry_task, deadletter_task, tache, PcTache
  <2>2. GardeTenues(w)
    BY <1>1, <1>3, <2>1 DEF AcquitterRefus, ack_task, retry_task, deadletter_task, PeutClore,
       ClaimAMoi, JobDe, GardeTenues
  <2>3. pc'[w] \in {"clore", "remettre", "libere"} /\ \A x \in Workers \ {w} : pc'[x] = pc[x]
    BY <1>3 DEF AcquitterRefus, ack_task, retry_task, deadletter_task, Aller, TypeComplet, TypeOK,
       TypeTache
  <2> QED BY <2>1, <2>2, <2>3, TenueAutres
<1>4. CASE marquer_job_claim(w) \/ Decider(w) \/ NoterRelance(w) \/ terminer_job(w)
  <2>1. UNCHANGED <<redis, livraison>>
    BY <1>4 DEF marquer_job_claim, Decider, NoterRelance, terminer_job, tache
  <2>2. \A x \in Workers : pc'[x] \in PcTenu => pc[x] \in PcTenu
    BY <1>4 DEF marquer_job_claim, Decider, SuiteDuVerdict, NoterRelance, terminer_job, Aller,
       TypeComplet, TypeOK, TypeTache
  <2> QED BY <2>1, <2>2, TenueIntacte DEF redis
<1>5. CASE liberer_revendication(w)
  <2>1. /\ pc'[w] = "boucle" /\ UNCHANGED enTraitement
        /\ \A x \in Workers \ {w} : pc'[x] = pc[x] /\ livraison'[x] = livraison[x]
    BY <1>5 DEF liberer_revendication, Aller, TypeComplet, TypeOK, TypeTache
  <2>2. \A j \in Jobs : claim'[j] \in {claim[j], Aucun}
    BY <1>5 DEF liberer_revendication, TypeComplet, TypeOK, TypeRedis
  <2> QED BY <2>1, <2>2, TenueAutres DEF GardeTenues
<1>6. CASE process_retry_queue(w)
  BY <1>6, TenueIntacte DEF process_retry_queue, tache
<1>7. CASE dequeue_task(w)
  <2>1. Head(file) \in Livraisons
    BY <1>7, HeadTailProperties DEF dequeue_task, TypeRedis, TypeComplet, TypeOK
  <2>2. /\ pc'[w] = "depile" /\ enTraitement' = Append(enTraitement, Head(file)) /\ UNCHANGED claim
        /\ \A x \in Workers \ {w} : pc'[x] = pc[x] /\ livraison'[x] = livraison[x]
    BY <1>7 DEF dequeue_task, Aller, TypeComplet, TypeOK, TypeTache
  <2> QED BY <2>1, <2>2, TenueAutres DEF GardeTenues
<1> QED BY <1>2, <1>3, <1>4, <1>5, <1>6, <1>7 DEF SuiteDeBoucle, TeteDeBoucle

LEMMA TenueTraitement ==
  ASSUME TypeComplet, LivraisonEnTraitement, NEW w \in Workers, Traiter(w)
  PROVE  LivraisonEnTraitement'
<1> USE DEF PcVerrouille
<1>1. /\ UNCHANGED <<redis, livraison>> /\ pc[w] \in PcTravail
      /\ \A x \in Workers \ {w} : pc'[x] = pc[x]
  <2> USE DEF PcTravail, Aller, tache, TypeComplet, TypeOK, TypeTache
  <2>1. CASE DebuterTraitement(w) \/ PrendreVerrou(w)
    BY <2>1 DEF DebuterTraitement, PrendreVerrou
  <2>2. CASE ConstaterAnnulation(w) \/ EchouerTraitement(w) \/ EchouerApresPublication(w)
    BY <2>2 DEF ConstaterAnnulation, EchouerTraitement, Rompre, EchouerApresPublication
  <2>3. CASE PersisterIntention(w) \/ RienAEnvoyer(w) \/ Envoyer(w) \/ Publier(w)
    BY <2>3 DEF PersisterIntention, RienAEnvoyer, Envoyer, Publier
  <2>4. CASE EcrireResultat(w) \/ TerminerTraitement(w) \/ PanneTardive(w)
    BY <2>4 DEF EcrireResultat, TerminerTraitement, PanneTardive
  <2>5. CASE AttraperAnnulation(w) \/ AttraperException(w)
    BY <2>5 DEF AttraperAnnulation, AttraperException, VerifierProprietaire
  <2>6. CASE EcrireAnnulation(w) \/ EcrireRevue(w) \/ EcrireEchec(w)
    BY <2>6 DEF EcrireAnnulation, EcrireRevue, EcrireEchec, Rendre
  <2> QED BY <2>1, <2>2, <2>3, <2>4, <2>5, <2>6 DEF Traiter
<1>2. \A x \in Workers : pc'[x] \in PcTenu => pc[x] \in PcTenu
  BY <1>1 DEF PcTenu
<1> QED BY <1>1, <1>2, TenueIntacte DEF redis

LEMMA TenueReconcilier ==
  ASSUME TypeComplet, LivraisonEnTraitement, NEW w \in Workers,
         Reconcilier(w) \/ LireVersions(w) \/ SauterBalayage(w) \/ Relancer(w) \/ InterrompreBalayage(w)
  PROVE  LivraisonEnTraitement'
<1>1. /\ UNCHANGED livraison /\ pc'[w] \notin PcTenu
      /\ \A x \in Workers \ {w} : pc'[x] = pc[x]
  BY ReconcilierHors DEF ReconcilieHors, tache, Aller, PcTenu, PcTache, TypeComplet, TypeOK, TypeTache
<1>2. GardeTenues(w)
  <2>1. CASE reprendre_taches_orphelines(w)
    <3>1. Head(aVoir[w]) \in Livraisons
      BY <2>1, HeadTailProperties DEF reprendre_taches_orphelines, TypeComplet, TypeOK, TypeBalayage
    <3> QED BY <2>1, <3>1 DEF reprendre_taches_orphelines, Orpheline, GardeTenues
  <2>2. CASE ~reprendre_taches_orphelines(w)
    BY <2>2 DEF GardeTenues, Reconcilier, LireEnTraitement, AppliquerDecision, jobs_actifs,
       ChercherFile, ChercherTraitement, ChercherRelance, Examiner, AbandonnerOrphelin,
       enqueue_task_si_absent, RemettreOrphelin, FinirReconciliation, LireVersions, SauterBalayage,
       Relancer, InterrompreBalayage, redis
  <2> QED BY <2>1, <2>2
<1>3. UNCHANGED claim
  BY DEF Reconcilier, LireEnTraitement, reprendre_taches_orphelines, AppliquerDecision, jobs_actifs,
     ChercherFile, ChercherTraitement, ChercherRelance, Examiner, AbandonnerOrphelin,
     enqueue_task_si_absent, RemettreOrphelin, FinirReconciliation, LireVersions, SauterBalayage,
     Relancer, InterrompreBalayage, redis
<1> QED BY <1>1, <1>2, <1>3, TenueAutres

LEMMA TenueAlea ==
  ASSUME TypeComplet, LivraisonEnTraitement, NEW w \in Workers, Tuer(w) \/ PanneAppel(w)
  PROVE  LivraisonEnTraitement'
<1>1. /\ UNCHANGED redis /\ pc'[w] \in {"arret", "relancer", "enterrer", "libere"}
      /\ \A x \in Workers \ {w} : pc'[x] = pc[x] /\ livraison'[x] = livraison[x]
  BY DEF Tuer, PanneAppel, ExceptionEchappee, ClotureRatee, tache, Aller, TypeComplet, TypeOK, TypeTache
<1> QED BY <1>1, TenueAutres DEF GardeTenues, redis, PcTenu, PcTravail

LEMMA TenueAutrePas ==
  ASSUME TypeComplet, LivraisonEnTraitement, AutrePas
  PROVE  LivraisonEnTraitement'
<1>1. UNCHANGED <<pc, livraison>>
  BY AutrePasHors DEF tache
<1>2. CASE PerdreRedis
  <2> SUFFICES ASSUME NEW x \in Workers, pc[x] \in PcTenu, claim'[JobDe(x)] = x PROVE FALSE
    BY <1>1 DEF LivraisonEnTraitement, ClaimAMoi, JobDe
  <2>1. JobDe(x) \in Jobs
    BY JobEnMain DEF PcTenu, PcTache
  <2> QED BY <1>2, <2>1, HypAucun DEF PerdreRedis
<1>3. CASE ~PerdreRedis
  <2>1. UNCHANGED enTraitement
    BY <1>3 DEF AutrePas, PasRoute, create_job, enqueue_task, EnfilageRate, cancel_job, ExpirerMort,
       ExpirerVivant, LacherClaim, DemarrerWeb, ListerCandidats, ChercherCandidat,
       ChercherCandidatTraitement, ChercherCandidatRelance, recover_stale_jobs, autres, Rejouer,
       replay_deadletters, vars, redis
  <2>2. \A j \in Jobs : claim'[j] \in {claim[j], Aucun}
    BY <1>3 DEF AutrePas, PasRoute, create_job, enqueue_task, EnfilageRate, cancel_job, ExpirerMort,
       ExpirerVivant, LacherClaim, DemarrerWeb, ListerCandidats, ChercherCandidat,
       ChercherCandidatTraitement, ChercherCandidatRelance, recover_stale_jobs, autres, Rejouer,
       replay_deadletters, vars, redis, TypeComplet, TypeOK, TypeRedis
  <2> QED BY <1>1, <2>1, <2>2, TenueIntacte
<1> QED BY <1>2, <1>3

LEMMA TenuePas == TypeComplet /\ LivraisonEnTraitement /\ [Next]_vars => LivraisonEnTraitement'
<1> SUFFICES ASSUME TypeComplet, LivraisonEnTraitement, [Next]_vars PROVE LivraisonEnTraitement'
  OBVIOUS
<1>1. ASSUME NEW w \in Workers, PasWorker(w) \/ Balayer(w) \/ AleaWorker(w)
      PROVE  LivraisonEnTraitement'
  BY <1>1, TenueSuite, TenueTraitement, TenueReconcilier, TenueAlea
     DEF PasWorker, Avancer, Balayer, AleaWorker
<1>2. CASE AutrePas
  BY <1>2, TenueAutrePas
<1> QED BY <1>1, <1>2 DEF Next, AutrePas

(* The delivery a worker holds the claim of is in the processing list: no  *)
(* sweep, no expiry and no other worker takes it from under its owner.     *)
THEOREM LivraisonToujoursTenue == Spec => []LivraisonEnTraitement
<1>1. Init => LivraisonEnTraitement
  BY InitTenue
<1>2. TypeComplet /\ LivraisonEnTraitement /\ [Next]_vars => LivraisonEnTraitement'
  BY TenuePas
<1> QED BY <1>1, <1>2, TypeCorrect, PTL DEF Spec


----------------------------------------------------------------------------
(* The deliveries of a job in a list.                                       *)

LEMMA DansListeAjout ==
  ASSUME NEW S, NEW s \in Seq(S), NEW e \in S, NEW j
  PROVE  DansListe(Append(s, e), j) <=> DansListe(s, j) \/ e.job = j
<1>1. /\ Len(Append(s, e)) = Len(s)+1
      /\ \A i \in 1..Len(s) : Append(s, e)[i] = s[i]
      /\ Append(s, e)[Len(s)+1] = e
      /\ Len(s) \in Nat
  OBVIOUS
<1>2. ASSUME DansListe(Append(s, e), j) PROVE DansListe(s, j) \/ e.job = j
  <2>1. PICK i \in 1..Len(s)+1 : Append(s, e)[i].job = j
    BY <1>1, <1>2 DEF DansListe
  <2> QED BY <1>1, <2>1 DEF DansListe
<1>3. ASSUME DansListe(s, j) PROVE DansListe(Append(s, e), j)
  <2>1. PICK i \in 1..Len(s) : s[i].job = j
    BY <1>3 DEF DansListe
  <2>2. i \in 1..Len(s)+1 /\ Append(s, e)[i].job = j
    BY <1>1, <2>1
  <2> QED BY <1>1, <2>2 DEF DansListe
<1>4. ASSUME e.job = j PROVE DansListe(Append(s, e), j)
  BY <1>1, <1>4 DEF DansListe
<1> QED BY <1>2, <1>3, <1>4

(* The same of the decisions a sweep writes down one after the other.        *)
LEMMA DecisionAjoutee ==
  \A s \in Seq([job : Jobs, requeued : BOOLEAN]), e \in [job : Jobs, requeued : BOOLEAN], j \in Jobs :
    DansListe(Append(s, e), j) <=> DansListe(s, j) \/ e.job = j
<1>1. ASSUME NEW S, NEW s \in Seq(S), NEW e \in S, NEW j
      PROVE  DansListe(Append(s, e), j) <=> DansListe(s, j) \/ e.job = j
  BY DansListeAjout
<1>2. \A S : \A s \in Seq(S), e \in S, j \in Jobs :
        DansListe(Append(s, e), j) <=> DansListe(s, j) \/ e.job = j
  BY <1>1, Zenon
<1> QED BY <1>2, Zenon

LEMMA DansListeQueue ==
  ASSUME NEW S, NEW s \in Seq(S), s # <<>>, NEW j
  PROVE  DansListe(s, j) <=> DansListe(Tail(s), j) \/ Head(s).job = j
<1>1. /\ Len(s) \in Nat \ {0} /\ Len(Tail(s)) = Len(s)-1
      /\ \A i \in 1..Len(s)-1 : Tail(s)[i] = s[i+1]
      /\ Head(s) = s[1]
  OBVIOUS
<1>2. ASSUME DansListe(s, j), Head(s).job # j PROVE DansListe(Tail(s), j)
  <2>1. PICK i \in 1..Len(s) : s[i].job = j
    BY <1>2 DEF DansListe
  <2>2. i-1 \in 1..Len(s)-1 /\ (i-1)+1 = i
    BY <1>1, <1>2, <2>1
  <2> QED BY <1>1, <2>1, <2>2 DEF DansListe
<1>3. ASSUME DansListe(Tail(s), j) PROVE DansListe(s, j)
  <2>1. PICK i \in 1..Len(s)-1 : Tail(s)[i].job = j
    BY <1>1, <1>3 DEF DansListe
  <2>2. i+1 \in 1..Len(s) /\ s[i+1].job = j
    BY <1>1, <2>1
  <2> QED BY <2>2 DEF DansListe
<1>4. ASSUME Head(s).job = j PROVE DansListe(s, j)
  BY <1>1, <1>4 DEF DansListe
<1> QED BY <1>2, <1>3, <1>4

LEMMA DansListeContient ==
  ASSUME NEW s, NEW d, Contains(s, d)
  PROVE  DansListe(s, d.job)
BY DEF Contains, DansListe

LEMMA DansListeRetrait ==
  ASSUME NEW S, NEW s \in Seq(S), NEW e, NEW j, DansListe(s, j), e.job # j
  PROVE  DansListe(Lrem(s, e), j)
<1>1. PICK i \in 1..Len(s) : s[i].job = j
  BY DEF DansListe
<1>2. s[i] \in S /\ s[i] # e /\ Contains(s, s[i])
  <2>1. s[i] \in S
    BY ElementOfSeq
  <2> QED BY <1>1, <2>1 DEF Contains
<1>3. Contains(Lrem(s, e), s[i])
  BY <1>2, LremGarde
<1> QED BY <1>1, <1>3, DansListeContient

----------------------------------------------------------------------------
(* What a step of a worker does to the rows: its own, and only while it is *)
(* written there.                                                           *)

LigneParSoi(w) ==
  \A i \in Jobs :
    /\ par'[i] \in {par[i], Aucun} /\ tentatives'[i] = tentatives[i]
    /\ statut'[i] = statut[i] \/ (i = JobDe(w) /\ par[i] = w)

AutresIntacts(w) ==
  \A x \in Workers \ {w} :
    pc'[x] = pc[x] /\ livraison'[x] = livraison[x] /\ verdict'[x] = verdict[x]

LEMMA EffetTraiter ==
  ASSUME TypeComplet, NEW w \in Workers, Traiter(w)
  PROVE  /\ UNCHANGED <<redis, livraison, par, tentatives, balayage, portes>>
         /\ pc[w] \in PcTravail /\ pc'[w] \in PcTravail \cup {"rendu"}
         /\ AutresIntacts(w)
         /\ JobDe(w) \in Jobs
         /\ \A i \in Jobs :
              \/ statut'[i] = statut[i]
              \/ /\ i = JobDe(w) /\ par[i] = w
                 /\ statut'[i] \in {"running", "needs_review", "completed", "cancelled"}
<1> USE DEF PcTravail, Aller, tache, registre, AutresIntacts
<1>0. /\ pc \in [Workers -> Pcs] /\ verdict \in [Workers -> Verdicts] /\ statut \in [Jobs -> Statuts]
  BY DEF TypeComplet, TypeOK, TypeTache, TypeRegistre
<1>1. CASE PrendreVerrou(w) \/ TerminerTraitement(w) \/ PanneTardive(w) \/ EchouerApresPublication(w)
  <2>1. JobDe(w) \in Jobs
    BY <1>1, JobEnMain DEF PrendreVerrou, TerminerTraitement, PanneTardive, EchouerApresPublication, PcTache
  <2> QED BY <1>0, <1>1, <2>1 DEF PrendreVerrou, TerminerTraitement, PanneTardive, EchouerApresPublication
<1>2. CASE ConstaterAnnulation(w) \/ EchouerTraitement(w)
  <2>1. JobDe(w) \in Jobs
    BY <1>2, JobEnMain DEF ConstaterAnnulation, EchouerTraitement, PcVerrouille, PcTache
  <2> QED BY <1>0, <1>2, <2>1 DEF ConstaterAnnulation, EchouerTraitement, Rompre, PcVerrouille
<1>3. CASE PersisterIntention(w) \/ RienAEnvoyer(w) \/ Envoyer(w) \/ Publier(w)
  <2>1. JobDe(w) \in Jobs
    BY <1>3, JobEnMain DEF PersisterIntention, RienAEnvoyer, Envoyer, Publier, PcTache
  <2> QED BY <1>0, <1>3, <2>1 DEF PersisterIntention, RienAEnvoyer, Envoyer, Publier
<1>4. CASE DebuterTraitement(w)
  <2>1. JobDe(w) \in Jobs
    BY <1>4, JobEnMain DEF DebuterTraitement, PcTache
  <2> QED BY <1>0, <1>4, <2>1 DEF DebuterTraitement, EstProprietaireActif
<1>5. CASE EcrireResultat(w)
  <2>1. JobDe(w) \in Jobs
    BY <1>5, JobEnMain DEF EcrireResultat, PcTache
  <2>2. ASSUME NEW f \in StatutsFinaux(JobDe(w)) PROVE StatutEcrit(f) \in {"running", "needs_review", "completed"}
    BY <2>2 DEF StatutsFinaux, StatutEcrit
  <2> QED BY <1>0, <1>5, <2>1, <2>2 DEF EcrireResultat, EstProprietaireActif
<1>6. CASE AttraperAnnulation(w) \/ AttraperException(w)
  <2>1. JobDe(w) \in Jobs
    BY <1>6, JobEnMain DEF AttraperAnnulation, AttraperException, PcTache
  <2> QED BY <1>0, <1>6, <2>1 DEF AttraperAnnulation, AttraperException, VerifierProprietaire
<1>7. CASE EcrireAnnulation(w) \/ EcrireRevue(w) \/ EcrireEchec(w)
  <2>1. JobDe(w) \in Jobs
    BY <1>7, JobEnMain DEF EcrireAnnulation, EcrireRevue, EcrireEchec, PcTache
  <2> QED BY <1>0, <1>7, <2>1 DEF EcrireAnnulation, EcrireRevue, EcrireEchec, Rendre
<1> QED BY <1>1, <1>2, <1>3, <1>4, <1>5, <1>6, <1>7 DEF Traiter

LEMMA EffetSuite ==
  ASSUME TypeComplet, NEW w \in Workers, SuiteDeBoucle(w)
  PROVE  /\ UNCHANGED <<balayage, portes>>
         /\ pc[w] \in PcTache /\ JobDe(w) \in Jobs
         /\ AutresIntacts(w)
         /\ \A i \in Jobs : claim'[i] \in {claim[i], w, Aucun}
         /\ \/ marquer_job_claim(w)
            \/ pc'[w] \in (PcTache \ PcTravail) \cup {"boucle"} /\ LigneParSoi(w)
<1> USE DEF Aller, tache, registre, redis, AutresIntacts, PcTache, PcTravail
<1>0. /\ pc \in [Workers -> Pcs] /\ verdict \in [Workers -> Verdicts] /\ statut \in [Jobs -> Statuts]
      /\ par \in [Jobs -> Workers \cup {Aucun}] /\ claim \in [Jobs -> Workers \cup {Aucun}]
      /\ livraison \in [Workers -> Livraisons \cup {Aucun}]
  BY DEF TypeComplet, TypeOK, TypeTache, TypeRegistre, TypeRedis
<1>1. JobDe(w) \in Jobs
  BY JobEnMain DEF SuiteDeBoucle, revendiquer_tache, marquer_job_claim, AcquitterRefus, Decider,
     ack_task, retry_task, NoterRelance, deadletter_task, terminer_job, liberer_revendication
<1>2. CASE revendiquer_tache(w) \/ liberer_revendication(w)
  BY <1>0, <1>1, <1>2 DEF revendiquer_tache, liberer_revendication, LigneParSoi
<1>3. CASE marquer_job_claim(w)
  BY <1>0, <1>1, <1>3 DEF marquer_job_claim
<1>4. CASE AcquitterRefus(w) \/ ack_task(w) \/ retry_task(w) \/ deadletter_task(w)
  BY <1>0, <1>1, <1>4 DEF AcquitterRefus, ack_task, retry_task, deadletter_task, LigneParSoi
<1>5. CASE Decider(w) \/ NoterRelance(w)
  BY <1>0, <1>1, <1>5 DEF Decider, SuiteDuVerdict, NoterRelance, LigneParSoi
<1>6. CASE terminer_job(w)
  BY <1>0, <1>1, <1>6 DEF terminer_job, PeutTerminer, LigneParSoi
<1> QED BY <1>2, <1>3, <1>4, <1>5, <1>6 DEF SuiteDeBoucle
(* A step of a worker inside its task, or at the head of its loop.          *)
PasTache(w) ==
  /\ AutresIntacts(w) /\ UNCHANGED <<balayage, portes, web>>
  /\ \A i \in Jobs : claim'[i] \in {claim[i], w, Aucun}
  /\ pc[w] \notin PcBalayage /\ pc'[w] \notin PcBalayage
  /\ \/ marquer_job_claim(w)
     \/ /\ LigneParSoi(w)
        /\ \/ pc'[w] \notin PcTravail
           \/ /\ pc[w] \in PcTravail /\ UNCHANGED <<claim, livraison>>
              /\ \A i \in Jobs : statut'[i] \in
                   {statut[i], "running", "needs_review", "completed", "cancelled"}

LEMMA PasDeTache ==
  ASSUME TypeComplet, NEW w \in Workers, UNCHANGED web,
         SuiteDeBoucle(w) \/ Traiter(w) \/ TeteDeBoucle(w) \/ PanneAppel(w)
  PROVE  PasTache(w)
<1>1. CASE Traiter(w)
  <2>1. pc[w] \notin PcBalayage /\ pc'[w] \notin PcBalayage
    BY <1>1, EffetTraiter DEF PcTravail, PcBalayage
  <2>2. LigneParSoi(w) /\ \A i \in Jobs : claim'[i] = claim[i]
    BY <1>1, EffetTraiter DEF LigneParSoi, redis, TypeComplet, TypeOK, TypeRegistre
  <2>3. \A i \in Jobs : statut'[i] \in {statut[i], "running", "needs_review", "completed", "cancelled"}
    BY <1>1, EffetTraiter
  <2> QED BY <1>1, <2>1, <2>2, <2>3, EffetTraiter DEF PasTache, redis
<1>2. CASE SuiteDeBoucle(w)
  <2>1. pc[w] \notin PcBalayage
    BY <1>2, EffetSuite DEF PcTache, PcTravail, PcBalayage
  <2>2. CASE marquer_job_claim(w)
    <3>1. pc'[w] \notin PcBalayage
      BY <2>2 DEF marquer_job_claim, Aller, PcBalayage, TypeComplet, TypeOK, TypeTache
    <3> QED BY <1>2, <2>1, <2>2, <3>1, EffetSuite DEF PasTache
  <2>3. CASE pc'[w] \in (PcTache \ PcTravail) \cup {"boucle"} /\ LigneParSoi(w)
    <3>1. pc'[w] \notin PcBalayage /\ pc'[w] \notin PcTravail
      BY <2>3 DEF PcTache, PcTravail, PcBalayage
    <3> QED BY <1>2, <2>1, <2>3, <3>1, EffetSuite DEF PasTache
  <2> QED BY <1>2, <2>2, <2>3, EffetSuite
<1>3. CASE TeteDeBoucle(w) \/ PanneAppel(w)
  <2>1. UNCHANGED <<registre, claim, balayage, portes>>
    BY <1>3 DEF TeteDeBoucle, process_retry_queue, dequeue_task, PanneAppel, ExceptionEchappee,
       ClotureRatee, redis
  <2>2. AutresIntacts(w)
    BY <1>3 DEF AutresIntacts, TeteDeBoucle, process_retry_queue, dequeue_task, PanneAppel,
       ExceptionEchappee, ClotureRatee, Aller, tache, TypeComplet, TypeOK, TypeTache
  <2>3. /\ pc[w] \notin PcBalayage /\ pc'[w] \notin PcBalayage /\ pc'[w] \notin PcTravail
    BY <1>3 DEF TeteDeBoucle, process_retry_queue, dequeue_task, PanneAppel, ExceptionEchappee,
       ClotureRatee, Aller, PcSansFilet, PcBalayage, PcTravail, TypeComplet, TypeOK, TypeTache
  <2>4. LigneParSoi(w)
    BY <2>1 DEF LigneParSoi, registre, TypeComplet, TypeOK, TypeRegistre
  <2> QED BY <2>1, <2>2, <2>3, <2>4 DEF PasTache
<1> QED BY <1>1, <1>2, <1>3

LEMMA MarquerLigne ==
  ASSUME TypeComplet, NEW w \in Workers, marquer_job_claim(w)
  PROVE  /\ JobDe(w) \in Jobs /\ UNCHANGED <<livraison, claim, balayage>> /\ pc[w] = "revendique"
         /\ \A i \in Jobs \ {JobDe(w)} :
              statut'[i] = statut[i] /\ par'[i] = par[i] /\ tentatives'[i] = tentatives[i]
         /\ \/ /\ Actif(JobDe(w)) /\ pc'[w] = "execute" /\ statut'[JobDe(w)] = "running"
               /\ par'[JobDe(w)] = w /\ tentatives'[JobDe(w)] = tentatives[JobDe(w)] + 1
            \/ pc'[w] = "refuse" /\ UNCHANGED <<statut, par, tentatives>>
<1>1. JobDe(w) \in Jobs
  BY JobEnMain DEF marquer_job_claim, PcTache
<1> QED BY <1>1 DEF marquer_job_claim, Aller, redis, tache, TypeComplet, TypeOK, TypeRegistre, TypeTache

LEMMA ProprieteTache ==
  ASSUME TypeComplet, InvPropriete, NEW w \in Workers, PasTache(w)
  PROVE  InvPropriete'
<1> USE DEF InvPropriete
<1>1. DemandeConnue'
  <2> SUFFICES ASSUME NEW j \in Jobs, demande[j] = "libre"
               PROVE  statut'[j] = "absent" /\ par'[j] = Aucun
    BY DEF DemandeConnue, PasTache, portes, web, balayage
  <2>1. statut[j] = "absent" /\ par[j] = Aucun
    BY DEF DemandeConnue
  <2>2. CASE marquer_job_claim(w)
    <3>1. ~Actif(j)
      BY <2>1 DEF Actif, STATUTS_ACTIFS
    <3> QED BY <2>1, <2>2, <3>1, MarquerLigne
  <2>3. CASE LigneParSoi(w)
    BY <2>1, <2>3, HypAucun DEF LigneParSoi
  <2> QED BY <2>2, <2>3 DEF PasTache
<1>2. LigneMarquee'
  <2> SUFFICES ASSUME NEW x \in Workers, pc'[x] \in PcTravail, par'[JobDe(x)'] = x
               PROVE  statut'[JobDe(x)'] \notin {"pending", "absent"}
    BY DEF LigneMarquee
  <2>1. CASE x # w
    <3>1. JobDe(x)' = JobDe(x) /\ pc[x] \in PcTravail /\ JobDe(x) \in Jobs
      BY <2>1, JobEnMain DEF PasTache, AutresIntacts, JobDe, PcTache
    <3>2. CASE marquer_job_claim(w)
      BY <2>1, <3>1, <3>2, MarquerLigne DEF LigneMarquee
    <3>3. CASE LigneParSoi(w)
      BY <2>1, <3>1, <3>3, HypAucun DEF LigneMarquee, LigneParSoi
    <3> QED BY <3>2, <3>3 DEF PasTache
  <2>2. CASE x = w
    <3>1. CASE marquer_job_claim(w)
      BY <2>2, <3>1, MarquerLigne DEF JobDe, PcTravail
    <3>2. CASE ~marquer_job_claim(w)
      <4>1. /\ LigneParSoi(w) /\ pc[w] \in PcTravail /\ UNCHANGED livraison
            /\ \A i \in Jobs : statut'[i] \in
                   {statut[i], "running", "needs_review", "completed", "cancelled"}
        BY <2>2, <3>2 DEF PasTache
      <4>2. JobDe(w) \in Jobs /\ JobDe(w)' = JobDe(w)
        BY <4>1, JobEnMain DEF JobDe, PcTache
      <4>3. par[JobDe(w)] = w
        BY <2>2, <4>1, <4>2, HypAucun DEF LigneParSoi
      <4> QED BY <2>2, <4>1, <4>2, <4>3 DEF LigneMarquee
    <3> QED BY <3>1, <3>2
  <2> QED BY <2>1, <2>2
<1>3. VersionsVieilles'
  <2>0. UNCHANGED <<versions, decisions, examine>>
    BY DEF PasTache, balayage
  <2>1. \A j \in Jobs : tentatives'[j] \in Nat /\ tentatives'[j] >= tentatives[j] /\ tentatives[j] \in Nat
    BY MarquerLigne DEF PasTache, LigneParSoi, TypeComplet, TypeOK, TypeRegistre
  <2>2. ASSUME NEW v \in Workers
        PROVE  /\ pc'[v] # "reprend" => decisions'[v] = <<>>
               /\ \A j \in Jobs : versions'[v][j] <= tentatives'[j]
               /\ \A j \in Jobs : Vise(v, j)' => Vise(v, j)
    <3>1. pc'[v] # "reprend" => pc[v] # "reprend"
      BY DEF PasTache, AutresIntacts, PcBalayage
    <3>2. \A j \in Jobs : Vise(v, j)' => Vise(v, j)
      BY <2>0 DEF PasTache, AutresIntacts, PcBalayage, PcExamen, Vise
    <3>3. \A j \in Jobs : versions[v][j] \in Int /\ versions[v][j] <= tentatives[j]
      BY DEF VersionsVieilles, TypeComplet, TypeOK, TypeBalayage, Version
    <3> QED BY <2>0, <2>1, <3>1, <3>2, <3>3 DEF VersionsVieilles
  <2>3. ASSUME NEW v \in Workers, NEW x \in Workers, pc'[x] \in PcTravail, claim'[JobDe(x)'] = x,
               \/ DansListe(decisions'[v], JobDe(x)')
               \/ pc'[v] \in PcExamen \ {"cas2traitement"} /\ examine'[v] = JobDe(x)'
        PROVE  versions'[v][JobDe(x)'] < tentatives'[JobDe(x)']
    <3> DEFINE j == JobDe(x)
    <3>1. JobDe(x)' = j /\ j \in Jobs
      <4>1. CASE x # w
        BY <2>3, <4>1, JobEnMain DEF PasTache, AutresIntacts, JobDe, PcTache
      <4>2. CASE x = w /\ marquer_job_claim(w)
        BY <4>2, MarquerLigne DEF JobDe
      <4>3. CASE x = w /\ ~marquer_job_claim(w)
        BY <2>3, <4>3, JobEnMain DEF PasTache, JobDe, PcTache
      <4> QED BY <4>1, <4>2, <4>3
    <3>2. versions[v][j] \in Int /\ tentatives[j] \in Nat /\ versions[v][j] <= tentatives[j]
      BY <2>1, <3>1 DEF VersionsVieilles, TypeComplet, TypeOK, TypeBalayage, Version
    <3>3. CASE x = w /\ marquer_job_claim(w)
      <4>1. tentatives'[j] = tentatives[j] + 1
        BY <2>3, <3>3, MarquerLigne DEF PcTravail
      <4> QED BY <2>0, <3>1, <3>2, <4>1
    <3>4. CASE ~(x = w /\ marquer_job_claim(w))
      <4>1. pc[x] \in PcTravail /\ claim[j] = x
        BY <2>3, <3>1, <3>4, HypAucun DEF PasTache, AutresIntacts
      <4>2. Vise(v, j)
        BY <2>2, <2>3, <3>1 DEF Vise
      <4>3. versions[v][j] < tentatives[j]
        BY <4>1, <4>2 DEF VersionsVieilles, ClaimAMoi
      <4> QED BY <2>0, <2>1, <3>1, <3>2, <4>3
    <3> QED BY <3>3, <3>4
  <2> QED BY <2>2, <2>3 DEF VersionsVieilles, ClaimAMoi, Vise
<1> QED BY <1>1, <1>2, <1>3

(* What a sweep may change: a row still active loses its owner; what it    *)
(* holds comes from what it read.                                           *)
PasBalayage(w) ==
  /\ UNCHANGED <<tentatives, claim, livraison, verdict, demande, web>>
  /\ pc'[w] \notin PcTache
  /\ \A v \in Workers \ {w} :
       /\ pc'[v] = pc[v] /\ versions'[v] = versions[v] /\ decisions'[v] = decisions[v]
       /\ aVerifier'[v] = aVerifier[v] /\ examine'[v] = examine[v]
  /\ \A i \in Jobs :
       /\ (statut'[i] = statut[i] /\ par'[i] = par[i]) \/ (Actif(i) /\ par'[i] = Aucun)
       /\ numero'[i] = numero[i] \/ i = examine[w]
  /\ \A i \in aVerifier'[w] : i \in aVerifier[w] \/ Actif(i)
  /\ examine'[w] \in aVerifier[w] \cup {examine[w], Aucun}
  /\ pc'[w] # "reprend" => decisions'[w] = <<>>
  /\ \A i \in Jobs :
       /\ versions'[w][i] \in {versions[w][i], tentatives[i], -1}
       /\ Vise(w, i)' => versions'[w][i] = versions[w][i]
       /\ Vise(w, i)' => Vise(w, i) \/ claim[i] = Aucun \/ ~DansListe(enTraitement, i)

LEMMA RemettreLigne ==
  ASSUME TypeComplet, NEW j \in Jobs, NEW d, NEW v, remettre_en_file(j, d, v)
  PROVE  \A i \in Jobs :
           \/ statut'[i] = statut[i] /\ par'[i] = par[i]
           \/ /\ i = j /\ Actif(i) /\ tentatives[i] = v /\ par'[i] = Aucun
              /\ statut'[i] = IF d THEN "pending" ELSE "failed"
BY DEF remettre_en_file, PeutRemettre, TypeComplet, TypeOK, TypeRegistre

LEMMA SansDecisions ==
  ASSUME NEW w, NEW j, decisions[w] = <<>>, pc[w] \notin PcExamen \ {"cas2traitement"}
  PROVE  ~Vise(w, j)
BY DEF Vise, DansListe

(* A step that leaves the rows, the queue numbers and the claims.          *)
LEMMA PasDeBalayage ==
  ASSUME TypeComplet, InvPropriete, NEW w \in Workers, UNCHANGED web,
         Reconcilier(w) \/ LireVersions(w) \/ SauterBalayage(w) \/ Relancer(w) \/ InterrompreBalayage(w)
  PROVE  PasBalayage(w)
<1> USE DEF redis, registre, tache, portes, Aller
<1>0. /\ pc \in [Workers -> Pcs] /\ versions \in [Workers -> [Jobs -> Version]]
      /\ aVoir \in [Workers -> Seq(Livraisons)]
      /\ decisions \in [Workers -> Seq([job : Jobs, requeued : BOOLEAN])]
      /\ aVerifier \in [Workers -> SUBSET Jobs] /\ examine \in [Workers -> Jobs \cup {Aucun}]
      /\ pc[w] \in PcExamen => examine[w] \in Jobs
  BY DEF TypeComplet, TypeOK, TypeTache, TypeBalayage
<1>1. pc[w] # "reprend" => decisions[w] = <<>>
  BY DEF InvPropriete, VersionsVieilles
<1>2. CASE LireVersions(w)
  <2>1. /\ versions' = [versions EXCEPT ![w] = VersionsLues] /\ pc' = [pc EXCEPT ![w] = "reprise"]
        /\ UNCHANGED <<redis, registre, imports, tache, aVoir, decisions, aVerifier, examine, portes>>
        /\ decisions[w] = <<>>
    BY <1>1, <1>2 DEF LireVersions
  <2>2. \A i \in Jobs : ~Vise(w, i)'
    BY <1>0, <2>1 DEF Vise, DansListe, PcExamen
  <2>3. \A i \in Jobs : versions'[w][i] \in {tentatives[i], -1}
    BY <1>0, <2>1 DEF VersionsLues
  <2> QED BY <1>0, <2>1, <2>2, <2>3 DEF PasBalayage, PcTache, PcTravail
<1>3. CASE LireEnTraitement(w) \/ SauterBalayage(w) \/ Relancer(w)
  <2>1. /\ \E e \in {"reprend", "boucle", "depart"} : pc' = [pc EXCEPT ![w] = e]
        /\ UNCHANGED <<redis, registre, imports, tache, versions, decisions, aVerifier, examine, portes>>
        /\ decisions[w] = <<>>
    BY <1>1, <1>3 DEF LireEnTraitement, SauterBalayage, Relancer, balayage
  <2>2. \A i \in Jobs : ~Vise(w, i)'
    BY <1>0, <2>1 DEF Vise, DansListe, PcExamen
  <2> QED BY <1>0, <2>1, <2>2 DEF PasBalayage, PcTache, PcTravail
<1>4. CASE InterrompreBalayage(w)
  <2>1. /\ pc' = [pc EXCEPT ![w] = "boucle"] /\ OublierBalayage(w)
        /\ UNCHANGED <<redis, registre, imports, tache, portes>>
    BY <1>4 DEF InterrompreBalayage
  <2>2. \A i \in Jobs : ~Vise(w, i)' /\ versions'[w][i] = -1
    BY <1>0, <2>1 DEF Vise, DansListe, PcExamen, OublierBalayage
  <2> QED BY <1>0, <2>1, <2>2 DEF PasBalayage, PcTache, PcTravail, OublierBalayage
<1>5. CASE reprendre_taches_orphelines(w)
  <2>1. /\ pc[w] = "reprend"
        /\ UNCHANGED <<claim, registre, imports, pc, tache, versions, aVerifier, examine, portes>>
        /\ \A v \in Workers \ {w} : decisions'[v] = decisions[v]
    BY <1>0, <1>5 DEF reprendre_taches_orphelines
  <2>2. ASSUME NEW i \in Jobs, Vise(w, i)' PROVE Vise(w, i) \/ claim[i] = Aucun
    <3>1. DansListe(decisions'[w], i)
      BY <2>1, <2>2 DEF Vise, PcExamen
    <3>2. Head(aVoir[w]) \in Livraisons
      BY <1>0, <1>5, HeadTailProperties DEF reprendre_taches_orphelines
    <3>3. PICK e : e = [job |-> Head(aVoir[w]).job,
                        requeued |-> Head(aVoir[w]).attempt + 1 < MaxTentatives]
      OBVIOUS
    <3>4. e \in [job : Jobs, requeued : BOOLEAN] /\ e.job = Head(aVoir[w]).job
      BY <3>2, <3>3 DEF Livraisons
    <3>5. \/ decisions'[w] = decisions[w]
          \/ claim[e.job] = Aucun /\ decisions'[w] = Append(decisions[w], e)
      BY <1>0, <1>5, <3>3, <3>4 DEF reprendre_taches_orphelines, Orpheline
    <3>6. decisions[w] \in Seq([job : Jobs, requeued : BOOLEAN])
      BY <1>0
    <3>7. DansListe(Append(decisions[w], e), i) <=> DansListe(decisions[w], i) \/ e.job = i
      BY <3>4, <3>6, DecisionAjoutee
    <3> QED BY <3>1, <3>5, <3>7 DEF Vise
  <2> QED BY <1>0, <2>1, <2>2 DEF PasBalayage, PcTache, PcTravail
<1>6. CASE AppliquerDecision(w)
  <2>1. /\ pc[w] = "reprend" /\ decisions[w] # <<>>
        /\ remettre_en_file(Head(decisions[w]).job, Head(decisions[w]).requeued,
                            versions[w][Head(decisions[w]).job])
        /\ decisions' = [decisions EXCEPT ![w] = Tail(@)]
        /\ UNCHANGED <<redis, tentatives, imports, pc, tache, versions, aVoir, aVerifier, examine, portes>>
    BY <1>6 DEF AppliquerDecision
  <2>2. Head(decisions[w]) \in [job : Jobs, requeued : BOOLEAN]
    BY <1>0, <2>1, HeadTailProperties
  <2>3. \A i \in Jobs : (statut'[i] = statut[i] /\ par'[i] = par[i]) \/ (Actif(i) /\ par'[i] = Aucun)
    <3>1. Head(decisions[w]).job \in Jobs
      BY <2>2
    <3> QED BY <2>1, <3>1, RemettreLigne
  <2>4. ASSUME NEW i \in Jobs, Vise(w, i)' PROVE Vise(w, i)
    <3>1. DansListe(Tail(decisions[w]), i)
      BY <1>0, <2>1, <2>4 DEF Vise, PcExamen
    <3> QED BY <1>0, <2>1, <3>1, DansListeQueue DEF Vise
  <2> QED BY <1>0, <2>1, <2>3, <2>4 DEF PasBalayage, PcTache, PcTravail
<1>7. CASE jobs_actifs(w)
  <2>1. /\ versions' = [versions EXCEPT ![w] = VersionsLues] /\ pc' = [pc EXCEPT ![w] = "cas2"]
        /\ aVerifier' = [aVerifier EXCEPT ![w] = {i \in Jobs : Actif(i)}]
        /\ UNCHANGED <<redis, registre, imports, tache, aVoir, decisions, examine, portes>>
        /\ decisions[w] = <<>>
    BY <1>7 DEF jobs_actifs
  <2>2. \A i \in Jobs : ~Vise(w, i)'
    BY <1>0, <2>1 DEF Vise, DansListe, PcExamen
  <2>3. \A i \in Jobs : versions'[w][i] \in {tentatives[i], -1}
    BY <1>0, <2>1 DEF VersionsLues
  <2> QED BY <1>0, <2>1, <2>2, <2>3 DEF PasBalayage, PcTache, PcTravail
<1>8. CASE ChercherFile(w)
  <2>1. /\ pc[w] = "cas2"
        /\ UNCHANGED <<redis, registre, imports, tache, versions, aVoir, decisions, portes>>
        /\ \E i \in aVerifier[w] : \E e \in {"cas2", "cas2traitement"} :
             /\ aVerifier' = [aVerifier EXCEPT ![w] = @ \ {i}]
             /\ pc' = [pc EXCEPT ![w] = e]
             /\ examine' = [examine EXCEPT ![w] = i] \/ examine' = [examine EXCEPT ![w] = Aucun]
    BY <1>8 DEF ChercherFile, Examiner
  <2>2. decisions[w] = <<>>
    BY <1>1, <2>1
  <2>3. \A i \in Jobs : ~Vise(w, i)'
    BY <1>0, <2>1, <2>2 DEF Vise, DansListe, PcExamen
  <2> QED BY <1>0, <2>1, <2>2, <2>3 DEF PasBalayage, PcTache, PcTravail
<1>9. CASE ChercherTraitement(w) \/ ChercherRelance(w)
  <2>1. /\ pc[w] \in {"cas2traitement", "cas2relance"}
        /\ UNCHANGED <<redis, registre, imports, tache, versions, aVoir, decisions, portes, aVerifier>>
        /\ \/ pc' = [pc EXCEPT ![w] = "cas2"] /\ examine' = [examine EXCEPT ![w] = Aucun]
           \/ /\ \E e \in {"cas2relance", "cas2arbitre"} : pc' = [pc EXCEPT ![w] = e]
              /\ examine' = [examine EXCEPT ![w] = examine[w]]
              /\ pc[w] = "cas2traitement" => ~DansListe(enTraitement, examine[w])
    BY <1>9 DEF ChercherTraitement, ChercherRelance, Examiner
  <2>2. decisions[w] = <<>>
    BY <1>1, <2>1
  <2>3. ASSUME NEW i \in Jobs, Vise(w, i)' PROVE Vise(w, i) \/ ~DansListe(enTraitement, i)
    BY <1>0, <2>1, <2>2, <2>3 DEF Vise, DansListe, PcExamen
  <2> QED BY <1>0, <2>1, <2>2, <2>3 DEF PasBalayage, PcTache, PcTravail
<1>10. CASE AbandonnerOrphelin(w) \/ RemettreOrphelin(w)
  <2>1. /\ pc[w] \in {"cas2arbitre", "cas2remettre"}
        /\ \E d \in BOOLEAN : remettre_en_file(examine[w], d, versions[w][examine[w]])
        /\ pc' = [pc EXCEPT ![w] = "cas2"] /\ examine' = [examine EXCEPT ![w] = Aucun]
        /\ UNCHANGED <<redis, tentatives, imports, tache, versions, aVoir, decisions, aVerifier, portes>>
    BY <1>10 DEF AbandonnerOrphelin, RemettreOrphelin
  <2>2. decisions[w] = <<>> /\ examine[w] \in Jobs
    BY <1>0, <1>1, <2>1 DEF PcExamen
  <2>3. \A i \in Jobs : (statut'[i] = statut[i] /\ par'[i] = par[i]) \/ (Actif(i) /\ par'[i] = Aucun)
    BY <2>1, <2>2, RemettreLigne
  <2>4. \A i \in Jobs : ~Vise(w, i)'
    BY <1>0, <2>1, <2>2 DEF Vise, DansListe, PcExamen
  <2> QED BY <1>0, <2>1, <2>2, <2>3, <2>4 DEF PasBalayage, PcTache, PcTravail
<1>11. CASE enqueue_task_si_absent(w)
  <2>1. /\ pc[w] = "cas2arbitre"
        /\ UNCHANGED <<claim, registre, imports, tache, versions, aVoir, decisions, aVerifier, demande>>
        /\ \A i \in Jobs : numero'[i] = numero[i] \/ i = examine[w]
        /\ \/ pc' = [pc EXCEPT ![w] = "cas2"] /\ examine' = [examine EXCEPT ![w] = Aucun]
           \/ pc' = [pc EXCEPT ![w] = "cas2remettre"] /\ UNCHANGED examine
    BY <1>11 DEF enqueue_task_si_absent, TypeComplet, TypeOK, TypePortes
  <2>2. decisions[w] = <<>>
    BY <1>1, <2>1
  <2>3. ASSUME NEW i \in Jobs, Vise(w, i)' PROVE Vise(w, i)
    BY <1>0, <2>1, <2>2, <2>3 DEF Vise, DansListe, PcExamen
  <2> QED BY <1>0, <2>1, <2>2, <2>3 DEF PasBalayage, PcTache, PcTravail
<1>12. CASE FinirReconciliation(w)
  <2>1. /\ pc[w] = "cas2" /\ pc' = [pc EXCEPT ![w] = "boucle"]
        /\ versions' = [versions EXCEPT ![w] = [i \in Jobs |-> -1]]
        /\ UNCHANGED <<redis, registre, imports, tache, aVoir, decisions, aVerifier, examine, portes>>
    BY <1>12 DEF FinirReconciliation
  <2>2. decisions[w] = <<>>
    BY <1>1, <2>1
  <2>3. \A i \in Jobs : ~Vise(w, i)' /\ versions'[w][i] = -1
    BY <1>0, <2>1, <2>2 DEF Vise, DansListe, PcExamen
  <2> QED BY <1>0, <2>1, <2>2, <2>3 DEF PasBalayage, PcTache, PcTravail
<1> QED BY <1>2, <1>3, <1>4, <1>5, <1>6, <1>7, <1>8, <1>9, <1>10, <1>11, <1>12 DEF Reconcilier

LEMMA ProprieteBalayage ==
  ASSUME TypeComplet, LivraisonEnTraitement, InvPropriete, NEW w \in Workers, PasBalayage(w)
  PROVE  InvPropriete'
<1> USE DEF InvPropriete
<1>1. DemandeConnue'
  <2> SUFFICES ASSUME NEW j \in Jobs, demande[j] = "libre"
               PROVE  /\ statut'[j] = "absent" /\ par'[j] = Aucun /\ numero'[j] = 0
                      /\ j \notin candidats' \cup orphelins' /\ examineWeb' # j
                      /\ \A v \in Workers : j \notin aVerifier'[v] /\ examine'[v] # j
    BY DEF DemandeConnue, PasBalayage
  <2>1. /\ statut[j] = "absent" /\ par[j] = Aucun /\ numero[j] = 0
        /\ j \notin candidats \cup orphelins /\ examineWeb # j
        /\ \A v \in Workers : j \notin aVerifier[v] /\ examine[v] # j
    BY DEF DemandeConnue
  <2>2. ~Actif(j)
    BY <2>1 DEF Actif, STATUTS_ACTIFS
  <2>3. statut'[j] = "absent" /\ par'[j] = Aucun /\ numero'[j] = 0
    BY <2>1, <2>2 DEF PasBalayage
  <2>4. \A v \in Workers : j \notin aVerifier'[v] /\ examine'[v] # j
    BY <2>1, <2>2, HypAucun DEF PasBalayage
  <2> QED BY <2>1, <2>3, <2>4 DEF PasBalayage, web
<1>2. LigneMarquee'
  <2> SUFFICES ASSUME NEW x \in Workers, pc'[x] \in PcTravail, par'[JobDe(x)'] = x
               PROVE  statut'[JobDe(x)'] \notin {"pending", "absent"}
    BY DEF LigneMarquee
  <2>1. x # w /\ pc[x] \in PcTravail /\ JobDe(x)' = JobDe(x) /\ JobDe(x) \in Jobs
    BY JobEnMain DEF PasBalayage, JobDe, PcTache
  <2>2. statut'[JobDe(x)] = statut[JobDe(x)] /\ par[JobDe(x)] = x
    BY <2>1, HypAucun DEF PasBalayage
  <2> QED BY <2>1, <2>2 DEF LigneMarquee
<1>3. VersionsVieilles'
  <2>0. UNCHANGED <<tentatives, claim, livraison>>
    BY DEF PasBalayage
  <2>1. ASSUME NEW v \in Workers
        PROVE  /\ pc'[v] # "reprend" => decisions'[v] = <<>>
               /\ \A j \in Jobs : versions'[v][j] <= tentatives'[j]
    <3>1. \A j \in Jobs : tentatives[j] \in Nat /\ versions[v][j] <= tentatives[j]
      BY DEF VersionsVieilles, TypeComplet, TypeOK, TypeRegistre
    <3>2. \A j \in Jobs : versions'[v][j] \in {versions[v][j], tentatives[j], -1}
      BY DEF PasBalayage
    <3> QED BY <2>0, <3>1, <3>2 DEF PasBalayage, VersionsVieilles
  <2>2. ASSUME NEW v \in Workers, NEW x \in Workers, pc'[x] \in PcTravail, claim'[JobDe(x)'] = x,
               \/ DansListe(decisions'[v], JobDe(x)')
               \/ pc'[v] \in PcExamen \ {"cas2traitement"} /\ examine'[v] = JobDe(x)'
        PROVE  versions'[v][JobDe(x)'] < tentatives'[JobDe(x)']
    <3> DEFINE j == JobDe(x)
    <3>1. x # w /\ pc[x] \in PcTravail /\ JobDe(x)' = j /\ j \in Jobs /\ claim[j] = x
      BY <2>0, <2>2, JobEnMain DEF PasBalayage, JobDe, PcTache
    <3>2. Vise(v, j) /\ versions'[v][j] = versions[v][j]
      <4>1. CASE v # w
        BY <2>2, <3>1, <4>1 DEF PasBalayage, Vise
      <4>2. CASE v = w
        <5>1. Vise(w, j)'
          BY <2>2, <3>1, <4>2 DEF Vise
        <5>2. DansListe(enTraitement, j)
          BY <3>1, DansListeContient DEF LivraisonEnTraitement, ClaimAMoi, PcTenu, JobDe
        <5>3. claim[j] # Aucun
          BY <3>1, HypAucun
        <5> QED BY <3>1, <4>2, <5>1, <5>2, <5>3 DEF PasBalayage
      <4> QED BY <4>1, <4>2
    <3>3. versions[v][j] < tentatives[j]
      BY <3>1, <3>2 DEF VersionsVieilles, ClaimAMoi
    <3> QED BY <2>0, <3>1, <3>2, <3>3
  <2> QED BY <2>1, <2>2 DEF VersionsVieilles, ClaimAMoi, Vise
<1> QED BY <1>1, <1>2, <1>3

(* A worker killed forgets its task and its sweep.                          *)
LEMMA ProprieteTuer ==
  ASSUME TypeComplet, InvPropriete, NEW w \in Workers, Tuer(w)
  PROVE  InvPropriete'
<1> USE DEF InvPropriete
<1>0. /\ pc' = [pc EXCEPT ![w] = "arret"] /\ OublierBalayage(w)
      /\ \A x \in Workers \ {w} : livraison'[x] = livraison[x]
      /\ UNCHANGED <<redis, registre, portes, web>>
  BY DEF Tuer, Aller, TypeComplet, TypeOK, TypeTache
<1>1. /\ pc'[w] = "arret" /\ \A x \in Workers \ {w} : pc'[x] = pc[x]
      /\ decisions'[w] = <<>> /\ aVerifier'[w] = {} /\ examine'[w] = Aucun
      /\ \A j \in Jobs : versions'[w][j] = -1
      /\ \A x \in Workers \ {w} :
           /\ versions'[x] = versions[x] /\ decisions'[x] = decisions[x]
           /\ aVerifier'[x] = aVerifier[x] /\ examine'[x] = examine[x]
  BY <1>0 DEF OublierBalayage, TypeComplet, TypeOK, TypeTache, TypeBalayage
<1>2. DemandeConnue'
  <2> SUFFICES ASSUME NEW j \in Jobs, demande[j] = "libre"
               PROVE  \A v \in Workers : j \notin aVerifier'[v] /\ examine'[v] # j
    BY <1>0 DEF DemandeConnue, registre, portes, web
  <2> QED BY <1>1, HypAucun DEF DemandeConnue
<1>3. LigneMarquee'
  BY <1>0, <1>1 DEF LigneMarquee, registre, JobDe, PcTravail
<1>4. VersionsVieilles'
  <2>1. UNCHANGED <<tentatives, claim>>
    BY <1>0 DEF registre, redis
  <2>2. \A j \in Jobs : tentatives[j] \in Nat
    BY DEF TypeComplet, TypeOK, TypeRegistre
  <2>3. \A j : ~Vise(w, j)'
    BY <1>1 DEF Vise, DansListe, PcExamen
  <2>4. ASSUME NEW v \in Workers \ {w}, NEW j PROVE Vise(v, j)' <=> Vise(v, j)
    BY <1>1 DEF Vise
  <2>5. ASSUME NEW v \in Workers
        PROVE  /\ pc'[v] # "reprend" => decisions'[v] = <<>>
               /\ \A j \in Jobs : versions'[v][j] <= tentatives'[j]
    BY <1>1, <2>1, <2>2 DEF VersionsVieilles
  <2>6. ASSUME NEW v \in Workers, NEW x \in Workers, pc'[x] \in PcTravail, claim'[JobDe(x)'] = x,
               \/ DansListe(decisions'[v], JobDe(x)')
               \/ pc'[v] \in PcExamen \ {"cas2traitement"} /\ examine'[v] = JobDe(x)'
        PROVE  versions'[v][JobDe(x)'] < tentatives'[JobDe(x)']
    <3>1. x # w /\ pc[x] \in PcTravail /\ JobDe(x)' = JobDe(x) /\ claim[JobDe(x)] = x
      BY <1>0, <1>1, <2>1, <2>6 DEF JobDe, PcTravail
    <3>2. v # w /\ Vise(v, JobDe(x))
      BY <1>1, <2>6, <3>1 DEF Vise, DansListe, PcExamen
    <3> QED BY <1>1, <2>1, <3>1, <3>2 DEF VersionsVieilles, ClaimAMoi
  <2> QED BY <2>5, <2>6 DEF VersionsVieilles, ClaimAMoi, Vise
<1> QED BY <1>2, <1>3, <1>4

(* The rows a request, a web start or the environment changes, and the     *)
(* jobs they know.                                                          *)
PasWeb ==
  \A j \in Jobs :
    /\ demande'[j] = "libre" => demande[j] = "libre" /\ numero'[j] = numero[j]
    /\ \/ statut'[j] = statut[j] /\ par'[j] = par[j]
       \/ demande'[j] # "libre" /\ par'[j] = par[j] /\ par[j] = Aucun
       \/ Actif(j) /\ par'[j] = par[j] /\ statut'[j] = "cancelled"
       \/ j \in orphelins /\ par'[j] = Aucun
    /\ j \in candidats' => j \in candidats \/ Actif(j)
    /\ j \in orphelins' => j \in orphelins \/ j = examineWeb
    /\ j = examineWeb' => j = examineWeb \/ j \in candidats

(* The steps of no worker.                                                  *)
LEMMA ProprieteAutre ==
  ASSUME TypeComplet, InvPropriete, AutrePas, DemarrerWeb \/ UNCHANGED web
  PROVE  InvPropriete'
<1> USE DEF InvPropriete
<1>0. UNCHANGED <<pc, livraison, balayage, tentatives>> /\ \A j \in Jobs : claim'[j] \in {claim[j], Aucun}
  BY DEF AutrePas, PasRoute, create_job, enqueue_task, EnfilageRate, cancel_job, ExpirerMort,
     ExpirerVivant, LacherClaim, DemarrerWeb, ListerCandidats, ChercherCandidat,
     ChercherCandidatTraitement, ChercherCandidatRelance, recover_stale_jobs, autres, Rejouer,
     replay_deadletters, PerdreRedis, vars, tache, registre, redis, TypeComplet, TypeOK, TypeRedis
<1>1. UNCHANGED <<versions, decisions, aVerifier, examine>>
  BY <1>0 DEF balayage
<1>2. PasWeb
  <2> USE DEF TypeComplet, TypeOK, TypeRegistre, TypePortes, registre, portes, web, PasWeb
  <2>1. ASSUME NEW k \in Jobs, create_job(k) /\ UNCHANGED web PROVE PasWeb
    BY <2>1 DEF create_job, DemandeConnue
  <2>2. ASSUME NEW k \in Jobs, enqueue_task(k) \/ EnfilageRate(k) \/ cancel_job(k), UNCHANGED web
        PROVE  PasWeb
    BY <2>2 DEF enqueue_task, EnfilageRate, cancel_job
  <2>3. CASE recover_stale_jobs
    BY <2>3 DEF recover_stale_jobs, autres
  <2>4. CASE ListerCandidats \/ ChercherCandidat \/ ChercherCandidatTraitement \/ ChercherCandidatRelance
    BY <2>4, HypAucun DEF ListerCandidats, ChercherCandidat, ChercherCandidatTraitement,
       ChercherCandidatRelance, autres
  <2>5. CASE \/ \E k \in Jobs : ExpirerMort(k) \/ ExpirerVivant(k)
             \/ Rejouer \/ PerdreRedis \/ UNCHANGED vars
    BY <2>5 DEF ExpirerMort, ExpirerVivant, LacherClaim, Rejouer, replay_deadletters, PerdreRedis, vars
  <2> QED BY <2>1, <2>2, <2>3, <2>4, <2>5 DEF AutrePas, PasRoute, DemarrerWeb
<1>3. DemandeConnue'
  <2> SUFFICES ASSUME NEW j \in Jobs, demande'[j] = "libre"
               PROVE  /\ statut'[j] = "absent" /\ par'[j] = Aucun /\ numero'[j] = 0
                      /\ j \notin candidats' \cup orphelins' /\ examineWeb' # j
    BY <1>1, <1>2 DEF DemandeConnue, PasWeb
  <2>1. /\ statut[j] = "absent" /\ par[j] = Aucun /\ numero[j] = 0
        /\ j \notin candidats \cup orphelins /\ examineWeb # j
    BY <1>2 DEF DemandeConnue, PasWeb
  <2>2. ~Actif(j)
    BY <2>1 DEF Actif, STATUTS_ACTIFS
  <2> QED BY <1>2, <2>1, <2>2 DEF PasWeb
<1>4. LigneMarquee'
  <2> SUFFICES ASSUME NEW x \in Workers, pc[x] \in PcTravail, par'[JobDe(x)] = x
               PROVE  statut'[JobDe(x)] \notin {"pending", "absent"}
    BY <1>0 DEF LigneMarquee, JobDe
  <2>1. JobDe(x) \in Jobs /\ x # Aucun
    BY JobEnMain, HypAucun DEF PcTache
  <2> QED BY <1>2, <2>1 DEF LigneMarquee, PasWeb
<1>5. VersionsVieilles'
  <2>1. ASSUME NEW v \in Workers, NEW j PROVE Vise(v, j)' <=> Vise(v, j)
    BY <1>0, <1>1 DEF Vise
  <2>2. ASSUME NEW x \in Workers, pc[x] \in PcTravail, claim'[JobDe(x)] = x PROVE claim[JobDe(x)] = x
    BY <1>0, <2>2, JobEnMain, HypAucun DEF PcTache
  <2>3. ASSUME NEW v \in Workers, NEW x \in Workers, pc'[x] \in PcTravail, claim'[JobDe(x)'] = x,
               \/ DansListe(decisions'[v], JobDe(x)')
               \/ pc'[v] \in PcExamen \ {"cas2traitement"} /\ examine'[v] = JobDe(x)'
        PROVE  versions'[v][JobDe(x)'] < tentatives'[JobDe(x)']
    <3>1. pc[x] \in PcTravail /\ JobDe(x)' = JobDe(x) /\ claim[JobDe(x)] = x
      BY <1>0, <2>2, <2>3 DEF JobDe
    <3>2. Vise(v, JobDe(x))
      BY <1>0, <1>1, <2>3, <3>1 DEF Vise
    <3> QED BY <1>0, <1>1, <3>1, <3>2 DEF VersionsVieilles, ClaimAMoi
  <2>4. ASSUME NEW v \in Workers
        PROVE  /\ pc'[v] # "reprend" => decisions'[v] = <<>>
               /\ \A j \in Jobs : versions'[v][j] <= tentatives'[j]
    BY <1>0, <1>1 DEF VersionsVieilles
  <2> QED BY <2>3, <2>4 DEF VersionsVieilles, ClaimAMoi, Vise
<1> QED BY <1>3, <1>4, <1>5

LEMMA InitPropriete == Init => InvPropriete
<1> SUFFICES ASSUME Init PROVE InvPropriete
  OBVIOUS
<1> USE DEF Init, InitFile, InitWeb
<1>1. DemandeConnue
  BY HypAucun DEF DemandeConnue
<1>2. LigneMarquee
  BY DEF LigneMarquee, PcTravail
<1>3. VersionsVieilles
  <2>1. \A w \in Workers : pc[w] = "depart" /\ decisions[w] = <<>>
    OBVIOUS
  <2>2. \A w \in Workers, j \in Jobs : versions[w][j] = -1 /\ tentatives[j] = 0
    OBVIOUS
  <2>3. ASSUME NEW w \in Workers, NEW j \in Jobs PROVE versions[w][j] <= tentatives[j]
    <3> HIDE DEF Init, InitFile, InitWeb
    <3>1. versions[w][j] = -1 /\ tentatives[j] = 0
      BY <2>2
    <3>2. -1 <= 0
      OBVIOUS
    <3> QED BY <3>1, <3>2
  <2> QED BY <2>1, <2>3 DEF VersionsVieilles, PcTravail
<1> QED BY <1>1, <1>2, <1>3 DEF InvPropriete

LEMMA ProprietePas ==
  TypeComplet /\ LivraisonEnTraitement /\ InvPropriete /\ [Next]_vars => InvPropriete'
<1> SUFFICES ASSUME TypeComplet, LivraisonEnTraitement, InvPropriete, [Next]_vars PROVE InvPropriete'
  OBVIOUS
<1>1. ASSUME NEW w \in Workers, PasWorker(w) \/ Balayer(w) \/ AleaWorker(w), UNCHANGED web
      PROVE  InvPropriete'
  <2>1. CASE SuiteDeBoucle(w) \/ Traiter(w) \/ TeteDeBoucle(w) \/ PanneAppel(w)
    BY <1>1, <2>1, PasDeTache, ProprieteTache
  <2>2. CASE \/ Reconcilier(w) \/ LireVersions(w) \/ SauterBalayage(w) \/ Relancer(w)
             \/ InterrompreBalayage(w)
    BY <1>1, <2>2, PasDeBalayage, ProprieteBalayage
  <2> QED BY <1>1, <2>1, <2>2, ProprieteTuer DEF PasWorker, Avancer, Balayer, AleaWorker
<1>2. CASE AutrePas /\ (DemarrerWeb \/ UNCHANGED web)
  BY <1>2, ProprieteAutre
<1>3. ASSUME NEW w \in Workers, Balayer(w) \/ AleaWorker(w) PROVE UNCHANGED web
  BY <1>3 DEF Balayer, AleaWorker, Tuer, Relancer, PanneAppel, InterrompreBalayage
<1>4. CASE \/ \E j \in Jobs : ExpirerMort(j) \/ ExpirerVivant(j)
           \/ Rejouer \/ PerdreRedis \/ UNCHANGED vars
  <2>1. UNCHANGED web
    BY <1>4 DEF ExpirerMort, ExpirerVivant, LacherClaim, Rejouer, PerdreRedis, vars
  <2> QED BY <1>2, <1>4, <2>1 DEF AutrePas
<1> QED BY <1>1, <1>2, <1>3, <1>4 DEF Next, AutrePas

(* The version a sweep read is the row's only while no worker has claimed   *)
(* the job since.                                                           *)
THEOREM VersionsToujoursVieilles == Spec => []InvPropriete
<1>1. Init => InvPropriete
  BY InitPropriete
<1>2. TypeComplet /\ LivraisonEnTraitement /\ InvPropriete /\ [Next]_vars => InvPropriete'
  BY ProprietePas
<1> QED BY <1>1, <1>2, TypeCorrect, LivraisonToujoursTenue, PTL DEF Spec

(* A worker at work that writes the row goes to another stage.              *)
LEMMA TraiterChange ==
  ASSUME TypeComplet, NEW w \in Workers, Traiter(w), pc'[w] = pc[w]
  PROVE  UNCHANGED statut
<1> USE DEF Aller, registre, TypeComplet, TypeOK, TypeTache
<1>1. CASE DebuterTraitement(w) \/ EcrireResultat(w)
  BY <1>1 DEF DebuterTraitement, EcrireResultat
<1>2. CASE EcrireAnnulation(w) \/ EcrireRevue(w) \/ EcrireEchec(w)
  BY <1>2 DEF EcrireAnnulation, EcrireRevue, EcrireEchec, Rendre
<1>3. CASE ~(DebuterTraitement(w) \/ EcrireResultat(w) \/ EcrireAnnulation(w) \/ EcrireRevue(w)
             \/ EcrireEchec(w))
  BY <1>3 DEF Traiter, PrendreVerrou, ConstaterAnnulation, EchouerTraitement, Rompre,
     PersisterIntention, RienAEnvoyer, Envoyer, Publier, EchouerApresPublication,
     TerminerTraitement, PanneTardive, AttraperAnnulation, AttraperException, VerifierProprietaire
<1> QED BY <1>1, <1>2, <1>3

LEMMA ProprietairePas ==
  ASSUME TypeComplet, InvPropriete, [Next]_vars, NEW w \in Workers, NEW j \in Jobs,
         Possede(w, j), statut'[j] # statut[j], pc'[w] = pc[w], pcWeb' = pcWeb
  PROVE  statut'[j] = "cancelled"
<1> USE DEF InvPropriete
<1>0. /\ pc[w] \in PcTravail /\ JobDe(w) = j /\ claim[j] = w /\ par[j] = w /\ w # Aucun
      /\ statut[j] \notin {"pending", "absent"} /\ demande[j] # "libre"
  BY HypAucun DEF Possede, LigneMarquee, DemandeConnue
<1>1. ASSUME NEW x \in Workers, UNCHANGED web,
             SuiteDeBoucle(x) \/ Traiter(x) \/ TeteDeBoucle(x) \/ PanneAppel(x)
      PROVE  statut'[j] = "cancelled"
  <2>1. CASE marquer_job_claim(x)
    BY <1>0, <2>1, MarquerLigne DEF Actif, STATUTS_ACTIFS
  <2>2. CASE LigneParSoi(x)
    <3>1. x = w
      BY <1>0, <2>2 DEF LigneParSoi
    <3>2. CASE Traiter(w)
      BY <1>0, <3>2, TraiterChange
    <3>3. CASE ~Traiter(w)
      <4>1. pc[w] \notin PcTravail \/ UNCHANGED statut
        BY <1>1, <3>1, <3>3 DEF SuiteDeBoucle, revendiquer_tache, marquer_job_claim, AcquitterRefus,
           Decider, ack_task, retry_task, NoterRelance, deadletter_task, terminer_job,
           liberer_revendication, TeteDeBoucle, process_retry_queue, dequeue_task, PanneAppel,
           ExceptionEchappee, ClotureRatee, registre, PcTravail
      <4> QED BY <1>0, <4>1
    <3> QED BY <3>1, <3>2, <3>3
  <2> QED BY <1>1, <2>1, <2>2, PasDeTache DEF PasTache
<1>2. ASSUME NEW x \in Workers, UNCHANGED web,
             Reconcilier(x) \/ LireVersions(x) \/ SauterBalayage(x) \/ Relancer(x) \/ InterrompreBalayage(x)
      PROVE  statut'[j] = "cancelled"
  <2>1. PICK d \in BOOLEAN, k \in Jobs :
                             /\ remettre_en_file(k, d, versions[x][k])
                             /\ Vise(x, k)
    <3>1. CASE AppliquerDecision(x)
      <4>1. Head(decisions[x]) \in [job : Jobs, requeued : BOOLEAN]
        BY <3>1, HeadTailProperties DEF AppliquerDecision, TypeComplet, TypeOK, TypeBalayage
      <4>2. DansListe(decisions[x], Head(decisions[x]).job)
        BY <3>1, <4>1, DansListeQueue DEF AppliquerDecision, TypeComplet, TypeOK, TypeBalayage
      <4>3. remettre_en_file(Head(decisions[x]).job, Head(decisions[x]).requeued,
                             versions[x][Head(decisions[x]).job])
        BY <3>1 DEF AppliquerDecision
      <4>4. Head(decisions[x]).job \in Jobs /\ Head(decisions[x]).requeued \in BOOLEAN
        BY <4>1
      <4>5. Vise(x, Head(decisions[x]).job)
        BY <4>2 DEF Vise
      <4> QED BY <4>3, <4>4, <4>5
    <3>2. CASE AbandonnerOrphelin(x) \/ RemettreOrphelin(x)
      <4>1. examine[x] \in Jobs /\ Vise(x, examine[x])
        BY <3>2 DEF AbandonnerOrphelin, RemettreOrphelin, Vise, PcExamen, TypeComplet, TypeOK,
           TypeBalayage
      <4>2. \E d \in BOOLEAN : remettre_en_file(examine[x], d, versions[x][examine[x]])
        BY <3>2 DEF AbandonnerOrphelin, RemettreOrphelin
      <4> QED BY <4>1, <4>2
    <3>3. CASE ~AppliquerDecision(x) /\ ~AbandonnerOrphelin(x) /\ ~RemettreOrphelin(x)
      <4>1. UNCHANGED statut
        BY <1>2, <3>3 DEF Reconcilier, LireEnTraitement, reprendre_taches_orphelines, jobs_actifs,
           ChercherFile, ChercherTraitement, ChercherRelance, Examiner, enqueue_task_si_absent,
           FinirReconciliation, LireVersions, SauterBalayage, Relancer, InterrompreBalayage, registre
      <4> QED BY <4>1
    <3> QED BY <3>1, <3>2, <3>3
  <2>2. k = j /\ tentatives[j] = versions[x][j]
    BY <2>1, RemettreLigne
  <2>3. versions[x][j] < tentatives[j]
    BY <1>0, <2>1, <2>2 DEF VersionsVieilles, ClaimAMoi
  <2>4. tentatives[j] \in Nat
    BY DEF TypeComplet, TypeOK, TypeRegistre
  <2> QED BY <2>2, <2>3, <2>4
<1>3. ASSUME NEW x \in Workers, Tuer(x) PROVE statut'[j] = "cancelled"
  BY <1>3 DEF Tuer, registre
<1>4. ASSUME NEW i \in Jobs, PasRoute(i) PROVE statut'[j] = "cancelled"
  BY <1>0, <1>4 DEF PasRoute, create_job, enqueue_task, EnfilageRate, cancel_job, registre,
     TypeComplet, TypeOK, TypeRegistre
<1>5. CASE DemarrerWeb
  <2>1. CASE recover_stale_jobs
    BY <2>1 DEF recover_stale_jobs
  <2>2. CASE ~recover_stale_jobs
    BY <1>5, <2>2 DEF DemarrerWeb, ListerCandidats, ChercherCandidat, ChercherCandidatTraitement,
       ChercherCandidatRelance
  <2> QED BY <2>1, <2>2
<1>6. CASE \/ \E i \in Jobs : ExpirerMort(i) \/ ExpirerVivant(i)
           \/ Rejouer \/ PerdreRedis \/ UNCHANGED vars
  BY <1>6 DEF ExpirerMort, ExpirerVivant, LacherClaim, Rejouer, replay_deadletters, PerdreRedis,
     vars, registre
<1>7. ASSUME NEW x \in Workers, Balayer(x) \/ AleaWorker(x) PROVE UNCHANGED web
  BY <1>7 DEF Balayer, AleaWorker, Tuer, Relancer, PanneAppel, InterrompreBalayage
<1> QED BY <1>1, <1>2, <1>3, <1>4, <1>5, <1>6, <1>7
        DEF Next, PasWorker, Avancer, Balayer, AleaWorker

(* While a worker holds both claims of its job nobody else changes the     *)
(* status of its row, but an operator who cancels: neither a second worker *)
(* nor a sweep that read the row before it was taken.                      *)
THEOREM ProprietaireSeulEcritProuve == Spec => ProprietaireSeulEcrit
<1>1. TypeComplet /\ InvPropriete /\ [Next]_vars =>
        [\A w \in Workers, j \in Jobs :
           /\ Possede(w, j) /\ statut'[j] # statut[j]
           /\ pc'[w] = pc[w] /\ pcWeb' = pcWeb
           => statut'[j] = "cancelled"]_vars
  BY ProprietairePas
<1> QED BY <1>1, TypeCorrect, VersionsToujoursVieilles, PTL DEF Spec, ProprietaireSeulEcrit

----------------------------------------------------------------------------
(* The lifecycle of a row.                                                  *)

(* What the lifecycle allows between two statuses of an accepted job.       *)
Permise(s, t) ==
  \/ t = s
  \/ s = "pending" /\ t \in {"running", "failed", "cancelled"}
  \/ s = "running" /\ t \in {"pending", "completed", "needs_review", "failed", "cancelled"}

(* A worker that writes its row.                                            *)
LigneDuPas(w) ==
  /\ LigneVive(w)' /\ LigneSoldee(w)'
  /\ Permise(statut[JobDe(w)], statut'[JobDe(w)])

LEMMA LigneTraiter ==
  ASSUME TypeComplet, NEW w \in Workers, LigneVive(w), LigneSoldee(w), ~PanneTardive(w), Traiter(w)
  PROVE  LigneDuPas(w)
<1> USE DEF Aller, tache, registre, PcRejouable, PcRendu, VerdictsFinis, Soldes, Permise, LigneDuPas,
        LigneVive, LigneSoldee
<1>0. /\ pc \in [Workers -> Pcs] /\ verdict \in [Workers -> Verdicts] /\ statut \in [Jobs -> Statuts]
      /\ par \in [Jobs -> Workers \cup {Aucun}] /\ JobDe(w) \in Jobs /\ JobDe(w)' = JobDe(w)
  BY EffetTraiter DEF TypeComplet, TypeOK, TypeTache, TypeRegistre, JobDe
<1> DEFINE j == JobDe(w)
<1>1. CASE DebuterTraitement(w)
  <2>1. /\ pc[w] = "execute" /\ UNCHANGED par
        /\ \/ par[j] = w /\ statut'[j] = (IF statut[j] = "cancelled" THEN "cancelled" ELSE "running")
              /\ pc'[w] = "verrou"
           \/ pc'[w] = "rendu" /\ verdict'[w] = "stale_worker" /\ statut'[j] = statut[j]
    BY <1>0, <1>1 DEF DebuterTraitement, EstProprietaireActif
  <2> HIDE DEF j
  <2> QED BY <1>0, <2>1 DEF j
<1>2. CASE PrendreVerrou(w) \/ PersisterIntention(w) \/ RienAEnvoyer(w) \/ Envoyer(w) \/ Publier(w)
  <2>1. /\ pc[w] \in {"verrou", "capture", "envoi", "publication"}
        /\ pc'[w] \in {"capture", "exception", "envoi", "publication", "bilan"}
        /\ UNCHANGED <<par, statut, verdict>>
    BY <1>0, <1>2 DEF PrendreVerrou, PersisterIntention, RienAEnvoyer, Envoyer, Publier
  <2> QED BY <1>0, <2>1
<1>3. CASE ConstaterAnnulation(w)
  <2>1. /\ pc'[w] = "annulation" /\ statut[j] = "cancelled" /\ UNCHANGED <<par, statut, verdict>>
    BY <1>0, <1>3 DEF ConstaterAnnulation, Rompre
  <2> QED BY <1>0, <2>1
<1>4. CASE EchouerTraitement(w) \/ EchouerApresPublication(w)
  <2>1. /\ pc[w] \in {"capture", "envoi", "publication", "bilan"} /\ pc'[w] = "exception"
        /\ UNCHANGED <<par, statut, verdict>>
    BY <1>0, <1>4 DEF EchouerTraitement, Rompre, EchouerApresPublication, PcVerrouille
  <2> QED BY <1>0, <2>1
<1>5. CASE EcrireResultat(w)
  <2>0. \A f \in StatutsFinaux(j) : f \in {"completed", "needs_review", "failed", "upload_incomplete"}
    BY DEF StatutsFinaux
  <2>1. /\ pc[w] = "bilan" /\ UNCHANGED par
        /\ \/ pc'[w] = "rendu" /\ verdict'[w] = "stale_worker" /\ statut'[j] = statut[j]
           \/ pc'[w] = "annulation" /\ statut[j] = "cancelled" /\ UNCHANGED <<statut, verdict>>
           \/ /\ par[j] = w /\ statut[j] # "cancelled" /\ pc'[w] = "apres"
              /\ verdict'[w] \in {"completed", "needs_review", "failed", "upload_incomplete"}
              /\ statut'[j] = StatutEcrit(verdict'[w])
    BY <1>0, <1>5, <2>0 DEF EcrireResultat, EstProprietaireActif
  <2> HIDE DEF j
  <2> QED BY <1>0, <2>1 DEF j, StatutEcrit
<1>6. CASE TerminerTraitement(w)
  <2>1. /\ pc[w] = "apres" /\ UNCHANGED <<par, statut>>
        /\ \/ pc'[w] = "annulation" /\ statut[j] = "cancelled"
           \/ pc'[w] = "rendu" /\ verdict'[w] \in {verdict[w], "stale_worker"}
    BY <1>0, <1>6 DEF TerminerTraitement
  <2> QED BY <1>0, <2>1
<1>7. CASE AttraperAnnulation(w) \/ AttraperException(w)
  <2>1. /\ UNCHANGED <<par, statut>>
        /\ \/ pc[w] = "annulation" /\ pc'[w] = "annulationEcrit" /\ UNCHANGED verdict
           \/ pc[w] = "exception" /\ pc'[w] \in {"excRevue", "excEchec"} /\ UNCHANGED verdict
           \/ pc'[w] = "rendu" /\ verdict'[w] = "stale_worker"
    BY <1>0, <1>7 DEF AttraperAnnulation, AttraperException, VerifierProprietaire
  <2> QED BY <1>0, <2>1
<1>8. CASE EcrireAnnulation(w)
  <2>1. /\ pc[w] = "annulationEcrit" /\ pc'[w] = "rendu" /\ verdict'[w] = "cancelled" /\ UNCHANGED par
        /\ statut'[j] = IF par[j] = w /\ statut[j] \in STATUTS_ACTIFS THEN "cancelled" ELSE statut[j]
    BY <1>0, <1>8 DEF EcrireAnnulation, Rendre
  <2> HIDE DEF j
  <2> QED BY <1>0, <2>1 DEF j, STATUTS_ACTIFS
<1>9. CASE EcrireRevue(w)
  <2>1. /\ pc[w] = "excRevue" /\ pc'[w] = "rendu" /\ UNCHANGED par
        /\ \/ /\ par[j] = w /\ statut[j] # "cancelled"
              /\ statut'[j] = "needs_review" /\ verdict'[w] = "needs_review"
           \/ /\ statut'[j] = statut[j]
              /\ verdict'[w] = IF statut[j] \in {"cancelled", "needs_review"} THEN statut[j]
                                                                            ELSE "stale_worker"
    BY <1>0, <1>9 DEF EcrireRevue, Rendre
  <2> HIDE DEF j
  <2> QED BY <1>0, <2>1 DEF j
<1>10. CASE EcrireEchec(w)
  <2>1. /\ pc[w] = "excEchec" /\ pc'[w] = "rendu" /\ verdict'[w] = "failed" /\ UNCHANGED par
        /\ statut'[j] = IF par[j] = w /\ statut[j] # "cancelled" THEN "running" ELSE statut[j]
    BY <1>0, <1>10 DEF EcrireEchec, Rendre
  <2> HIDE DEF j
  <2> QED BY <1>0, <2>1 DEF j
<1> QED BY <1>1, <1>2, <1>3, <1>4, <1>5, <1>6, <1>7, <1>8, <1>9, <1>10 DEF Traiter

LEMMA LigneSuite ==
  ASSUME TypeComplet, NEW w \in Workers, LigneVive(w), LigneSoldee(w), SuiteDeBoucle(w)
  PROVE  LigneDuPas(w)
<1> USE DEF Aller, tache, registre, PcRejouable, PcRendu, VerdictsFinis, Soldes, Permise, LigneDuPas,
        LigneVive, LigneSoldee
<1>0. /\ pc \in [Workers -> Pcs] /\ verdict \in [Workers -> Verdicts] /\ statut \in [Jobs -> Statuts]
      /\ par \in [Jobs -> Workers \cup {Aucun}] /\ JobDe(w) \in Jobs
  BY EffetSuite DEF TypeComplet, TypeOK, TypeTache, TypeRegistre
<1> DEFINE j == JobDe(w)
<1>1. CASE revendiquer_tache(w) \/ AcquitterRefus(w) \/ liberer_revendication(w)
  <2>1. pc'[w] \in {"revendique", "boucle", "libere"} /\ UNCHANGED statut
    BY <1>0, <1>1 DEF revendiquer_tache, AcquitterRefus, liberer_revendication
  <2> QED BY <1>0, <2>1
<1>2. CASE marquer_job_claim(w)
  <2>1. /\ JobDe(w)' = j
        /\ \/ Actif(j) /\ pc'[w] = "execute" /\ statut'[j] = "running"
           \/ pc'[w] = "refuse" /\ UNCHANGED <<statut, par>>
    BY <1>2, MarquerLigne DEF JobDe
  <2> HIDE DEF j
  <2> QED BY <1>0, <2>1 DEF j, Actif, STATUTS_ACTIFS
<1>3. CASE Decider(w)
  <2>1. /\ pc[w] = "rendu" /\ UNCHANGED <<statut, par, verdict>> /\ JobDe(w)' = j
        /\ \/ pc'[w] = "libere"
           \/ pc'[w] = "acquitter" /\ verdict[w] \notin {"failed", "upload_incomplete", "stale_worker"}
           \/ pc'[w] \in {"relancer", "enterrer"} /\ verdict[w] \in {"failed", "upload_incomplete"}
    BY <1>0, <1>3 DEF Decider, SuiteDuVerdict, JobDe
  <2>2. verdict[w] # "" /\ verdict[w] \in Verdicts
    BY <1>0, <2>1 DEF TypeComplet, TypeOK, TypeTache
  <2> QED BY <1>0, <2>1, <2>2 DEF Verdicts
<1>4. CASE ack_task(w)
  <2>1. /\ pc[w] = "acquitter" /\ pc'[w] \in {"clore", "libere"} /\ UNCHANGED <<statut, par, verdict>>
        /\ JobDe(w)' = j
    BY <1>0, <1>4 DEF ack_task, JobDe
  <2> QED BY <1>0, <2>1
<1>5. CASE retry_task(w)
  <2>1. /\ pc[w] = "relancer" /\ pc'[w] \in {"remettre", "libere"} /\ UNCHANGED <<statut, par, verdict>>
        /\ JobDe(w)' = j
    BY <1>0, <1>5 DEF retry_task, JobDe
  <2> QED BY <1>0, <2>1
<1>6. CASE NoterRelance(w)
  <2>1. /\ pc[w] = "remettre" /\ pc'[w] = "libere"
        /\ statut'[j] = IF par[j] = w /\ statut[j] # "cancelled" THEN "pending" ELSE statut[j]
    BY <1>0, <1>6 DEF NoterRelance
  <2> HIDE DEF j
  <2> QED BY <1>0, <2>1 DEF j
<1>7. CASE deadletter_task(w)
  <2>1. /\ pc[w] = "enterrer" /\ UNCHANGED <<statut, par>> /\ JobDe(w)' = j
        /\ \/ pc'[w] = "libere"
           \/ pc'[w] = "clore" /\ verdict'[w] = "failed"
    BY <1>0, <1>7 DEF deadletter_task, JobDe
  <2> QED BY <1>0, <2>1
<1>8. CASE terminer_job(w)
  <2>1. verdict[w] \in VerdictsClos
    BY <1>8 DEF terminer_job, TypeComplet, TypeOK, TypeTache
  <2>2. /\ pc[w] = "clore" /\ pc'[w] = "libere"
        /\ \/ PeutTerminer(w) /\ statut'[j] = verdict[w]
           \/ statut'[j] = statut[j]
    BY <1>0, <1>8 DEF terminer_job
  <2> HIDE DEF j
  <2> QED BY <1>0, <2>1, <2>2 DEF j, PeutTerminer, VerdictsClos, STATUTS_ACTIFS
<1> QED BY <1>1, <1>2, <1>3, <1>4, <1>5, <1>6, <1>7, <1>8 DEF SuiteDeBoucle


(* A worker that does not move: its row loses its owner or is cancelled.   *)
LEMMA LigneAutre ==
  ASSUME TypeComplet, NEW x \in Workers, LigneVive(x), LigneSoldee(x),
         pc'[x] = pc[x], livraison'[x] = livraison[x], verdict'[x] = verdict[x],
         \A i \in Jobs : par'[i] = x => par[i] = x /\ statut'[i] \in {statut[i], "cancelled"},
         \A i \in Jobs : statut[i] \in Soldes => statut'[i] \in Soldes
  PROVE  LigneVive(x)' /\ LigneSoldee(x)'
<1>1. pc[x] \notin PcTache => LigneVive(x)' /\ LigneSoldee(x)'
  BY DEF LigneVive, LigneSoldee, PcTache, PcTravail, PcRejouable, PcRendu
<1>2. pc[x] \in PcTache => JobDe(x) \in Jobs /\ JobDe(x)' = JobDe(x)
  BY JobEnMain DEF JobDe
<1>3. pc[x] \in PcTache => LigneVive(x)'
  BY <1>2 DEF LigneVive
<1>4. pc[x] \in PcTache => LigneSoldee(x)'
  BY <1>2 DEF LigneSoldee
<1> QED BY <1>1, <1>3, <1>4

(* The rows follow the lifecycle, but for those recover_stale_jobs fails.  *)
RegistrePermis ==
  \A i \in Jobs :
    \/ Permise(statut[i], statut'[i])
    \/ create_job(i) /\ statut[i] = "absent" /\ statut'[i] = "pending"
    \/ recover_stale_jobs /\ statut'[i] = "failed"

LEMMA PermisSoldes ==
  ASSUME RegistrePermis, NEW i \in Jobs, statut[i] \in Soldes
  PROVE  statut'[i] \in Soldes
BY DEF RegistrePermis, Permise, Soldes

LEMMA LignesTache ==
  ASSUME TypeComplet, LignesTenues, NEW w \in Workers, ~PanneTardive(w),
         SuiteDeBoucle(w) \/ Traiter(w)
  PROVE  LignesTenues' /\ RegistrePermis
<1>1. LigneDuPas(w) /\ JobDe(w) \in Jobs /\ AutresIntacts(w)
  BY LigneTraiter, LigneSuite, EffetTraiter, EffetSuite DEF LignesTenues
<1>2. \/ marquer_job_claim(w)
      \/ LigneParSoi(w)
  <2>1. CASE Traiter(w)
    BY <2>1, EffetTraiter DEF LigneParSoi, TypeComplet, TypeOK, TypeRegistre
  <2> QED BY <2>1, EffetSuite
<1>3. \A i \in Jobs \ {JobDe(w)} : statut'[i] = statut[i]
  BY <1>2, MarquerLigne DEF LigneParSoi
<1>4. RegistrePermis
  BY <1>1, <1>3 DEF RegistrePermis, LigneDuPas, Permise
<1>5. ASSUME NEW x \in Workers \ {w} PROVE LigneVive(x)' /\ LigneSoldee(x)'
  <2>1. \A i \in Jobs : par'[i] = x => par[i] = x /\ statut'[i] = statut[i]
    BY <1>2, <1>5, MarquerLigne, HypAucun DEF LigneParSoi
  <2>3. \A i \in Jobs :
          /\ par'[i] = x => par[i] = x /\ statut'[i] \in {statut[i], "cancelled"}
          /\ statut[i] \in Soldes => statut'[i] \in Soldes
    BY <1>4, <2>1, PermisSoldes
  <2>4. /\ pc'[x] = pc[x] /\ livraison'[x] = livraison[x] /\ verdict'[x] = verdict[x]
        /\ LigneVive(x) /\ LigneSoldee(x)
    BY <1>1, <1>5 DEF AutresIntacts, LignesTenues
  <2> QED BY <2>3, <2>4, LigneAutre
<1> QED BY <1>1, <1>4, <1>5 DEF LignesTenues, LigneDuPas

LEMMA LignesBalayage ==
  ASSUME TypeComplet, InvPropriete, LignesTenues, NEW w \in Workers, UNCHANGED web,
         Reconcilier(w) \/ LireVersions(w) \/ SauterBalayage(w) \/ Relancer(w) \/ InterrompreBalayage(w)
  PROVE  LignesTenues' /\ RegistrePermis
<1>1. PasBalayage(w) /\ RegistreRecule
  BY PasDeBalayage, ReconcilierRecule
<1>2. \A i \in Jobs : \/ statut'[i] = statut[i] /\ par'[i] = par[i]
                      \/ Actif(i) /\ par'[i] = Aucun /\ statut'[i] \in {statut[i], "pending", "failed", "cancelled"}
  BY <1>1 DEF PasBalayage, RegistreRecule
<1>3. RegistrePermis
  BY <1>2 DEF RegistrePermis, Permise, Actif, STATUTS_ACTIFS
<1>4. ASSUME NEW x \in Workers \ {w} PROVE LigneVive(x)' /\ LigneSoldee(x)'
  <2>1. \A i \in Jobs : par'[i] = x => par[i] = x /\ statut'[i] = statut[i]
    BY <1>2, <1>4, HypAucun
  <2>3. \A i \in Jobs :
          /\ par'[i] = x => par[i] = x /\ statut'[i] \in {statut[i], "cancelled"}
          /\ statut[i] \in Soldes => statut'[i] \in Soldes
    BY <1>3, <2>1, PermisSoldes
  <2>4. /\ pc'[x] = pc[x] /\ livraison'[x] = livraison[x] /\ verdict'[x] = verdict[x]
        /\ LigneVive(x) /\ LigneSoldee(x)
    BY <1>1, <1>4 DEF PasBalayage, LignesTenues
  <2> QED BY <2>3, <2>4, LigneAutre
<1>5. LigneVive(w)' /\ LigneSoldee(w)'
  BY <1>1 DEF PasBalayage, LigneVive, LigneSoldee, PcTache, PcTravail, PcRejouable, PcRendu
<1> QED BY <1>3, <1>4, <1>5 DEF LignesTenues

LEMMA LignesTete ==
  ASSUME TypeComplet, LignesTenues, NEW w \in Workers, TeteDeBoucle(w) \/ Tuer(w)
  PROVE  LignesTenues' /\ UNCHANGED registre
<1>1. UNCHANGED registre
  BY DEF TeteDeBoucle, process_retry_queue, dequeue_task, Tuer
<1>2. /\ pc'[w] \in {"boucle", "depile", "arret"}
      /\ AutresIntacts(w)
  BY DEF TeteDeBoucle, process_retry_queue, dequeue_task, Tuer, Aller, tache, AutresIntacts,
     TypeComplet, TypeOK, TypeTache
<1>3. LigneVive(w)' /\ LigneSoldee(w)'
  BY <1>2 DEF LigneVive, LigneSoldee, PcRejouable, PcRendu
<1>4. ASSUME NEW x \in Workers \ {w} PROVE LigneVive(x)' /\ LigneSoldee(x)'
  BY <1>1, <1>2, <1>4, LigneAutre DEF registre, AutresIntacts, LignesTenues
<1> QED BY <1>1, <1>3, <1>4 DEF LignesTenues

(* A web request or the environment leaves a row to its owner as it is,    *)
(* but to cancel it.                                                       *)
GardeLignes ==
  \A i \in Jobs : par'[i] \in Workers => par'[i] = par[i] /\ statut'[i] \in {statut[i], "cancelled"}

LEMMA LignesHors ==
  ASSUME TypeComplet, InvPropriete, AutrePas
  PROVE  RegistrePermis /\ GardeLignes
<1> USE DEF TypeComplet, TypeOK, TypeRegistre, registre, RegistrePermis, Permise, GardeLignes
<1>1. ASSUME NEW k \in Jobs, create_job(k) PROVE RegistrePermis /\ GardeLignes
  <2>1. demande[k] = "libre" /\ statut' = [statut EXCEPT ![k] = "pending"] /\ UNCHANGED par
    BY <1>1 DEF create_job
  <2>2. statut[k] = "absent" /\ par[k] = Aucun
    BY <2>1 DEF InvPropriete, DemandeConnue
  <2>3. /\ statut'[k] = "pending" /\ \A i \in Jobs \ {k} : statut'[i] = statut[i]
        /\ \A i \in Jobs : par'[i] = par[i]
    BY <2>1
  <2>4. RegistrePermis
    BY <1>1, <2>2, <2>3
  <2>5. GardeLignes
    BY <2>2, <2>3, HypAucun
  <2> QED BY <2>4, <2>5
<1>2. ASSUME NEW k \in Jobs, enqueue_task(k) \/ EnfilageRate(k) PROVE RegistrePermis /\ GardeLignes
  BY <1>2 DEF enqueue_task, EnfilageRate
<1>3. ASSUME NEW k \in Jobs, cancel_job(k) PROVE RegistrePermis /\ GardeLignes
  BY <1>3 DEF cancel_job, Actif, STATUTS_ACTIFS
<1>4. CASE recover_stale_jobs
  <2>1. ASSUME NEW i \in Jobs
        PROVE  \/ statut'[i] = statut[i] /\ par'[i] = par[i]
               \/ statut'[i] = "failed" /\ par'[i] = Aucun
    BY <1>4 DEF recover_stale_jobs
  <2> QED BY <1>4, <2>1, HypAucun
<1>5. CASE \/ ListerCandidats \/ ChercherCandidat \/ ChercherCandidatTraitement
           \/ ChercherCandidatRelance
  BY <1>5 DEF ListerCandidats, ChercherCandidat, ChercherCandidatTraitement, ChercherCandidatRelance
<1>6. CASE \/ \E k \in Jobs : ExpirerMort(k) \/ ExpirerVivant(k)
           \/ Rejouer \/ PerdreRedis \/ UNCHANGED vars
  BY <1>6 DEF ExpirerMort, ExpirerVivant, LacherClaim, Rejouer, replay_deadletters, PerdreRedis, vars
<1> QED BY <1>1, <1>2, <1>3, <1>4, <1>5, <1>6 DEF AutrePas, PasRoute, DemarrerWeb

LEMMA LignesAutre ==
  ASSUME TypeComplet, InvPropriete, LignesTenues, AutrePas
  PROVE  LignesTenues' /\ RegistrePermis
<1>1. UNCHANGED <<pc, tache>>
  BY AutrePasHors
<1>2. RegistrePermis /\ GardeLignes
  BY LignesHors
<1>3. ASSUME NEW x \in Workers PROVE LigneVive(x)' /\ LigneSoldee(x)'
  <2>1. pc'[x] = pc[x] /\ livraison'[x] = livraison[x] /\ verdict'[x] = verdict[x]
    BY <1>1 DEF tache
  <2>2. \A i \in Jobs : statut[i] \in Soldes => statut'[i] \in Soldes
    BY <1>2, PermisSoldes
  <2> QED BY <1>2, <2>1, <2>2, LigneAutre DEF LignesTenues, GardeLignes
<1> QED BY <1>2, <1>3 DEF LignesTenues

(* An error of the registry or of Redis: before the outcome the row runs,  *)
(* or was cancelled, and the job is retried or buried as a failure.        *)
LEMMA LignesPanne ==
  ASSUME TypeComplet, LignesTenues, NEW w \in Workers, PanneAppel(w), ~ExceptionTardive(w)
  PROVE  LignesTenues' /\ UNCHANGED registre
<1>0. pc \in [Workers -> Pcs] /\ verdict \in [Workers -> Verdicts]
  BY DEF TypeComplet, TypeOK, TypeTache
<1>1. UNCHANGED registre /\ AutresIntacts(w) /\ livraison' = livraison
  BY <1>0 DEF PanneAppel, ExceptionEchappee, ClotureRatee, Aller, tache, AutresIntacts
<1>2. LigneVive(w)' /\ LigneSoldee(w)'
  <2>1. CASE ClotureRatee(w)
    <3>1. pc'[w] = "libere"
      BY <1>0, <2>1 DEF ClotureRatee, Aller
    <3> QED BY <3>1 DEF LigneVive, LigneSoldee, PcRejouable, PcRendu
  <2>2. CASE ExceptionEchappee(w)
    <3>1. pc'[w] \in {"relancer", "enterrer"}
      BY <1>0, <2>2 DEF ExceptionEchappee, Aller
    <3>2. LigneSoldee(w)'
      BY <3>1 DEF LigneSoldee, PcRendu
    <3>3. par[JobDe(w)] = w => statut[JobDe(w)] \in {"running", "cancelled"}
      <4>1. pc[w] \in PcSansFilet /\ ~(pc[w] = "clore" /\ verdict[w] \in VerdictsFinis)
        BY <2>2 DEF ExceptionEchappee, ExceptionTardive
      <4>2. CASE pc[w] \in {"annulation", "annulationEcrit"}
        BY <4>2 DEF LignesTenues, LigneSoldee
      <4>3. CASE pc[w] = "clore"
        <5>1. verdict[w] = "failed"
          BY <4>1, <4>3 DEF VerdictsFinis, VerdictsClos, TypeComplet, TypeOK, TypeTache
        <5> QED BY <4>3, <5>1 DEF LignesTenues, LigneVive, PcRendu
      <4>4. CASE pc[w] \in {"execute", "exception", "excRevue", "excEchec", "remettre"}
        BY <4>4 DEF LignesTenues, LigneVive, PcRejouable
      <4> QED BY <4>1, <4>2, <4>3, <4>4 DEF PcSansFilet
    <3>4. LigneVive(w)'
      BY <1>1, <3>1, <3>3 DEF LigneVive, PcRejouable, PcRendu, registre, JobDe
    <3> QED BY <3>2, <3>4
  <2> QED BY <2>1, <2>2 DEF PanneAppel
<1>3. ASSUME NEW x \in Workers \ {w} PROVE LigneVive(x)' /\ LigneSoldee(x)'
  BY <1>1, <1>3, LigneAutre DEF registre, AutresIntacts, LignesTenues
<1> QED BY <1>1, <1>2, <1>3 DEF LignesTenues

LEMMA LignePas ==
  ASSUME TypeComplet, InvPropriete, LignesTenues, [Next]_vars, [AucuneTardive]_vars
  PROVE  LignesTenues' /\ RegistrePermis
<1>1. ASSUME NEW x \in Workers, PasWorker(x) \/ Balayer(x) \/ AleaWorker(x), UNCHANGED web,
             ~ExceptionTardive(x)
      PROVE  LignesTenues' /\ RegistrePermis
  <2>1. CASE SuiteDeBoucle(x) \/ Traiter(x)
    BY <1>1, <2>1, LignesTache DEF ExceptionTardive
  <2>2. CASE TeteDeBoucle(x) \/ Tuer(x)
    BY <2>2, LignesTete DEF RegistrePermis, Permise, registre
  <2>3. CASE Reconcilier(x) \/ LireVersions(x) \/ SauterBalayage(x) \/ Relancer(x) \/ InterrompreBalayage(x)
    BY <1>1, <2>3, LignesBalayage
  <2>4. CASE PanneAppel(x)
    BY <1>1, <2>4, LignesPanne DEF RegistrePermis, Permise, registre
  <2> QED BY <1>1, <2>1, <2>2, <2>3, <2>4 DEF PasWorker, Avancer, Balayer, AleaWorker
<1>2. CASE AutrePas
  BY <1>2, LignesAutre
<1>3. ASSUME NEW x \in Workers, Balayer(x) \/ AleaWorker(x) PROVE UNCHANGED web
  BY <1>3 DEF Balayer, AleaWorker, Tuer, Relancer, PanneAppel, InterrompreBalayage
<1>4. CASE UNCHANGED vars
  BY <1>2, <1>4 DEF AutrePas
<1>5. CASE Next /\ AucuneTardive
  BY <1>1, <1>2, <1>3, <1>5 DEF Next, AutrePas, AucuneTardive
<1> QED BY <1>4, <1>5

(* What a worker knows of the row of its job, whatever call of a worker    *)
(* fails, as long as no error comes after the outcome.                     *)
THEOREM LigneToujoursConnue == Spec /\ SansExceptionTardive => []LignesTenues
<1>1. Init => LignesTenues
  <2> SUFFICES ASSUME Init, NEW w \in Workers PROVE LigneVive(w) /\ LigneSoldee(w)
    BY DEF LignesTenues
  <2>1. pc[w] = "depart"
    BY DEF Init, InitFile
  <2> QED BY <2>1 DEF LigneVive, LigneSoldee, PcRejouable, PcRendu
<1>2. /\ TypeComplet /\ InvPropriete /\ LignesTenues /\ [Next]_vars
      /\ [AucuneTardive]_vars
      => LignesTenues'
  BY LignePas
<1> QED BY <1>1, <1>2, TypeCorrect, VersionsToujoursVieilles, PTL DEF Spec, SansExceptionTardive

----------------------------------------------------------------------------
(* Nothing is lost.                                                         *)

LEMMA ListesType ==
  ASSUME TypeComplet
  PROVE  /\ file \in Seq(Livraisons) /\ enTraitement \in Seq(Livraisons) /\ morte \in Seq(Livraisons)
         /\ relance \in SUBSET Livraisons
BY DEF TypeComplet, TypeOK, TypeRedis

LEMMA ListesIntactes ==
  ASSUME UNCHANGED <<file, enTraitement, relance, morte>>, NEW j, Connu(j)
  PROVE  Connu(j)'
BY DEF Connu, EnFile, DansListe, DansRelance

(* A delivery of j goes out for good: only that of a settled job does, as  *)
(* long as who acknowledges has a settled row.                             *)
Retire(w, j) ==
  /\ ack_task(w) \/ AcquitterRefus(w)
  /\ JobDe(w) = j /\ enTraitement' # enTraitement

LEMMA RetraitSolde ==
  ASSUME NEW w \in Workers, pc[w] = "acquitter" => statut[JobDe(w)] \in Soldes,
         NEW j \in Jobs, Retire(w, j)
  PROVE  ~Actif(j)
BY DEF Retire, ack_task, AcquitterRefus, Soldes, Actif, STATUTS_ACTIFS

(* The end of a task: any other delivery removed enters another list.      *)
LEMMA ConnuSuite ==
  ASSUME TypeComplet, NEW w \in Workers, SuiteDeBoucle(w), NEW j \in Jobs, Connu(j), ~Retire(w, j)
  PROVE  Connu(j)'
<1> USE ListesType DEF redis, Connu, EnFile
<1>1. ASSUME enTraitement' = Lrem(enTraitement, livraison[w]), UNCHANGED file,
             \A d \in relance : d \in relance',
             DansListe(morte, j) => DansListe(morte', j), JobDe(w) # j
      PROVE  Connu(j)'
  <2>1. DansListe(enTraitement, j) => DansListe(enTraitement', j)
    BY <1>1, DansListeRetrait DEF JobDe
  <2>2. DansRelance(j) => DansRelance(j)'
    BY <1>1 DEF DansRelance
  <2> QED BY <1>1, <2>1, <2>2
<1>2. CASE AcquitterRefus(w) \/ ack_task(w)
  <2>1. UNCHANGED <<file, relance, morte>>
    BY <1>2 DEF AcquitterRefus, ack_task
  <2>2. CASE UNCHANGED enTraitement
    BY <2>1, <2>2, ListesIntactes
  <2>3. CASE enTraitement' # enTraitement
    <3>1. enTraitement' = Lrem(enTraitement, livraison[w])
      BY <1>2, <2>3 DEF AcquitterRefus, ack_task
    <3>2. JobDe(w) # j
      BY <1>2, <2>3 DEF Retire
    <3> QED BY <1>1, <2>1, <3>1, <3>2 DEF DansListe
  <2> QED BY <2>2, <2>3
<1>3. CASE retry_task(w)
  <2>1. CASE PeutClore(w)
    <3>1. /\ enTraitement' = Lrem(enTraitement, livraison[w])
          /\ relance' = relance \cup {TacheRelancee(livraison[w])} /\ UNCHANGED <<file, morte>>
      BY <1>3, <2>1 DEF retry_task
    <3>2. CASE JobDe(w) = j
      <4>1. TacheRelancee(livraison[w]).job = j
        BY <3>2 DEF TacheRelancee, JobDe
      <4> QED BY <3>1, <4>1 DEF DansRelance
    <3>3. CASE JobDe(w) # j
      BY <1>1, <3>1, <3>3 DEF DansListe
    <3> QED BY <3>2, <3>3
  <2>2. CASE ~PeutClore(w)
    BY <1>3, <2>2, ListesIntactes DEF retry_task
  <2> QED BY <2>1, <2>2
<1>4. CASE deadletter_task(w)
  <2>1. CASE PeutClore(w)
    <3>1. /\ enTraitement' = Lrem(enTraitement, livraison[w])
          /\ morte' = Append(morte, livraison[w]) /\ UNCHANGED <<file, relance>>
      BY <1>4, <2>1 DEF deadletter_task
    <3>2. livraison[w] \in Livraisons
      BY <1>4, JobEnMain DEF deadletter_task, PcTache
    <3>3. DansListe(morte', j) <=> DansListe(morte, j) \/ JobDe(w) = j
      BY <3>1, <3>2, DansListeAjout DEF JobDe
    <3>4. CASE JobDe(w) = j
      BY <3>3, <3>4 DEF DansListe
    <3>5. CASE JobDe(w) # j
      BY <1>1, <3>1, <3>3, <3>5
    <3> QED BY <3>4, <3>5
  <2>2. CASE ~PeutClore(w)
    BY <1>4, <2>2, ListesIntactes DEF deadletter_task
  <2> QED BY <2>1, <2>2
<1>5. CASE \/ revendiquer_tache(w) \/ marquer_job_claim(w) \/ Decider(w) \/ NoterRelance(w)
           \/ terminer_job(w) \/ liberer_revendication(w)
  BY <1>5, ListesIntactes DEF revendiquer_tache, marquer_job_claim, Decider, NoterRelance,
     terminer_job, liberer_revendication
<1> QED BY <1>2, <1>3, <1>4, <1>5 DEF SuiteDeBoucle

LEMMA ConnuTete ==
  ASSUME TypeComplet, NEW w \in Workers, TeteDeBoucle(w), NEW j \in Jobs, Connu(j)
  PROVE  Connu(j)'
<1> USE ListesType DEF Connu, EnFile
<1>1. CASE process_retry_queue(w)
  <2>1. PICK d \in relance : relance' = relance \ {d} /\ file' = Append(file, d)
    BY <1>1 DEF process_retry_queue
  <2>2. DansListe(file', j) <=> DansListe(file, j) \/ d.job = j
    BY <2>1, DansListeAjout
  <2>3. DansRelance(j) => DansRelance(j)' \/ d.job = j
    BY <2>1 DEF DansRelance
  <2>4. UNCHANGED <<enTraitement, morte>>
    BY <1>1 DEF process_retry_queue
  <2> QED BY <2>2, <2>3, <2>4 DEF DansListe
<1>2. CASE dequeue_task(w)
  <2>1. /\ file # <<>> /\ file' = Tail(file) /\ enTraitement' = Append(enTraitement, Head(file))
        /\ UNCHANGED <<relance, morte>>
    BY <1>2 DEF dequeue_task
  <2>2. Head(file) \in Livraisons
    BY <2>1, HeadTailProperties
  <2>3. DansListe(file, j) <=> DansListe(file', j) \/ Head(file).job = j
    BY <2>1, DansListeQueue
  <2>4. DansListe(enTraitement', j) <=> DansListe(enTraitement, j) \/ Head(file).job = j
    BY <2>1, <2>2, DansListeAjout
  <2> QED BY <2>1, <2>3, <2>4 DEF DansListe, DansRelance
<1> QED BY <1>1, <1>2 DEF TeteDeBoucle

LEMMA ConnuBalayage ==
  ASSUME TypeComplet, NEW w \in Workers, NEW j \in Jobs,
         Reconcilier(w) \/ LireVersions(w) \/ SauterBalayage(w) \/ Relancer(w)
  PROVE  /\ Connu(j) => Connu(j)'
         /\ numero'[j] = numero[j] \/ Connu(j)'
<1> USE ListesType DEF Connu, EnFile
<1>1. CASE reprendre_taches_orphelines(w)
  <2>0. PICK d : d = Head(aVoir[w])
    OBVIOUS
  <2>1. d \in Livraisons
    BY <1>1, <2>0, HeadTailProperties DEF reprendre_taches_orphelines, TypeComplet, TypeOK, TypeBalayage
  <2>2. PICK s : s = [d EXCEPT !.attempt = @ + 1]
    OBVIOUS
  <2>3. s \in Livraisons /\ s.job = d.job
    <3>1. d.attempt + 1 \in Nat
      BY <2>1 DEF Livraisons
    <3>2. s \in Livraisons
      BY <2>1, <2>2, <3>1 DEF Livraisons
    <3> QED BY <2>1, <2>2, <3>2 DEF Livraisons
  <2>4. \/ UNCHANGED <<enTraitement, file, morte>>
        \/ /\ enTraitement' = Lrem(enTraitement, d)
           /\ \/ file' = Append(file, s) /\ morte' = morte
              \/ file' = file /\ morte' = Append(morte, d)
    BY <1>1, <2>0, <2>2 DEF reprendre_taches_orphelines
  <2>5. UNCHANGED <<relance, numero>>
    BY <1>1 DEF reprendre_taches_orphelines, portes
  <2>6. /\ DansListe(Append(file, s), j) <=> DansListe(file, j) \/ s.job = j
        /\ DansListe(Append(morte, d), j) <=> DansListe(morte, j) \/ d.job = j
    BY <2>1, <2>3, DansListeAjout
  <2>7. DansListe(enTraitement, j) /\ d.job # j => DansListe(Lrem(enTraitement, d), j)
    BY DansListeRetrait
  <2>8. DansRelance(j)' <=> DansRelance(j)
    BY <2>5 DEF DansRelance
  <2>9. CASE UNCHANGED <<enTraitement, file, morte>>
    BY <2>5, <2>9, ListesIntactes
  <2>10. CASE /\ enTraitement' = Lrem(enTraitement, d)
              /\ file' = Append(file, s) /\ morte' = morte
    BY <2>3, <2>5, <2>6, <2>7, <2>8, <2>10
  <2>11. CASE /\ enTraitement' = Lrem(enTraitement, d)
              /\ file' = file /\ morte' = Append(morte, d)
    BY <2>5, <2>6, <2>7, <2>8, <2>11
  <2> QED BY <2>4, <2>9, <2>10, <2>11
<1>2. CASE enqueue_task_si_absent(w)
  <2>1. UNCHANGED <<enTraitement, relance, morte>>
    BY <1>2 DEF enqueue_task_si_absent
  <2>2. \/ UNCHANGED <<file, numero>>
        \/ /\ file' = Append(file, [job |-> examine[w], task_id |-> numero[examine[w]] + 1, attempt |-> 0])
           /\ \A i \in Jobs \ {examine[w]} : numero'[i] = numero[i]
    BY <1>2 DEF enqueue_task_si_absent, TypeComplet, TypeOK, TypePortes
  <2>3. PICK e : e = [job |-> examine[w], task_id |-> numero[examine[w]] + 1, attempt |-> 0]
    OBVIOUS
  <2>4. e \in Livraisons /\ e.job = examine[w]
    <3>1. examine[w] \in Jobs
      BY <1>2 DEF enqueue_task_si_absent, PcExamen, TypeComplet, TypeOK, TypeBalayage
    <3> QED BY <2>3, <3>1 DEF Livraisons, TypeComplet, TypeOK, TypePortes
  <2>5. DansListe(Append(file, e), j) <=> DansListe(file, j) \/ examine[w] = j
    BY <2>4, DansListeAjout
  <2>6. CASE UNCHANGED <<file, numero>>
    BY <2>1, <2>6, ListesIntactes
  <2>7. CASE file' = Append(file, e) /\ \A i \in Jobs \ {examine[w]} : numero'[i] = numero[i]
    BY <2>1, <2>5, <2>7 DEF DansListe, DansRelance
  <2> QED BY <2>2, <2>3, <2>6, <2>7
<1>3. CASE ~reprendre_taches_orphelines(w) /\ ~enqueue_task_si_absent(w)
  <2>1. UNCHANGED redis /\ UNCHANGED portes
    BY <1>3 DEF Reconcilier, LireEnTraitement, AppliquerDecision, jobs_actifs, ChercherFile,
       ChercherTraitement, ChercherRelance, Examiner, AbandonnerOrphelin, RemettreOrphelin,
       FinirReconciliation, LireVersions, SauterBalayage, Relancer
  <2> QED BY <2>1, ListesIntactes DEF redis, portes
<1> QED BY <1>1, <1>2, <1>3

LEMMA ConnuAutre ==
  ASSUME TypeComplet, AutrePas, ~PerdreRedis, NEW j \in Jobs
  PROVE  /\ Connu(j) => Connu(j)'
         /\ numero'[j] = numero[j] \/ Connu(j)'
<1> USE ListesType DEF Connu, EnFile
<1>1. ASSUME NEW k \in Jobs, enqueue_task(k) PROVE (Connu(j) => Connu(j)') /\ (numero'[j] = numero[j] \/ Connu(j)')
  <2>1. /\ UNCHANGED <<enTraitement, relance, morte>>
        /\ \A i \in Jobs \ {k} : numero'[i] = numero[i]
    BY <1>1 DEF enqueue_task, TypeComplet, TypeOK, TypePortes
  <2>2. PICK e : e = [job |-> k, task_id |-> numero[k] + 1, attempt |-> 0]
    OBVIOUS
  <2>3. e \in Livraisons /\ e.job = k /\ file' = Append(file, e)
    BY <1>1, <2>2 DEF enqueue_task, Livraisons, TypeComplet, TypeOK, TypePortes
  <2>4. DansListe(file', j) <=> DansListe(file, j) \/ k = j
    BY <2>3, DansListeAjout
  <2> QED BY <2>1, <2>4 DEF DansListe, DansRelance
<1>2. CASE Rejouer
  <2>1. /\ morte # <<>> /\ file' = Append(file, Head(morte)) /\ morte' = Tail(morte)
        /\ UNCHANGED <<enTraitement, relance, numero>>
    BY <1>2 DEF Rejouer, replay_deadletters, portes
  <2>2. Head(morte) \in Livraisons
    BY <2>1, HeadTailProperties
  <2>3. DansListe(file', j) <=> DansListe(file, j) \/ Head(morte).job = j
    BY <2>1, <2>2, DansListeAjout
  <2>4. DansListe(morte, j) <=> DansListe(morte', j) \/ Head(morte).job = j
    BY <2>1, DansListeQueue
  <2> QED BY <2>1, <2>3, <2>4 DEF DansListe, DansRelance
<1>3. CASE ~Rejouer /\ \A k \in Jobs : ~enqueue_task(k)
  <2>1. UNCHANGED <<file, enTraitement, relance, morte, numero>>
    BY <1>3 DEF AutrePas, PasRoute, create_job, EnfilageRate, cancel_job, ExpirerMort,
       ExpirerVivant, LacherClaim, DemarrerWeb, ListerCandidats, ChercherCandidat,
       ChercherCandidatTraitement, ChercherCandidatRelance, recover_stale_jobs, autres, vars, redis,
       portes
  <2> QED BY <2>1, ListesIntactes
<1> QED BY <1>1, <1>2, <1>3

LEMMA ListesDuPas ==
  ASSUME TypeComplet, InvPropriete, [Next]_vars, ~PerdreRedis,
         NEW j \in Jobs, \A x \in Workers : ~Retire(x, j)
  PROVE  /\ Connu(j) => Connu(j)'
         /\ numero'[j] = numero[j] \/ Connu(j)'
<1>1. ASSUME NEW x \in Workers, PasWorker(x) \/ Balayer(x) \/ AleaWorker(x)
      PROVE  /\ Connu(j) => Connu(j)'
             /\ numero'[j] = numero[j] \/ Connu(j)'
  <2>1. CASE SuiteDeBoucle(x)
    <3>1. UNCHANGED numero
      BY <2>1, EffetSuite DEF portes
    <3> QED BY <2>1, <3>1, ConnuSuite
  <2>2. CASE Traiter(x)
    BY <2>2, EffetTraiter, ListesIntactes DEF redis, portes
  <2>3. CASE TeteDeBoucle(x)
    <3>1. UNCHANGED numero
      BY <2>3 DEF TeteDeBoucle, process_retry_queue, dequeue_task, portes
    <3> QED BY <2>3, <3>1, ConnuTete
  <2>4. CASE Tuer(x) \/ PanneAppel(x) \/ InterrompreBalayage(x)
    BY <2>4, ListesIntactes DEF Tuer, PanneAppel, ExceptionEchappee, ClotureRatee, InterrompreBalayage,
       redis, portes
  <2>5. CASE Reconcilier(x) \/ LireVersions(x) \/ SauterBalayage(x) \/ Relancer(x)
    BY <2>5, ConnuBalayage
  <2> QED BY <1>1, <2>1, <2>2, <2>3, <2>4, <2>5
          DEF PasWorker, Avancer, Balayer, AleaWorker
<1>2. CASE AutrePas
  BY <1>2, ConnuAutre
<1> QED BY <1>1, <1>2 DEF Next, AutrePas

LEMMA PertesPas ==
  ASSUME TypeComplet, [Next]_vars, pertes' = 0
  PROVE  pertes = 0 /\ ~PerdreRedis
<1>1. pertes \in Nat
  BY DEF TypeComplet, TypeCompteurs
<1>2. ~PerdreRedis
  BY <1>1 DEF PerdreRedis
<1>3. ASSUME NEW w \in Workers, Balayer(w) \/ AleaWorker(w) PROVE pertes' = pertes
  BY <1>3 DEF Balayer, AleaWorker, Tuer, Relancer, PanneAppel, InterrompreBalayage, compteurs
<1>4. ASSUME NEW j \in Jobs, ExpirerMort(j) \/ ExpirerVivant(j) PROVE pertes' = pertes
  BY <1>4 DEF ExpirerMort, ExpirerVivant, LacherClaim
<1>5. ASSUME Rejouer \/ UNCHANGED vars \/ UNCHANGED compteurs PROVE pertes' = pertes
  BY <1>5 DEF Rejouer, vars, compteurs
<1> QED BY <1>2, <1>3, <1>4, <1>5 DEF Next

(* A job that is active after a step stays known, if it was when it was     *)
(* not active before.                                                       *)
LEMMA ConnuPas ==
  ASSUME TypeComplet, InvPropriete, AucunePerte, [Next]_vars,
         \A x \in Workers : pc[x] = "acquitter" => statut[JobDe(x)] \in Soldes,
         NEW j \in Jobs, Actif(j)', numero'[j] > 0, pertes' = 0,
         Actif(j) \/ create_job(j) \/ Connu(j)
  PROVE  Connu(j)'
<1>1. pertes = 0 /\ ~PerdreRedis
  BY PertesPas
<1>2. \A x \in Workers : ~Retire(x, j)
  <2> SUFFICES ASSUME NEW x \in Workers, Retire(x, j) PROVE FALSE
    OBVIOUS
  <2>1. UNCHANGED registre
    BY DEF Retire, ack_task, AcquitterRefus
  <2>2. Actif(j)
    BY <2>1 DEF Actif, registre
  <2> QED BY <2>2, RetraitSolde
<1>3. CASE numero'[j] # numero[j]
  BY <1>1, <1>2, <1>3, ListesDuPas
<1>4. CASE numero'[j] = numero[j]
  <2>1. create_job(j) => numero[j] = 0
    BY DEF create_job, InvPropriete, DemandeConnue
  <2>2. Connu(j)
    BY <1>1, <1>4, <2>1 DEF AucunePerte, Connu
  <2> QED BY <1>1, <1>2, <2>2, ListesDuPas
<1> QED BY <1>3, <1>4

LEMMA InitConnu == Init => AucunePerte
<1> SUFFICES ASSUME Init PROVE \A j \in Jobs : ~Actif(j)
  BY DEF AucunePerte
<1> QED BY DEF Init, InitFile, Actif, STATUTS_ACTIFS

(* As long as Redis kept its volume and no error came after an outcome, a  *)
(* job once pushed and still active has a delivery in the queue, in        *)
(* processing, waiting a retry, or among the dead letters: for any number  *)
(* of jobs, workers, kills, failing calls, expired claims and replays, and *)
(* whatever the start of the web process declares failed.                  *)
THEOREM AucunePerteProuvee == Spec /\ SansExceptionTardive => []AucunePerte
<1>1. /\ TypeComplet /\ InvPropriete /\ LignesTenues /\ AucunePerte /\ [Next]_vars
      /\ [AucuneTardive]_vars
      => AucunePerte'
  <2> SUFFICES ASSUME TypeComplet, InvPropriete, LignesTenues, AucunePerte, [Next]_vars,
                      [AucuneTardive]_vars,
                      NEW j \in Jobs, Actif(j)', numero'[j] > 0, pertes' = 0
               PROVE  Connu(j)'
    BY DEF AucunePerte, Connu
  <2>1. Actif(j) \/ create_job(j)
    <3>1. RegistrePermis
      BY LignePas
    <3> QED BY <3>1 DEF RegistrePermis, Permise, Actif, STATUTS_ACTIFS
  <2>2. \A x \in Workers : pc[x] = "acquitter" => statut[JobDe(x)] \in Soldes
    BY DEF LignesTenues, LigneSoldee, PcRendu
  <2> QED BY <2>1, <2>2, ConnuPas
<1> QED BY <1>1, InitConnu, TypeCorrect, VersionsToujoursVieilles, LigneToujoursConnue, PTL
        DEF Spec, SansExceptionTardive

----------------------------------------------------------------------------
(* One worker at most on a job.                                             *)

LEMMA UnSeulSurLeJob ==
  ASSUME ClaimGarde, NEW w \in Workers, NEW x \in Workers, pc[w] \in PcExclusif, pc[x] \in PcExclusif,
         JobDe(w) = JobDe(x)
  PROVE  w = x
BY DEF ClaimGarde, ClaimAMoi

(* A worker takes a claim nobody has, and gives back its own.              *)
ClaimDuPas(w) ==
  /\ AutresIntacts(w)
  /\ \A i \in Jobs : claim'[i] = claim[i] \/ claim[i] \in {Aucun, w}
  /\ pc'[w] \in PcExclusif => claim'[JobDe(w)'] = w

LEMMA ClaimTache ==
  ASSUME TypeComplet, ClaimGarde, NEW w \in Workers,
         SuiteDeBoucle(w) \/ Traiter(w) \/ TeteDeBoucle(w) \/ PanneAppel(w) \/ Tuer(w)
  PROVE  ClaimDuPas(w)
<1> USE DEF Aller, tache, redis, PcExclusif, PcTache, PcTravail, ClaimDuPas, ClaimGarde, ClaimAMoi, JobDe
<1>0. /\ pc \in [Workers -> Pcs] /\ claim \in [Jobs -> Workers \cup {Aucun}]
      /\ livraison \in [Workers -> Livraisons \cup {Aucun}]
  BY DEF TypeComplet, TypeOK, TypeTache, TypeRedis
<1>1. CASE Traiter(w)
  BY <1>0, <1>1, EffetTraiter
<1>2. CASE SuiteDeBoucle(w)
  <2>0. AutresIntacts(w) /\ JobDe(w) \in Jobs
    BY <1>2, EffetSuite
  <2>1. CASE revendiquer_tache(w)
    <3>1. CASE PeutRevendiquer(w)
      <4>1. claim' = [claim EXCEPT ![JobDe(w)] = w] /\ UNCHANGED livraison /\ claim[JobDe(w)] \in {Aucun, w}
        BY <2>1, <3>1 DEF revendiquer_tache, PeutRevendiquer
      <4> QED BY <1>0, <2>0, <4>1
    <3>2. CASE ~PeutRevendiquer(w)
      <4>1. pc'[w] = "boucle" /\ UNCHANGED claim
        BY <1>0, <2>1, <3>2 DEF revendiquer_tache
      <4> QED BY <2>0, <4>1
    <3> QED BY <3>1, <3>2
  <2>2. CASE liberer_revendication(w)
    <3>1. pc'[w] = "boucle" /\ \A i \in Jobs : claim'[i] = claim[i] \/ claim[i] = w
      BY <1>0, <2>0, <2>2 DEF liberer_revendication
    <3> QED BY <2>0, <3>1
  <2>3. CASE ~revendiquer_tache(w) /\ ~liberer_revendication(w)
    <3>1. /\ UNCHANGED <<claim, livraison>>
          /\ pc[w] \in PcExclusif
      BY <1>2, <2>3 DEF SuiteDeBoucle, marquer_job_claim, AcquitterRefus, Decider, ack_task, retry_task,
         NoterRelance, deadletter_task, terminer_job
    <3> QED BY <2>0, <3>1
  <2> QED BY <2>1, <2>2, <2>3
<1>3. CASE TeteDeBoucle(w) \/ Tuer(w)
  <2>1. pc'[w] \in {"boucle", "depile", "arret"} /\ UNCHANGED claim /\ AutresIntacts(w)
    BY <1>0, <1>3 DEF TeteDeBoucle, process_retry_queue, dequeue_task, Tuer, AutresIntacts, TypeComplet,
       TypeOK, TypeTache
  <2> QED BY <2>1
<1>4. CASE PanneAppel(w)
  <2>1. UNCHANGED <<claim, livraison>> /\ AutresIntacts(w)
    BY <1>0, <1>4 DEF PanneAppel, ExceptionEchappee, ClotureRatee, AutresIntacts, TypeComplet, TypeOK,
       TypeTache
  <2>2. pc[w] \in PcExclusif
    BY <1>4 DEF PanneAppel, ExceptionEchappee, ClotureRatee, PcSansFilet
  <2> QED BY <2>1, <2>2
<1> QED BY <1>1, <1>2, <1>3, <1>4

LEMMA ClaimAutres ==
  ASSUME TypeComplet, ClaimGarde, NEW w \in Workers, ClaimDuPas(w)
  PROVE  ClaimGarde'
<1> SUFFICES ASSUME NEW x \in Workers \ {w}, pc[x] \in PcExclusif PROVE claim'[JobDe(x)] = x
  BY DEF ClaimGarde, ClaimAMoi, JobDe, ClaimDuPas, AutresIntacts
<1>1. claim[JobDe(x)] = x /\ JobDe(x) \in Jobs
  BY JobEnMain DEF ClaimGarde, ClaimAMoi, PcExclusif
<1> QED BY <1>1, HypAucun DEF ClaimDuPas

LEMMA StatutTache ==
  ASSUME TypeComplet, NEW w \in Workers, SuiteDeBoucle(w) \/ Traiter(w)
  PROVE  \/ UNCHANGED statut
         \/ pc[w] \in PcExclusif /\ \A i \in Jobs \ {JobDe(w)} : statut'[i] = statut[i]
<1> USE DEF PcExclusif, PcTache, PcTravail
<1>1. CASE Traiter(w)
  BY <1>1, EffetTraiter
<1>2. CASE marquer_job_claim(w)
  BY <1>2, MarquerLigne
<1>3. CASE NoterRelance(w) \/ terminer_job(w)
  <2>1. pc[w] \in {"remettre", "clore"}
    BY <1>3 DEF NoterRelance, terminer_job
  <2>2. \A i \in Jobs \ {JobDe(w)} : statut'[i] = statut[i]
    BY <1>3 DEF NoterRelance, terminer_job, TypeComplet, TypeOK, TypeRegistre
  <2> QED BY <2>1, <2>2
<1>4. CASE SuiteDeBoucle(w) /\ ~marquer_job_claim(w) /\ ~NoterRelance(w) /\ ~terminer_job(w)
  BY <1>4 DEF SuiteDeBoucle, revendiquer_tache, AcquitterRefus, Decider, ack_task, retry_task,
     deadletter_task, liberer_revendication, registre
<1> QED BY <1>1, <1>2, <1>3, <1>4

(* What a worker has seen settled, or has settled, is.                      *)
LEMMA SoldeTraiter ==
  ASSUME TypeComplet, NEW w \in Workers, ResultatSolde(w), Traiter(w)
  PROVE  ResultatSolde(w)'
<1> USE DEF Aller, tache, registre, VerdictsFinis, Soldes, ResultatSolde
<1>0. /\ pc \in [Workers -> Pcs] /\ verdict \in [Workers -> Verdicts] /\ statut \in [Jobs -> Statuts]
      /\ JobDe(w) \in Jobs /\ JobDe(w)' = JobDe(w)
  BY EffetTraiter DEF TypeComplet, TypeOK, TypeTache, TypeRegistre, JobDe
<1> DEFINE j == JobDe(w)
<1>1. CASE \/ PrendreVerrou(w) \/ PersisterIntention(w) \/ RienAEnvoyer(w) \/ Envoyer(w) \/ Publier(w)
           \/ EchouerTraitement(w) \/ EchouerApresPublication(w) \/ PanneTardive(w)
  <2>1. pc'[w] \in {"capture", "exception", "envoi", "publication", "bilan"}
    BY <1>0, <1>1 DEF PrendreVerrou, PersisterIntention, RienAEnvoyer, Envoyer, Publier,
       EchouerTraitement, Rompre, EchouerApresPublication, PanneTardive
  <2> QED BY <2>1
<1>2. CASE DebuterTraitement(w) \/ AttraperException(w)
  <2>1. \/ pc'[w] \in {"verrou", "excRevue", "excEchec"}
        \/ pc'[w] = "rendu" /\ verdict'[w] = "stale_worker"
    BY <1>0, <1>2 DEF DebuterTraitement, AttraperException, VerifierProprietaire
  <2> QED BY <2>1
<1>3. CASE ConstaterAnnulation(w)
  <2>1. pc'[w] = "annulation" /\ statut[j] = "cancelled" /\ UNCHANGED statut
    BY <1>0, <1>3 DEF ConstaterAnnulation, Rompre
  <2> QED BY <1>0, <2>1
<1>4. CASE AttraperAnnulation(w)
  <2>1. /\ pc[w] = "annulation" /\ UNCHANGED statut
        /\ pc'[w] = "annulationEcrit" \/ (pc'[w] = "rendu" /\ verdict'[w] = "stale_worker")
    BY <1>0, <1>4 DEF AttraperAnnulation, VerifierProprietaire
  <2> QED BY <1>0, <2>1
<1>5. CASE EcrireResultat(w)
  <2>0. \A f \in StatutsFinaux(j) : f \in {"completed", "needs_review", "failed", "upload_incomplete"}
    BY DEF StatutsFinaux
  <2>1. \/ pc'[w] = "rendu" /\ verdict'[w] = "stale_worker"
        \/ pc'[w] = "annulation" /\ statut[j] = "cancelled" /\ UNCHANGED statut
        \/ /\ pc'[w] = "apres" /\ statut'[j] = StatutEcrit(verdict'[w])
           /\ verdict'[w] \in {"completed", "needs_review", "failed", "upload_incomplete"}
    BY <1>0, <1>5, <2>0 DEF EcrireResultat
  <2> HIDE DEF j
  <2> QED BY <1>0, <2>1 DEF j, StatutEcrit
<1>6. CASE TerminerTraitement(w)
  <2>1. /\ pc[w] = "apres" /\ UNCHANGED statut
        /\ \/ pc'[w] = "annulation" /\ statut[j] = "cancelled"
           \/ pc'[w] = "rendu" /\ verdict'[w] \in {verdict[w], "stale_worker"}
    BY <1>0, <1>6 DEF TerminerTraitement
  <2> QED BY <1>0, <2>1
<1>7. CASE EcrireAnnulation(w)
  <2>1. /\ pc[w] = "annulationEcrit" /\ pc'[w] = "rendu"
        /\ statut'[j] \in {statut[j], "cancelled"}
    BY <1>0, <1>7 DEF EcrireAnnulation, Rendre
  <2> HIDE DEF j
  <2> QED BY <1>0, <2>1 DEF j
<1>8. CASE EcrireRevue(w)
  <2>1. /\ pc'[w] = "rendu"
        /\ \/ statut'[j] = "needs_review"
           \/ /\ statut'[j] = statut[j]
              /\ verdict'[w] = IF statut[j] \in {"cancelled", "needs_review"} THEN statut[j]
                                                                            ELSE "stale_worker"
    BY <1>0, <1>8 DEF EcrireRevue, Rendre
  <2> HIDE DEF j
  <2> QED BY <1>0, <2>1 DEF j
<1>9. CASE EcrireEchec(w)
  <2>1. pc'[w] = "rendu" /\ verdict'[w] = "failed"
    BY <1>0, <1>9 DEF EcrireEchec, Rendre
  <2> QED BY <2>1
<1> QED BY <1>1, <1>2, <1>3, <1>4, <1>5, <1>6, <1>7, <1>8, <1>9 DEF Traiter

LEMMA SoldeSuite ==
  ASSUME TypeComplet, NEW w \in Workers, ResultatSolde(w), SuiteDeBoucle(w)
  PROVE  ResultatSolde(w)'
<1> USE DEF Aller, tache, registre, ResultatSolde
<1>0. /\ pc \in [Workers -> Pcs] /\ verdict \in [Workers -> Verdicts]
  BY DEF TypeComplet, TypeOK, TypeTache
<1>1. CASE Decider(w)
  <2>1. /\ pc[w] = "rendu" /\ UNCHANGED <<statut, verdict>> /\ JobDe(w)' = JobDe(w)
        /\ \/ pc'[w] \in {"libere", "relancer", "enterrer"}
           \/ pc'[w] = "acquitter" /\ verdict[w] \notin {"failed", "upload_incomplete", "stale_worker"}
    BY <1>0, <1>1 DEF Decider, SuiteDuVerdict, JobDe
  <2>2. verdict[w] # "" /\ verdict[w] \in Verdicts
    BY <1>0, <2>1 DEF TypeComplet, TypeOK, TypeTache
  <2> QED BY <2>1, <2>2 DEF Verdicts, VerdictsFinis
<1>2. CASE ~Decider(w)
  <2>1. pc'[w] \in {"revendique", "boucle", "libere", "execute", "refuse", "clore", "remettre"}
    BY <1>0, <1>2 DEF SuiteDeBoucle, revendiquer_tache, marquer_job_claim, AcquitterRefus, ack_task,
       retry_task, NoterRelance, deadletter_task, terminer_job, liberer_revendication
  <2> QED BY <2>1
<1> QED BY <1>1, <1>2

LEMMA RelanceSuite ==
  ASSUME TypeComplet, NEW w \in Workers, SuiteDeBoucle(w), pc'[w] = "remettre"
  PROVE  Connu(JobDe(w))'
<1>1. retry_task(w) /\ PeutClore(w)
  BY DEF SuiteDeBoucle, revendiquer_tache, marquer_job_claim, AcquitterRefus, Decider, SuiteDuVerdict,
     ack_task, retry_task, NoterRelance, deadletter_task, terminer_job, liberer_revendication, Aller,
     TypeComplet, TypeOK, TypeTache
<1>2. relance' = relance \cup {TacheRelancee(livraison[w])} /\ JobDe(w)' = JobDe(w)
  BY <1>1 DEF retry_task, tache, JobDe
<1>3. TacheRelancee(livraison[w]).job = JobDe(w)
  BY DEF TacheRelancee, JobDe
<1> QED BY <1>2, <1>3 DEF Connu, EnFile, DansRelance

(* The step of a worker w in the eyes of another, x.                        *)
LEMMA SoldeAutres ==
  ASSUME TypeComplet, Exclusif, NEW w \in Workers, AutresIntacts(w), NEW x \in Workers \ {w},
         \/ UNCHANGED statut
         \/ pc[w] \in PcExclusif /\ \A i \in Jobs \ {JobDe(w)} : statut'[i] = statut[i]
  PROVE  ResultatSolde(x)'
<1>1. pc'[x] = pc[x] /\ verdict'[x] = verdict[x] /\ JobDe(x)' = JobDe(x)
  BY DEF AutresIntacts, JobDe
<1>2. CASE UNCHANGED statut
  BY <1>1, <1>2 DEF Exclusif, ResultatSolde
<1>3. CASE pc[w] \in PcExclusif /\ \A i \in Jobs \ {JobDe(w)} : statut'[i] = statut[i]
  <2>1. CASE pc[x] \in {"annulation", "annulationEcrit", "acquitter", "apres", "rendu"}
    <3>1. pc[x] \in PcExclusif /\ JobDe(x) \in Jobs
      BY <2>1, JobEnMain DEF PcExclusif, PcTache, PcTravail
    <3>2. JobDe(x) # JobDe(w)
      BY <1>3, <3>1, UnSeulSurLeJob DEF Exclusif
    <3>3. statut'[JobDe(x)] = statut[JobDe(x)]
      BY <1>3, <3>1, <3>2
    <3> QED BY <1>1, <3>3 DEF Exclusif, ResultatSolde
  <2>2. CASE pc[x] \notin {"annulation", "annulationEcrit", "acquitter", "apres", "rendu"}
    BY <1>1, <2>2 DEF ResultatSolde
  <2> QED BY <2>1, <2>2
<1> QED BY <1>2, <1>3

LEMMA ConnuTache ==
  ASSUME TypeComplet, NEW w \in Workers,
         SuiteDeBoucle(w) \/ Traiter(w) \/ TeteDeBoucle(w) \/ PanneAppel(w) \/ Tuer(w),
         NEW j \in Jobs, Connu(j), ~Retire(w, j)
  PROVE  Connu(j)'
<1>1. CASE Traiter(w)
  BY <1>1, EffetTraiter, ListesIntactes DEF redis
<1>2. CASE PanneAppel(w) \/ Tuer(w)
  BY <1>2, ListesIntactes DEF PanneAppel, ExceptionEchappee, ClotureRatee, Tuer, redis
<1> QED BY <1>1, <1>2, ConnuSuite, ConnuTete

LEMMA ExclusifTache ==
  ASSUME TypeComplet, Exclusif, NEW w \in Workers,
         SuiteDeBoucle(w) \/ Traiter(w) \/ TeteDeBoucle(w) \/ PanneAppel(w) \/ Tuer(w)
  PROVE  Exclusif'
<1>1. ClaimDuPas(w) /\ AutresIntacts(w) /\ ClaimGarde'
  BY ClaimTache, ClaimAutres DEF ClaimDuPas, Exclusif
<1>2. TeteDeBoucle(w) \/ PanneAppel(w) \/ Tuer(w)
      => pc'[w] \in {"boucle", "depile", "arret", "relancer", "enterrer", "libere"} /\ UNCHANGED statut
  BY DEF TeteDeBoucle, process_retry_queue, dequeue_task, PanneAppel, ExceptionEchappee,
     ClotureRatee, Tuer, Aller, tache, registre, TypeComplet, TypeOK, TypeTache
<1>3. ResultatSolde(w)'
  <2>1. CASE SuiteDeBoucle(w) \/ Traiter(w)
    BY <2>1, SoldeSuite, SoldeTraiter DEF Exclusif
  <2>2. CASE TeteDeBoucle(w) \/ PanneAppel(w) \/ Tuer(w)
    BY <1>2, <2>2 DEF ResultatSolde
  <2> QED BY <2>1, <2>2
<1>4. ASSUME NEW x \in Workers \ {w} PROVE ResultatSolde(x)'
  BY <1>1, <1>2, <1>4, StatutTache, SoldeAutres
<1>5. ASSUME pc'[w] = "remettre" PROVE Connu(JobDe(w))'
  <2>1. CASE SuiteDeBoucle(w)
    BY <1>5, <2>1, RelanceSuite
  <2>2. CASE ~SuiteDeBoucle(w)
    <3>1. pc'[w] \in PcTravail \cup {"rendu", "boucle", "depile", "arret", "relancer", "enterrer", "libere"}
      BY <1>2, <2>2, EffetTraiter
    <3> QED BY <1>5, <3>1 DEF PcTravail
  <2> QED BY <2>1, <2>2
<1>6. ASSUME NEW x \in Workers \ {w}, pc'[x] = "remettre" PROVE Connu(JobDe(x))'
  <2>1. pc[x] = "remettre" /\ JobDe(x)' = JobDe(x)
    BY <1>1, <1>6 DEF AutresIntacts, JobDe
  <2>2. Connu(JobDe(x)) /\ JobDe(x) \in Jobs
    BY <2>1, JobEnMain DEF Exclusif, RelanceConnue, PcTache
  <2>3. ~Retire(w, JobDe(x))
    <3>1. Retire(w, JobDe(x)) => pc[w] \in PcExclusif /\ JobDe(w) = JobDe(x)
      BY DEF Retire, ack_task, AcquitterRefus, PcExclusif, PcTache
    <3>2. pc[x] \in PcExclusif
      BY <2>1 DEF PcExclusif, PcTache
    <3> QED BY <3>1, <3>2, UnSeulSurLeJob DEF Exclusif
  <2> DEFINE j == JobDe(x)
  <2>4. Connu(j)'
    <3> SUFFICES ASSUME NEW i \in Jobs, i = JobDe(x) PROVE Connu(i)' /\ i = JobDe(x)'
      BY <2>2
    <3> QED BY <2>1, <2>2, <2>3, ConnuTache
  <2> QED BY <2>4
<1> QED BY <1>1, <1>3, <1>4, <1>5, <1>6 DEF Exclusif, RelanceConnue

LEMMA ExclusifBalayage ==
  ASSUME TypeComplet, InvPropriete, Exclusif, NEW w \in Workers, UNCHANGED web,
         Reconcilier(w) \/ LireVersions(w) \/ SauterBalayage(w) \/ Relancer(w) \/ InterrompreBalayage(w)
  PROVE  Exclusif'
<1>1. PasBalayage(w)
  BY PasDeBalayage
<1>2. /\ UNCHANGED <<claim, livraison, verdict>> /\ pc'[w] \notin PcTache
      /\ \A x \in Workers \ {w} : pc'[x] = pc[x]
      /\ \A i \in Jobs : statut[i] \in Soldes => statut'[i] = statut[i]
  BY <1>1 DEF PasBalayage, Soldes, Actif, STATUTS_ACTIFS
<1>3. ClaimGarde'
  BY <1>2 DEF Exclusif, ClaimGarde, ClaimAMoi, JobDe, PcExclusif
<1>4. ASSUME NEW x \in Workers PROVE ResultatSolde(x)'
  <2>1. CASE pc'[x] \in {"annulation", "annulationEcrit", "acquitter", "apres", "rendu"}
    <3>1. x # w /\ pc'[x] = pc[x]
      BY <1>2, <2>1 DEF PcTache, PcTravail
    <3>2. JobDe(x) \in Jobs /\ JobDe(x)' = JobDe(x)
      BY <1>2, <2>1, <3>1, JobEnMain DEF PcTache, PcTravail, JobDe
    <3> QED BY <1>2, <3>1, <3>2 DEF Exclusif, ResultatSolde
  <2>2. CASE pc'[x] \notin {"annulation", "annulationEcrit", "acquitter", "apres", "rendu"}
    BY <2>2 DEF ResultatSolde
  <2> QED BY <2>1, <2>2
<1>5. ASSUME NEW x \in Workers, pc'[x] = "remettre" PROVE Connu(JobDe(x))'
  <2>1. pc[x] = "remettre" /\ JobDe(x)' = JobDe(x)
    BY <1>2, <1>5 DEF PcTache, JobDe
  <2>2. PICK j \in Jobs : j = JobDe(x)
    BY <2>1, JobEnMain DEF PcTache
  <2>3. Connu(j)
    BY <2>1, <2>2 DEF Exclusif, RelanceConnue
  <2>4. Connu(j)'
    <3>1. CASE InterrompreBalayage(w)
      BY <2>3, <3>1, ListesIntactes DEF InterrompreBalayage, redis
    <3>2. CASE ~InterrompreBalayage(w)
      BY <2>3, <3>2, ConnuBalayage
    <3> QED BY <3>1, <3>2
  <2>5. JobDe(x)' = j
    BY <2>1, <2>2
  <2> QED BY <2>4, <2>5
<1> QED BY <1>3, <1>4, <1>5 DEF Exclusif, RelanceConnue

LEMMA ExclusifAutre ==
  ASSUME TypeComplet, InvPropriete, Exclusif, AutrePas, ~PerdreRedis,
         \A j \in Jobs : ExpirerVivant(j) => UNCHANGED vars
  PROVE  Exclusif'
<1>1. UNCHANGED <<pc, tache>>
  BY AutrePasHors
<1>2. ASSUME NEW w \in Workers, pc[w] \in PcExclusif PROVE claim'[JobDe(w)] = w
  <2>1. claim[JobDe(w)] = w /\ JobDe(w) \in Jobs /\ livraison[w] # Aucun
    BY <1>2, JobEnMain, HypAucun DEF Exclusif, ClaimGarde, ClaimAMoi, PcExclusif
  <2>2. ASSUME NEW j \in Jobs, ExpirerMort(j) PROVE claim'[JobDe(w)] = w
    <3>1. ~Suit(claim[j], j) /\ claim' = [claim EXCEPT ![j] = Aucun]
      BY <2>2 DEF ExpirerMort, LacherClaim
    <3>2. j # JobDe(w)
      BY <2>1, <3>1 DEF Suit
    <3> QED BY <2>1, <3>1, <3>2 DEF TypeComplet, TypeOK, TypeRedis
  <2>3. CASE \A j \in Jobs : ~ExpirerMort(j)
    <3>1. UNCHANGED claim
      BY <2>3 DEF AutrePas, PasRoute, create_job, enqueue_task, EnfilageRate, cancel_job,
         DemarrerWeb, ListerCandidats, ChercherCandidat, ChercherCandidatTraitement,
         ChercherCandidatRelance, recover_stale_jobs, autres, Rejouer, replay_deadletters, vars, redis
    <3> QED BY <2>1, <3>1
  <2> QED BY <2>2, <2>3
<1>3. ClaimGarde'
  BY <1>1, <1>2 DEF ClaimGarde, ClaimAMoi, JobDe, tache
<1>4. RegistrePermis
  BY LignesHors
<1>5. ASSUME NEW x \in Workers PROVE ResultatSolde(x)'
  <2>1. pc'[x] = pc[x] /\ verdict'[x] = verdict[x] /\ JobDe(x)' = JobDe(x)
    BY <1>1 DEF tache, JobDe
  <2>2. CASE pc[x] \in {"annulation", "annulationEcrit", "acquitter", "apres", "rendu"}
    <3>1. JobDe(x) \in Jobs
      BY <2>2, JobEnMain DEF PcTache, PcTravail
    <3>2. statut[JobDe(x)] \in Soldes => statut'[JobDe(x)] \in Soldes
      BY <1>4, <3>1, PermisSoldes
    <3> QED BY <2>1, <3>2 DEF Exclusif, ResultatSolde
  <2>3. CASE pc[x] \notin {"annulation", "annulationEcrit", "acquitter", "apres", "rendu"}
    BY <2>1, <2>3 DEF ResultatSolde
  <2> QED BY <2>2, <2>3
<1>6. ASSUME NEW x \in Workers, pc'[x] = "remettre" PROVE Connu(JobDe(x))'
  <2>1. pc[x] = "remettre" /\ JobDe(x)' = JobDe(x)
    BY <1>1, <1>6 DEF tache, JobDe
  <2>2. PICK j \in Jobs : j = JobDe(x)
    BY <2>1, JobEnMain DEF PcTache
  <2>3. Connu(j)'
    BY <2>1, <2>2, ConnuAutre DEF Exclusif, RelanceConnue
  <2>4. JobDe(x)' = j
    BY <2>1, <2>2
  <2> QED BY <2>3, <2>4
<1> QED BY <1>3, <1>5, <1>6 DEF Exclusif, RelanceConnue

LEMMA ExclusifPas ==
  ASSUME TypeComplet, InvPropriete, Exclusif, [Next]_vars, [AucuneExpiration]_vars, ~PerdreRedis
  PROVE  Exclusif'
<1>1. ASSUME NEW x \in Workers, PasWorker(x) \/ Balayer(x) \/ AleaWorker(x), UNCHANGED web
      PROVE  Exclusif'
  BY <1>1, ExclusifTache, ExclusifBalayage DEF PasWorker, Avancer, Balayer, AleaWorker
<1>2. ASSUME NEW x \in Workers, Balayer(x) \/ AleaWorker(x) PROVE UNCHANGED web
  BY <1>2 DEF Balayer, AleaWorker, Tuer, Relancer, PanneAppel, InterrompreBalayage
<1>3. CASE AutrePas
  BY <1>3, ExclusifAutre DEF AucuneExpiration
<1> QED BY <1>1, <1>2, <1>3 DEF Next, AutrePas

(* A row becomes active again by the worker that has its claim, whose      *)
(* delivery is in processing, or was put back to retry.                    *)
LEMMA ConnuRanime ==
  ASSUME TypeComplet, InvPropriete, LivraisonEnTraitement, Exclusif, [Next]_vars,
         NEW j \in Jobs, Actif(j)'
  PROVE  Actif(j) \/ create_job(j) \/ Connu(j)
<1> SUFFICES ASSUME ~Actif(j), ~create_job(j) PROVE Connu(j)
  OBVIOUS
<1>0. statut'[j] # statut[j]
  BY DEF Actif
<1>1. ASSUME NEW w \in Workers, SuiteDeBoucle(w) \/ Traiter(w) PROVE Connu(j)
  <2>1. pc[w] \in PcExclusif /\ j = JobDe(w)
    BY <1>0, <1>1, StatutTache
  <2>2. ClaimAMoi(w)
    BY <2>1 DEF Exclusif, ClaimGarde
  <2>3. CASE Traiter(w)
    <3>1. Contains(enTraitement, livraison[w])
      BY <2>2, <2>3, EffetTraiter DEF LivraisonEnTraitement, PcTenu
    <3> QED BY <2>1, <3>1, DansListeContient DEF Connu, EnFile, JobDe
  <2>4. CASE NoterRelance(w)
    BY <2>1, <2>4 DEF NoterRelance, Exclusif, RelanceConnue
  <2>5. CASE marquer_job_claim(w)
    BY <1>0, <2>1, <2>5, MarquerLigne
  <2>6. CASE terminer_job(w)
    <3>1. verdict[w] \in VerdictsClos
      BY <2>6 DEF terminer_job, TypeComplet, TypeOK, TypeTache
    <3>2. statut'[j] \in {statut[j], verdict[w]}
      BY <2>1, <2>6 DEF terminer_job, TypeComplet, TypeOK, TypeRegistre
    <3> QED BY <1>0, <3>1, <3>2 DEF VerdictsClos, Actif, STATUTS_ACTIFS
  <2>7. CASE SuiteDeBoucle(w) /\ ~marquer_job_claim(w) /\ ~NoterRelance(w) /\ ~terminer_job(w)
    BY <1>0, <2>7 DEF SuiteDeBoucle, revendiquer_tache, AcquitterRefus, Decider, ack_task, retry_task,
       deadletter_task, liberer_revendication, registre
  <2> QED BY <1>1, <2>3, <2>4, <2>5, <2>6, <2>7
<1>2. ASSUME NEW w \in Workers, TeteDeBoucle(w) \/ PanneAppel(w) \/ Tuer(w) PROVE FALSE
  BY <1>0, <1>2 DEF TeteDeBoucle, process_retry_queue, dequeue_task, PanneAppel, ExceptionEchappee,
     ClotureRatee, Tuer, registre
<1>3. ASSUME NEW w \in Workers, UNCHANGED web,
             \/ Reconcilier(w) \/ LireVersions(w) \/ SauterBalayage(w) \/ Relancer(w)
             \/ InterrompreBalayage(w)
      PROVE  FALSE
  <2>1. PasBalayage(w)
    BY <1>3, PasDeBalayage
  <2> QED BY <1>0, <2>1 DEF PasBalayage
<1>4. CASE AutrePas
  <2>1. RegistrePermis
    BY <1>4, LignesHors
  <2> QED BY <1>0, <2>1 DEF RegistrePermis, Permise, Actif, STATUTS_ACTIFS
<1>5. ASSUME NEW x \in Workers, Balayer(x) \/ AleaWorker(x) PROVE UNCHANGED web
  BY <1>5 DEF Balayer, AleaWorker, Tuer, Relancer, PanneAppel, InterrompreBalayage
<1>6. ASSUME NEW x \in Workers, PasWorker(x) \/ Balayer(x) \/ AleaWorker(x), UNCHANGED web
      PROVE  Connu(j)
  BY <1>1, <1>2, <1>3, <1>6 DEF PasWorker, Avancer, Balayer, AleaWorker
<1> QED BY <1>4, <1>5, <1>6 DEF Next, AutrePas

(* As long as Redis kept its volume and no claim of a live worker expired, *)
(* one worker at most is on a job, and a job once pushed and still active  *)
(* is in one of the lists, whatever call fails and whenever: to lose one   *)
(* takes an error after an outcome and an expired claim.                   *)
THEOREM AucunePerteSansExpiration == Spec /\ SansExpirationVivante => []AucunePerte
<1> DEFINE Inv == pertes = 0 => Exclusif
<1>1. Init => Inv
  <2> SUFFICES ASSUME Init PROVE Exclusif
    OBVIOUS
  <2>1. \A w \in Workers : pc[w] = "depart"
    BY DEF Init, InitFile
  <2> QED BY <2>1 DEF Exclusif, ClaimGarde, RelanceConnue, ResultatSolde, PcExclusif, PcTache, PcTravail
<1>2. TypeComplet /\ InvPropriete /\ Inv /\ [Next]_vars /\ [AucuneExpiration]_vars => Inv'
  BY ExclusifPas, PertesPas
<1>3. TypeComplet /\ InvPropriete /\ LivraisonEnTraitement /\ Inv /\ AucunePerte /\ [Next]_vars
      => AucunePerte'
  <2> SUFFICES ASSUME TypeComplet, InvPropriete, LivraisonEnTraitement, Inv, AucunePerte, [Next]_vars,
                      NEW j \in Jobs, Actif(j)', numero'[j] > 0, pertes' = 0
               PROVE  Connu(j)'
    BY DEF AucunePerte, Connu
  <2>1. Exclusif
    BY PertesPas
  <2>2. \A x \in Workers : pc[x] = "acquitter" => statut[JobDe(x)] \in Soldes
    BY <2>1 DEF Exclusif, ResultatSolde
  <2>3. Actif(j) \/ create_job(j) \/ Connu(j)
    BY <2>1, ConnuRanime
  <2> QED BY <2>2, <2>3, ConnuPas
<1> QED BY <1>1, <1>2, <1>3, InitConnu, TypeCorrect, VersionsToujoursVieilles, LivraisonToujoursTenue, PTL
        DEF Spec, SansExpirationVivante

----------------------------------------------------------------------------
(* The lifecycle.                                                           *)

LEMMA UneLigne ==
  ASSUME TypeComplet, [Next]_vars, ~recover_stale_jobs
  PROVE  UNCHANGED statut \/ \E j \in Jobs : \A i \in Jobs \ {j} : statut'[i] = statut[i]
<1> DEFINE Une == UNCHANGED statut \/ \E j \in Jobs : \A i \in Jobs \ {j} : statut'[i] = statut[i]
<1>1. ASSUME NEW w \in Workers, SuiteDeBoucle(w) \/ Traiter(w) PROVE Une
  <2>1. CASE Traiter(w)
    BY <2>1, EffetTraiter
  <2>2. CASE SuiteDeBoucle(w)
    <3>1. CASE marquer_job_claim(w)
      BY <3>1, MarquerLigne
    <3>2. CASE LigneParSoi(w)
      BY <2>2, <3>2, EffetSuite DEF LigneParSoi
    <3> QED BY <2>2, <3>1, <3>2, EffetSuite
  <2> QED BY <1>1, <2>1, <2>2
<1>2. ASSUME NEW w \in Workers,
             \/ Reconcilier(w) \/ LireVersions(w) \/ SauterBalayage(w) \/ TeteDeBoucle(w)
             \/ AleaWorker(w)
      PROVE  Une
  <2>1. CASE AppliquerDecision(w)
    <3>1. Head(decisions[w]) \in [job : Jobs, requeued : BOOLEAN]
      BY <2>1, HeadTailProperties DEF AppliquerDecision, TypeComplet, TypeOK, TypeBalayage
    <3>2. Head(decisions[w]).job \in Jobs
      BY <3>1
    <3> QED BY <2>1, <3>2, RemettreLigne DEF AppliquerDecision
  <2>2. CASE AbandonnerOrphelin(w) \/ RemettreOrphelin(w)
    <3>1. examine[w] \in Jobs
      BY <2>2 DEF AbandonnerOrphelin, RemettreOrphelin, PcExamen, TypeComplet, TypeOK, TypeBalayage
    <3>2. PICK d \in BOOLEAN : remettre_en_file(examine[w], d, versions[w][examine[w]])
      BY <2>2 DEF AbandonnerOrphelin, RemettreOrphelin
    <3>3. \A i \in Jobs \ {examine[w]} : statut'[i] = statut[i]
      BY <3>1, <3>2, RemettreLigne
    <3> QED BY <3>1, <3>3
  <2>3. CASE ~AppliquerDecision(w) /\ ~AbandonnerOrphelin(w) /\ ~RemettreOrphelin(w)
    <3>1. UNCHANGED statut
      BY <1>2, <2>3 DEF Reconcilier, LireEnTraitement, reprendre_taches_orphelines, jobs_actifs,
         ChercherFile, ChercherTraitement, ChercherRelance, Examiner, enqueue_task_si_absent,
         FinirReconciliation, LireVersions, SauterBalayage, TeteDeBoucle, process_retry_queue,
         dequeue_task, AleaWorker, Tuer, Relancer, PanneAppel, ExceptionEchappee, ClotureRatee,
         InterrompreBalayage, registre
    <3> QED BY <3>1
  <2> QED BY <2>1, <2>2, <2>3
<1>3. ASSUME NEW k \in Jobs, PasRoute(k) PROVE Une
  <2>1. statut' = statut \/ \A i \in Jobs \ {k} : statut'[i] = statut[i]
    BY <1>3 DEF PasRoute, create_job, enqueue_task, EnfilageRate, cancel_job, registre,
       TypeComplet, TypeOK, TypeRegistre
  <2> QED BY <2>1
<1>4. CASE DemarrerWeb
  BY <1>4 DEF DemarrerWeb, ListerCandidats, ChercherCandidat, ChercherCandidatTraitement,
     ChercherCandidatRelance
<1>5. CASE \/ \E k \in Jobs : ExpirerMort(k) \/ ExpirerVivant(k)
           \/ Rejouer \/ PerdreRedis \/ UNCHANGED vars
  BY <1>5 DEF ExpirerMort, ExpirerVivant, LacherClaim, Rejouer, replay_deadletters, PerdreRedis,
     vars, registre
<1> QED BY <1>1, <1>2, <1>3, <1>4, <1>5 DEF Next, PasWorker, Avancer, Balayer

LEMMA TransitionPermise ==
  ASSUME statut \in [Jobs -> Statuts], statut' \in [Jobs -> Statuts], NEW j \in Jobs,
         \A i \in Jobs \ {j} : statut'[i] = statut[i],
         Permise(statut[j], statut'[j]) \/ (statut[j] = "absent" /\ statut'[j] = "pending")
  PROVE  Cycle!Transition(j) \/ UNCHANGED statut
<1>1. statut' = [statut EXCEPT ![j] = statut'[j]]
  OBVIOUS
<1>2. CASE statut'[j] = statut[j]
  BY <1>2
<1> USE DEF Cycle!Transition, Cycle!Passer
<1>3. CASE statut[j] = "absent" /\ statut'[j] = "pending"
  BY <1>1, <1>3 DEF Cycle!Accepter
<1>4. CASE statut[j] = "pending" /\ statut'[j] = "running"
  BY <1>1, <1>4 DEF Cycle!Prendre
<1>5. CASE statut[j] = "running" /\ statut'[j] = "pending"
  BY <1>1, <1>5 DEF Cycle!Recuperer
<1>6. CASE statut[j] = "running" /\ statut'[j] \in {"completed", "needs_review"}
  BY <1>1, <1>6 DEF Cycle!Conclure
<1>7. CASE statut[j] \in {"pending", "running"} /\ statut'[j] = "failed"
  BY <1>1, <1>7 DEF Cycle!Echouer
<1>8. CASE statut[j] \in {"pending", "running"} /\ statut'[j] = "cancelled"
  BY <1>1, <1>8 DEF Cycle!Annuler
<1> QED BY <1>2, <1>3, <1>4, <1>5, <1>6, <1>7, <1>8 DEF Permise

(* A step of the queue is a transition the lifecycle of jobs.py allows on  *)
(* one job, or none, or the update by which recover_stale_jobs fails every *)
(* row the start of the web process gave up: a settled job never moves     *)
(* again, whatever the number of jobs and workers, the kills, the failing  *)
(* calls, the expired claims, the losses of Redis and the replays.         *)
PasPermis == (\E j \in Jobs : Cycle!Transition(j)) \/ recover_stale_jobs

THEOREM CycleHorsDemarrage == Spec /\ SansExceptionTardive => [][PasPermis]_statut
<1>1. /\ TypeComplet /\ TypeComplet' /\ InvPropriete /\ LignesTenues /\ [Next]_vars
      /\ [AucuneTardive]_vars
      => [PasPermis]_statut
  <2> SUFFICES ASSUME TypeComplet, TypeComplet', InvPropriete, LignesTenues, [Next]_vars,
                      [AucuneTardive]_vars, ~recover_stale_jobs
               PROVE  (\E j \in Jobs : Cycle!Transition(j)) \/ UNCHANGED statut
    BY DEF PasPermis
  <2>1. RegistrePermis
    BY LignePas
  <2>2. statut \in [Jobs -> Statuts] /\ statut' \in [Jobs -> Statuts]
    BY DEF TypeComplet, TypeOK, TypeRegistre
  <2>3. ASSUME NEW j \in Jobs, \A i \in Jobs \ {j} : statut'[i] = statut[i]
        PROVE  Cycle!Transition(j) \/ UNCHANGED statut
    BY <2>1, <2>2, <2>3, TransitionPermise DEF RegistrePermis
  <2> QED BY <2>3, UneLigne
<1> QED BY <1>1, TypeCorrect, VersionsToujoursVieilles, LigneToujoursConnue, PTL
        DEF Spec, SansExceptionTardive

(* Between two starts of the web process the queue implements the          *)
(* lifecycle.                                                              *)
SansDemarrage == [][~recover_stale_jobs]_vars

THEOREM RespecteCycleProuve == Spec /\ SansExceptionTardive /\ SansDemarrage => RespecteCycle
<1>1. Init => Cycle!InitCycle
  BY DEF Init, InitFile, Cycle!InitCycle
<1>2. [PasPermis]_statut /\ [~recover_stale_jobs]_vars => [\E j \in Jobs : Cycle!Transition(j)]_statut
  BY DEF PasPermis, vars, registre
<1> QED BY <1>1, <1>2, CycleHorsDemarrage, PTL
        DEF Spec, RespecteCycle, Cycle!SpecCycle, SansDemarrage
=============================================================================
