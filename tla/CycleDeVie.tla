----------------------------- MODULE CycleDeVie -----------------------------
(***************************************************************************)
(* What jobs.py promises of the life of an import job, in the comment that *)
(* opens its durable lifecycle: the states and the transitions allowed     *)
(* between them.  A settled job never moves again.                         *)
(***************************************************************************)
CONSTANT Jobs
VARIABLE statut

InitCycle == statut = [j \in Jobs |-> "absent"]

Passer(j, depuis, vers) ==
  /\ statut[j] \in depuis
  /\ \E s \in vers : statut' = [statut EXCEPT ![j] = s]

Accepter(j) == Passer(j, {"absent"}, {"pending"})
Prendre(j) == Passer(j, {"pending"}, {"running"})
Recuperer(j) == Passer(j, {"running"}, {"pending"})
Conclure(j) == Passer(j, {"running"}, {"completed", "needs_review", "upload_incomplete"})
Echouer(j) == Passer(j, {"pending", "running"}, {"failed"})
Annuler(j) == Passer(j, {"pending", "running"}, {"cancelled"})

Transition(j) ==
  \/ Accepter(j) \/ Prendre(j) \/ Recuperer(j)
  \/ Conclure(j) \/ Echouer(j) \/ Annuler(j)

SpecCycle == InitCycle /\ [][\E j \in Jobs : Transition(j)]_statut
=============================================================================
