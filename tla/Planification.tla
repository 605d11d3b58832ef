---------------------------- MODULE Planification ----------------------------
(***************************************************************************)
(* The planned backup (sauvegarde_planifiee.py): at each pass the service  *)
(* asks how old the last backup is (etat_exploitation.py) and makes one    *)
(* when it is too old, as an operator may at any time (sauvegarde.py).     *)
(* Here a backup is the files it leaves in its folder and in the bucket,   *)
(* written one after the other and none of them atomically.                *)
(***************************************************************************)
EXTENDS Naturals, Sequences, FiniteSets, FiniteSetsExt

CONSTANTS
  Sauveurs,       \* processes that make backups: the service and the operator's
  Service,
  Intervalle,     \* age that makes a backup due
  MaxGenerations

VARIABLES
  generations,  \* the backups begun, in the order of their names
  sauveurs,     \* step and generation of each process
  verrouDossier,
  passage       \* the service: its step, and whether copies go off site

varsPlanification == <<generations, sauveurs, verrouDossier, passage>>

Libre == 0
Repos == [etape |-> "repos", generation |-> 0]

InitPlanification ==
  /\ generations = <<>>
  /\ sauveurs = [p \in Sauveurs |-> Repos]
  /\ verrouDossier = Libre
  /\ passage \in [etape : {"attend"}, horsSite : BOOLEAN]

----------------------------------------------------------------------------
(* What the folder says.                                                    *)

AvecManifeste == {g \in DOMAIN generations : generations[g].manifeste # "aucun"}
Derniere == generations[Max(AvecManifeste)]
AgeConnu == AvecManifeste # {} /\ Derniere.manifeste = "ecrit"

(* None, one that cannot be read, or one too old. *)
sauvegarde_due == AgeConnu => Derniere.age >= Intervalle

----------------------------------------------------------------------------
(* A backup, by process p.                                                  *)

Pas(p, e) == sauveurs[p].etape = e
Generation(p) == sauveurs[p].generation
Suivre(p, e) == sauveurs' = [sauveurs EXCEPT ![p].etape = e]
Ecrire(p, champs) == generations' = [generations EXCEPT ![Generation(p)] =
  [c \in DOMAIN @ |-> IF c \in DOMAIN champs THEN champs[c] ELSE @[c]]]

(* The lock is refused to a second backup.  The dump file is there from the *)
(* first byte.                                                              *)
Commencer(p) ==
  /\ verrouDossier = Libre
  /\ Len(generations) < MaxGenerations
  /\ verrouDossier' = p
  /\ generations' = Append(generations, [dump |-> "partiel", manifeste |-> "aucun", age |-> 0,
                                         cle |-> FALSE, distant |-> "absent"])
  /\ sauveurs' = [sauveurs EXCEPT ![p] = [etape |-> "dump", generation |-> Len(generations) + 1]]

sauver(p) ==
  /\ Pas(p, "repos") /\ p # Service
  /\ Commencer(p)
  /\ UNCHANGED passage

pg_dump(p) ==
  /\ Pas(p, "dump")
  /\ Ecrire(p, [dump |-> "entier"])
  /\ Suivre(p, "manifeste")
  /\ UNCHANGED <<verrouDossier, passage>>

(* write_text truncates the file, then writes it. *)
tronquer_manifeste(p) ==
  /\ sauveurs[p].etape \in {"manifeste", "cle"}
  /\ Ecrire(p, [manifeste |-> "tronque"])
  /\ Suivre(p, IF Pas(p, "manifeste") THEN "manifeste_ouvert" ELSE "cle_ouvert")
  /\ UNCHANGED <<verrouDossier, passage>>

ecrire_manifeste(p) ==
  /\ Pas(p, "manifeste_ouvert")
  /\ Ecrire(p, [manifeste |-> "ecrit"])
  /\ Suivre(p, IF passage.horsSite THEN "envoi" ELSE "fin")
  /\ UNCHANGED <<verrouDossier, passage>>

(* What arrives in the bucket may be what was sent, or not. *)
upload_file(p, arrive) ==
  /\ Pas(p, "envoi")
  /\ Ecrire(p, [distant |-> arrive])
  /\ Suivre(p, "relecture")
  /\ UNCHANGED <<verrouDossier, passage>>

(* Slip: the key is put in the manifest whatever is read back.              *)
RelireSansComparer(p) ==
  /\ Pas(p, "relecture")
  /\ Suivre(p, "cle")
  /\ UNCHANGED <<generations, verrouDossier, passage>>

(* The dump is read back and compared before its key is put in the          *)
(* manifest.                                                                *)
relire_apres_envoi(p) ==
  /\ Pas(p, "relecture") /\ generations[Generation(p)].distant = "identique"
  /\ Suivre(p, "cle")
  /\ UNCHANGED <<generations, verrouDossier, passage>>

ecrire_cle(p) ==
  /\ Pas(p, "cle_ouvert")
  /\ Ecrire(p, [manifeste |-> "ecrit", cle |-> TRUE])
  /\ Suivre(p, "fin")
  /\ UNCHANGED <<verrouDossier, passage>>

Rendre(p) ==
  /\ sauveurs' = [sauveurs EXCEPT ![p] = Repos]
  /\ verrouDossier' = Libre

(* The manifest is sent in its turn, then its own key and the purges are    *)
(* written in the local one: the backup is made, though never declared      *)
(* complete.                                                                *)
sauvegarde_faite(p) ==
  /\ Pas(p, "fin")
  /\ Rendre(p)
  /\ passage' = [passage EXCEPT !.etape = IF p = Service THEN "attend" ELSE @]
  /\ UNCHANGED generations

(* A refusal of the database or of the storage, a copy read back that       *)
(* differs, the end of the process: files stay as they are.                 *)
echec_sauvegarde(p) ==
  /\ ~Pas(p, "repos")
  /\ Rendre(p)
  /\ passage' = [passage EXCEPT !.etape = IF p = Service THEN "attend" ELSE @]
  /\ UNCHANGED generations

----------------------------------------------------------------------------
(* The service.                                                             *)

(* It sleeps, and looks when it wakes. *)
se_reveiller ==
  /\ passage.etape = "attend"
  /\ passage' = [passage EXCEPT !.etape = "passage"]
  /\ UNCHANGED <<generations, sauveurs, verrouDossier>>

executer_si_du ==
  /\ passage.etape = "passage"
  /\ \/ /\ sauvegarde_due
        /\ Commencer(Service)
        /\ passage' = [passage EXCEPT !.etape = "sauve"]
     \/ /\ sauvegarde_due => verrouDossier # Libre
        /\ passage' = [passage EXCEPT !.etape = "attend"]
        /\ UNCHANGED <<generations, sauveurs, verrouDossier>>

le_temps_passe ==
  /\ \E g \in DOMAIN generations : generations[g].age < Intervalle
  /\ generations' = [g \in DOMAIN generations |->
       IF generations[g].manifeste = "aucun" THEN generations[g]
       ELSE [generations[g] EXCEPT !.age = IF @ < Intervalle THEN @ + 1 ELSE @]]
  /\ UNCHANGED <<sauveurs, verrouDossier, passage>>

NextPlanification ==
  \/ \E p \in Sauveurs :
       \/ sauver(p) \/ pg_dump(p) \/ tronquer_manifeste(p) \/ ecrire_manifeste(p)
       \/ \E a \in {"identique", "altere"} : upload_file(p, a)
       \/ relire_apres_envoi(p) \/ ecrire_cle(p) \/ sauvegarde_faite(p) \/ echec_sauvegarde(p)
  \/ se_reveiller \/ executer_si_du \/ le_temps_passe

----------------------------------------------------------------------------

(* When the service finds no backup due, the last one has its whole dump,   *)
(* and the remote copy its manifest names is the dump, whichever write or   *)
(* sending was interrupted before.                                          *)
CopieAnnoncee ==
  ~sauvegarde_due =>
    /\ Derniere.dump = "entier"
    /\ Derniere.cle => Derniere.distant = "identique"
=============================================================================
