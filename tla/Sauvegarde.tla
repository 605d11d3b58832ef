------------------------------ MODULE Sauvegarde ------------------------------
(***************************************************************************)
(* The backup of the catalogue with the files and objects its rows name,   *)
(* and the coordinated restoration into another place (sauvegarde.py).     *)
(*                                                                         *)
(* A backup reads the rows in one PostgreSQL snapshot; files and objects   *)
(* are copied after it, one by one, while the rest of the system writes.   *)
(* The bundle keeps the bytes, the manifest what they must be.  One        *)
(* backup runs at a time (VerrouSauvegarde); one generation is followed.   *)
(***************************************************************************)
EXTENDS Catalogue

VARIABLES
  sauvegarde,   \* the backup in progress
  manifeste,    \* the manifest of the finished backup
  bundle,       \* the bytes kept beside it: a file and an object of each row
  restauration, \* the restoration in progress or finished, and what it wrote
  seau          \* the object of each row in the bucket restored into

varsSauvegarde == <<sauvegarde, manifeste, bundle, restauration, seau>>

Vide == [f \in Fichiers |-> Rien]
Altere == "altere"

(* No manifest is the absence of one.                                       *)
Releves(S) == [Fichiers -> S \cup {Rien}]
Manifestes ==
  [lignes : Releves(LignesCatalogue), fichiers : Releves(Octets), objets : Releves(Octets),
   manquants : SUBSET Fichiers, temoin : Releves([octets : Octets, date : Nat]),
   perimetre : BOOLEAN, complet : BOOLEAN]

ASSUME HypSauvegarde == Rien \notin Manifestes

InitSauvegarde ==
  /\ sauvegarde = Rien
  /\ manifeste = Rien
  /\ bundle = [fichiers |-> Vide, objets |-> Vide]
  /\ restauration = Rien
  /\ seau = Vide

----------------------------------------------------------------------------
(* Backup.                                                                  *)

EnCours(e) == sauvegarde # Rien /\ sauvegarde.etape = e

Tenir(s) ==
  /\ sauvegarde' = s
  /\ UNCHANGED <<varsCatalogue, manifeste, bundle, restauration, seau>>

prendre_instantane ==
  /\ sauvegarde = Rien /\ manifeste = Rien
  /\ Tenir([etape |-> "fichiers", lignes |-> ligne, reste |-> Fichiers, copies |-> Vide,
            manquants |-> {}, derive |-> {}, objets |-> Vide, temoin |-> Vide])

(* A file that an object replaces is not missed; bytes that contradict the  *)
(* identity of the row are not copied.                                      *)
ContreditIdentite(l, octets) == l.sha # Rien /\ l.sha # octets

copier_fichiers_locaux(f) ==
  /\ EnCours("fichiers") /\ f \in sauvegarde.reste
  /\ LET l == sauvegarde.lignes[f]
         suite == [sauvegarde EXCEPT !.reste = @ \ {f}] IN
     Tenir(IF l = Rien \/ (~Present(f) /\ l.cle # Rien) THEN suite
           ELSE IF ~Present(f) \/ ContreditIdentite(l, disque[f].octets)
             THEN [suite EXCEPT !.manquants = @ \cup {f}]
             ELSE [suite EXCEPT !.copies[f] = disque[f]])

(* A source that is gone or has another date than its copy. *)
DeriveLocale(copies) ==
  {f \in Fichiers : copies[f] # Rien /\ (~Present(f) \/ disque[f].date # copies[f].date)}

(* The dump is of the snapshot; the sources are looked at again after it.   *)
(* "temoin" keeps the files of that moment to state what the drift shows.   *)
pg_dump ==
  /\ EnCours("fichiers") /\ sauvegarde.reste = {}
  /\ Tenir([sauvegarde EXCEPT !.etape = "objets", !.reste = Fichiers,
                              !.derive = DeriveLocale(sauvegarde.copies), !.temoin = disque])

(* Sent with a checksum of its whole content, an object proves its own      *)
(* bytes; they must also be those the row identifies.                       *)
copier_objets_s3(f) ==
  /\ EnCours("objets") /\ f \in sauvegarde.reste
  /\ LET l == sauvegarde.lignes[f]
         suite == [sauvegarde EXCEPT !.reste = @ \ {f}] IN
     Tenir(IF l = Rien \/ l.cle = Rien THEN suite
           ELSE IF objets[l.cle] = Rien \/ ContreditIdentite(l, objets[l.cle])
             THEN [suite EXCEPT !.manquants = @ \cup {f}]
             ELSE [suite EXCEPT !.objets[f] = objets[l.cle]])

(* Slip: the sources that moved are not counted.                            *)
PerimetreSansDerive(s) == s.manquants = {}
PerimetreComplet(s) == s.manquants = {} /\ s.derive = {}

(* The whole is never declared protected by a backup alone. *)
ecrire_manifeste ==
  /\ EnCours("objets") /\ sauvegarde.reste = {}
  /\ LET octets == [f \in Fichiers |-> IF sauvegarde.copies[f] = Rien THEN Rien
                                       ELSE sauvegarde.copies[f].octets] IN
     /\ manifeste' = [lignes |-> sauvegarde.lignes, fichiers |-> octets,
                      objets |-> sauvegarde.objets, manquants |-> sauvegarde.manquants,
                      temoin |-> sauvegarde.temoin,
                      perimetre |-> PerimetreComplet(sauvegarde), complet |-> FALSE]
     /\ bundle' = [fichiers |-> octets, objets |-> sauvegarde.objets]
  /\ sauvegarde' = Rien
  /\ UNCHANGED <<varsCatalogue, restauration, seau>>

(* A source that moves under the copy, a failed dump or the end of the      *)
(* process: no manifest.                                                    *)
echec_sauvegarde ==
  /\ sauvegarde # Rien
  /\ Tenir(Rien)

----------------------------------------------------------------------------
(* Restoration.                                                             *)

Restaure(e) == restauration # Rien /\ restauration.etape = e

Noter(r) ==
  /\ restauration' = r
  /\ UNCHANGED <<varsCatalogue, sauvegarde, bundle>>

(* Storage rots: a copy of the bundle is no longer what the manifest says.  *)
alterer_bundle(f) ==
  /\ manifeste # Rien /\ restauration = Rien
  /\ \/ bundle.fichiers[f] # Rien /\ bundle' = [bundle EXCEPT !.fichiers[f] = Altere]
     \/ bundle.objets[f] # Rien /\ bundle' = [bundle EXCEPT !.objets[f] = Altere]
  /\ UNCHANGED <<varsCatalogue, sauvegarde, manifeste, restauration, seau>>

(* Someone else writes in the bucket restored into. *)
ecrire_seau(f, o) ==
  /\ manifeste # Rien /\ manifeste.objets[f] # Rien
  /\ seau[f] = Rien
  /\ seau' = [seau EXCEPT ![f] = o]
  /\ UNCHANGED <<varsCatalogue, sauvegarde, manifeste, bundle, restauration>>

(* restaurer_complet: the base first, in a database that does not exist;    *)
(* files and objects only where a destination is given for them.            *)
restaurer(avecFichiers, avecObjets) ==
  /\ manifeste # Rien /\ restauration = Rien
  /\ Noter([etape |-> "fichiers", avecFichiers |-> avecFichiers, avecObjets |-> avecObjets,
            fichiers |-> Vide, faits |-> {}, objets |-> Vide])
  /\ UNCHANGED <<manifeste, seau>>

(* A plan is frozen: every source is copied privately and compared with the *)
(* manifest before the first one is published.                              *)
PlanFidele(copies, attendus) == \A f \in Fichiers : copies[f] = attendus[f]

restaurer_fichiers_locaux ==
  /\ Restaure("fichiers")
  /\ IF ~restauration.avecFichiers THEN Noter([restauration EXCEPT !.etape = "plan"])
     ELSE IF PlanFidele(bundle.fichiers, manifeste.fichiers)
       THEN Noter([restauration EXCEPT !.etape = "plan", !.fichiers = bundle.fichiers])
       ELSE Noter([restauration EXCEPT !.etape = "echec"])
  /\ UNCHANGED <<manifeste, seau>>

figer_plan_restauration ==
  /\ Restaure("plan")
  /\ IF ~restauration.avecObjets THEN Noter([restauration EXCEPT !.etape = "verifier"])
     ELSE IF PlanFidele(bundle.objets, manifeste.objets)
       THEN Noter([restauration EXCEPT !.etape = "publier", !.objets = bundle.objets])
       ELSE Noter([restauration EXCEPT !.etape = "echec"])
  /\ UNCHANGED <<manifeste, seau>>

(* The exclusive creation writes a free key; an occupied one is accepted    *)
(* when it already has the bytes, and refuses the restoration otherwise.    *)
creer_fichier_exclusif(f) ==
  IF seau[f] = Rien THEN [seau EXCEPT ![f] = restauration.objets[f]] ELSE seau

publier_objets_restaures(f) ==
  /\ Restaure("publier") /\ f \notin restauration.faits
  /\ IF restauration.objets[f] = Rien
       THEN Noter([restauration EXCEPT !.faits = @ \cup {f}]) /\ UNCHANGED seau
       ELSE /\ seau' = creer_fichier_exclusif(f)
            /\ Noter(IF seau'[f] = restauration.objets[f]
                       THEN [restauration EXCEPT !.faits = @ \cup {f}]
                       ELSE [restauration EXCEPT !.etape = "echec"])
  /\ UNCHANGED manifeste

(* verifier looks at the restored database; then the manifest is declared   *)
(* complete, whatever was asked to be restored.                             *)
qualifier_apres_restauration_prouvee ==
  /\ \/ Restaure("verifier")
     \/ Restaure("publier") /\ restauration.faits = Fichiers
  /\ manifeste' = [manifeste EXCEPT !.perimetre = TRUE, !.complet = TRUE]
  /\ Noter([restauration EXCEPT !.etape = "finie"])
  /\ UNCHANGED seau

(* The end of the process, a verification that fails. *)
echec_restauration ==
  /\ restauration # Rien /\ restauration.etape \notin {"finie", "echec"}
  /\ Noter([restauration EXCEPT !.etape = "echec"])
  /\ UNCHANGED <<manifeste, seau>>

NextSauvegarde ==
  \/ prendre_instantane \/ pg_dump \/ ecrire_manifeste \/ echec_sauvegarde
  \/ \E f \in Fichiers :
       \/ copier_fichiers_locaux(f) \/ copier_objets_s3(f)
       \/ alterer_bundle(f) \/ publier_objets_restaures(f)
       \/ \E o \in Octets : ecrire_seau(f, o)
  \/ \E a, b \in BOOLEAN : restaurer(a, b)
  \/ restaurer_fichiers_locaux \/ figer_plan_restauration
  \/ qualifier_apres_restauration_prouvee \/ echec_restauration
=============================================================================
