-------------------------- MODULE MigrationSecurisee --------------------------
(***************************************************************************)
(* The script an operator runs around a change of version                  *)
(* (migration_securee.py): a dump, a photograph read after it in three     *)
(* connections, the comparison once the version is installed, and the way  *)
(* back in a new base.  Nothing stops the services meanwhile.              *)
(***************************************************************************)
EXTENDS Naturals

CONSTANTS
  Textes,          \* what the rows of the business tables may say
  MaxLignes,
  SeuilEmpreinte,  \* a table with more rows is not fingerprinted
  MaxVersions,
  NonLu

VARIABLES
  production,  \* the base in service: its version, how many rows it has, what they say
  photo,       \* the dump, then the three reads
  controle,    \* the comparison after the installation
  retour       \* the base made from the dump, and the verdict on it

varsMigration == <<production, photo, controle, retour>>

TablesMetier == [version : 0..MaxVersions, lignes : 0..MaxLignes, texte : Textes]

PasDePhoto ==
  [etape |-> "aucune", dump |-> NonLu, version |-> NonLu, lignes |-> NonLu, empreinte |-> NonLu,
   base |-> NonLu]
PasDeControle == [etape |-> "attend", version |-> NonLu, lignes |-> NonLu, ok |-> FALSE]
PasDeRetour == [etape |-> "aucun", base |-> NonLu, lignes |-> NonLu, ok |-> FALSE]

InitMigration ==
  /\ production \in {b \in TablesMetier : b.version = 0}
  /\ photo = PasDePhoto /\ controle = PasDeControle /\ retour = PasDeRetour

(* Neither an empty table nor a large one has a fingerprint.               *)
EmpreinteLogique(b) ==
  IF b.lignes \in 1..SeuilEmpreinte THEN [lignes |-> b.lignes, texte |-> b.texte] ELSE NonLu

(* The services write.                                                     *)
ecrire_metier ==
  /\ \E b \in TablesMetier : b.version = production.version /\ b # production /\ production' = b
  /\ UNCHANGED <<photo, controle, retour>>

(* The new version starts: its migrations may be wrong about the rows.     *)
installer_version ==
  /\ photo.etape = "lue" /\ production.version < MaxVersions
  /\ \E b \in TablesMetier : b.version = production.version + 1 /\ production' = b
  /\ UNCHANGED <<photo, controle, retour>>

Prendre(valeurs) ==
  /\ photo' = valeurs
  /\ UNCHANGED <<production, controle, retour>>

dump_de_securite ==
  /\ photo.etape = "aucune"
  /\ Prendre([photo EXCEPT !.etape = "versions", !.dump = production])
lire_versions ==
  /\ photo.etape = "versions"
  /\ Prendre([photo EXCEPT !.etape = "comptes", !.version = production.version])
lire_comptes ==
  /\ photo.etape = "comptes"
  /\ Prendre([photo EXCEPT !.etape = "empreintes", !.lignes = production.lignes])
(* base keeps, for the property, what was in service at the last read.     *)
lire_empreintes ==
  /\ photo.etape = "empreintes"
  /\ Prendre([photo EXCEPT !.etape = "lue", !.empreinte = EmpreinteLogique(production),
                           !.base = production])
(* pg_dump or a read fails: nothing is kept, and nothing may be installed. *)
avant_impossible ==
  /\ photo.etape \notin {"aucune", "lue"}
  /\ Prendre(PasDePhoto)

----------------------------------------------------------------------------
Comparer(valeurs) ==
  /\ controle' = valeurs
  /\ UNCHANGED <<production, photo, retour>>

apres_versions ==
  /\ photo.etape = "lue" /\ controle.etape = "attend"
  /\ Comparer([controle EXCEPT !.etape = "comptes", !.version = production.version])
apres_comptes ==
  /\ controle.etape = "comptes"
  /\ Comparer([controle EXCEPT !.etape = "empreintes", !.lignes = production.lignes])
(* A fingerprint that changed is a difference at an equal count only.      *)
apres_migration ==
  /\ controle.etape = "empreintes"
  /\ LET nouvelle == EmpreinteLogique(production)
         reecrit == NonLu \notin {nouvelle, photo.empreinte} /\ controle.lignes = photo.lignes
                      /\ nouvelle # photo.empreinte
     IN Comparer([controle EXCEPT !.etape = "fini",
          !.ok = controle.version > photo.version /\ controle.lignes >= photo.lignes /\ ~reecrit])

----------------------------------------------------------------------------
Revenir(valeurs) ==
  /\ retour' = valeurs
  /\ UNCHANGED <<production, photo, controle>>

(* restaurer: into a base that does not exist, from a dump still what the  *)
(* photograph measured; refused otherwise.                                 *)
restaurer_dump ==
  /\ photo.etape = "lue" /\ retour.etape = "aucun"
  /\ \/ Revenir([retour EXCEPT !.etape = "restaure", !.base = photo.dump])
     \/ Revenir([retour EXCEPT !.etape = "refuse"])

(* Slip: the counts and the versions only.                                 *)
VerifierComptes(b) == b.lignes = photo.lignes /\ b.version = photo.version

VerifierRetour(b) ==
  /\ b.lignes = photo.lignes
  /\ NonLu \in {photo.empreinte, EmpreinteLogique(b)} \/ EmpreinteLogique(b) = photo.empreinte
  /\ b.version = photo.version

(* Nobody else writes in the restored base.                                *)
rollback ==
  /\ retour.etape = "restaure"
  /\ Revenir([retour EXCEPT !.etape = "verifie", !.ok = VerifierRetour(retour.base)])

NextMigration ==
  \/ ecrire_metier \/ installer_version
  \/ dump_de_securite \/ lire_versions \/ lire_comptes \/ lire_empreintes \/ avant_impossible
  \/ apres_versions \/ apres_comptes \/ apres_migration
  \/ restaurer_dump \/ rollback

----------------------------------------------------------------------------

(* A way back declared right gives the rows that were in service when the  *)
(* photograph ended, although the dump was made before its reads and the   *)
(* services wrote in between: nothing written between them is lost without *)
(* a word.  A base without a fingerprint, restored or in service, only has *)
(* the count that was read before it.                                      *)
RetourProuve ==
  retour.ok =>
    /\ retour.base.version <= photo.base.version
    /\ NonLu \notin {photo.empreinte, EmpreinteLogique(retour.base)} =>
         retour.base.lignes = photo.base.lignes /\ retour.base.texte = photo.base.texte
=============================================================================
