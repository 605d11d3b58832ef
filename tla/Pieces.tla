------------------------------- MODULE Pieces -------------------------------
(***************************************************************************)
(* Opening a document: as a piece of a record, by its number               *)
(* (fiches/routes.py), by its path, or as the source of an import          *)
(* (api.py).  The row is read, then the places where the bytes may be, one *)
(* after the other, while imports, deposits and users go on.               *)
(***************************************************************************)
EXTENDS Catalogue, Sequences

CONSTANTS
  FichesAnciennes,  \* files a record made before the catalogue names by path
  AdressePublique   \* browsers reach the object store

VARIABLE ouverture  \* the document a reader opens

InitPieces == ouverture = Rien

(* Listing the pieces of such a record catalogues its file, with its date  *)
(* and without a text.                                                     *)
document_fiche_par_chemin(f) ==
  /\ f \in FichesAnciennes /\ ligne[f] = Rien /\ Present(f)
  /\ ligne' = [ligne EXCEPT ![f] =
       [date |-> disque[f].date, texte |-> Rien, sha |-> Rien, hash |-> Rien, cle |-> Rien,
        envoye |-> FALSE, fiche |-> TRUE]]
  /\ UNCHANGED <<disque, horloge, objets, pertes, balayage, imports, promotions, ouverture>>

SuiteOuverture(valeurs) == ouverture' = valeurs /\ UNCHANGED varsCatalogue

Publie(i) == imports[i] # Rien /\ imports[i].etape \notin {"capture", "envoye"}

(* captures keeps, for the property, what published imports captured of    *)
(* the file, unless a record has taken it over.                            *)
Captures(f) ==
  {imports[i].sha : i \in {j \in Imports :
     Publie(j) /\ imports[j].fichier = f /\ ~imports[j].conflit /\ ~ligne[f].fiche}}

CommencerLecture(f, sha, cle, captures, places) ==
  /\ ouverture = Rien
  /\ SuiteOuverture([fichier |-> f, sha |-> sha, cle |-> cle, captures |-> captures,
                     places |-> places, etape |-> "ouvre", servi |-> Rien])

ObjetDe(cle) == IF cle = Rien THEN <<>> ELSE <<"objet">>

(* A piece is read in the store first; without an identity, there only.    *)
charger_document(f) ==
  /\ ligne[f] # Rien
  /\ LET l == ligne[f] IN
     CommencerLecture(f, l.sha, l.cle, Captures(f),
       ObjetDe(l.cle) \o (IF l.cle = Rien \/ l.sha # Rien THEN <<"local">> ELSE <<>>))

(* By path, a browser that reaches the store is sent there.                *)
open_path(f) ==
  /\ ligne[f] # Rien
  /\ LET l == ligne[f] IN
     CommencerLecture(f, l.sha, l.cle, Captures(f),
       IF AdressePublique /\ l.cle # Rien THEN <<"renvoi">> ELSE <<"local">> \o ObjetDe(l.cle))

(* The source of an import has the identity of its capture; it is never a  *)
(* redirection.                                                            *)
get_import_artifact(i) ==
  /\ Publie(i)
  /\ LET x == imports[i] IN
     CommencerLecture(x.fichier, x.sha, x.cle, {x.sha}, <<"local">> \o ObjetDe(x.cle))

(* Slip: what is found is served as it is.                                 *)
ConvenirTelQuel(octets) == octets # Rien

(* With an identity, every byte is compared before the answer.             *)
Convient(octets) == octets # Rien /\ ouverture.sha \in {Rien, octets}

EnPlace(place) == ouverture # Rien /\ ouverture.places # <<>> /\ Head(ouverture.places) = place

Servir(octets) ==
  SuiteOuverture(IF Convient(octets)
                   THEN [ouverture EXCEPT !.places = <<>>, !.etape = "servi", !.servi = octets]
                   ELSE [ouverture EXCEPT !.places = Tail(@)])

servir_local ==
  /\ EnPlace("local")
  /\ Servir(IF Present(ouverture.fichier) THEN disque[ouverture.fichier].octets ELSE Rien)
(* The store may not answer.                                               *)
servir_objet ==
  /\ EnPlace("objet")
  /\ Servir(objets[ouverture.cle]) \/ Servir(Rien)
(* The browser follows the signed address: the object as it is by then.    *)
suivre_renvoi ==
  /\ EnPlace("renvoi")
  /\ SuiteOuverture([ouverture EXCEPT !.places = <<>>, !.etape = "suivi",
                                      !.servi = objets[ouverture.cle]])

(* Served, or nowhere to be found.                                         *)
fermer_reponse ==
  /\ ouverture # Rien /\ ouverture.places = <<>>
  /\ SuiteOuverture(Rien)

NextPieces ==
  \/ \E f \in Fichiers : document_fiche_par_chemin(f) \/ charger_document(f) \/ open_path(f)
  \/ \E i \in Imports : get_import_artifact(i)
  \/ servir_local \/ servir_objet \/ suivre_renvoi \/ fermer_reponse

----------------------------------------------------------------------------

(* The bytes the API serves of a document with an identity are those of    *)
(* its identity, and of a file an import published those it captured,      *)
(* whoever rewrites the file or the object between the row and the read.   *)
(* A reader sent to the store itself is not covered: a promotion may have  *)
(* put under the key what the file had become.                             *)
ServiConforme ==
  ouverture # Rien /\ ouverture.etape = "servi" =>
    /\ ouverture.sha # Rien => ouverture.servi = ouverture.sha
    /\ \A s \in ouverture.captures : ouverture.servi = s
=============================================================================
