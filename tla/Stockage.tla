------------------------------- MODULE Stockage -------------------------------
(***************************************************************************)
(* The disk, the catalogue and the bucket with all those who use them at   *)
(* the same time: scans, imports, deposits and promotions, backups, users, *)
(* readers and operators.  A behaviour has one set of actors, a member of  *)
(* Deploiements, to bound the model: a race of two of them is in the       *)
(* behaviours of any set that holds both.                                  *)
(***************************************************************************)
EXTENDS Sauvegarde, Pieces

CONSTANT Deploiements

VARIABLE presents

varsStockage == <<varsCatalogue, varsSauvegarde, ouverture, presents>>

InitStockage ==
  /\ InitCatalogue
  /\ InitSauvegarde
  /\ InitPieces
  /\ presents \in Deploiements

NextExterne ==
  \/ \E f \in Fichiers : retirer_fichier(f) \/ \E o \in Octets : ecrire_fichier(f, o)
  \/ \E c \in Cles : perdre_objet(c)

NextStockage ==
  /\ \/ /\ UNCHANGED <<varsSauvegarde, ouverture>>
        /\ \/ NextExterne
           \/ "balayage" \in presents /\ NextBalayage
           \/ "import" \in presents /\ NextImport
           \/ \E p \in Promoteurs \cap presents : NextPromotion(p)
     \/ "sauvegarde" \in presents /\ NextSauvegarde /\ UNCHANGED ouverture
     \/ "lecteur" \in presents /\ NextPieces /\ UNCHANGED varsSauvegarde
  /\ UNCHANGED presents

----------------------------------------------------------------------------

(* What an import told its user is in the catalogue stays there: the row of *)
(* a capture published without conflict keeps the identity of the captured  *)
(* bytes, through scans, retries and the purge of the staging, unless a     *)
(* record has taken the document over.                                      *)
CaptureGardee ==
  \A i \in Imports :
    imports[i] # Rien /\ imports[i].etape \notin {"capture", "envoye"} /\ ~imports[i].conflit =>
      LET l == ligne[imports[i].fichier] IN l # Rien /\ (l.sha = imports[i].sha \/ l.fiche)

(* What the purge of the staging removes was captured, and is in the bucket *)
(* under the key the saved import names: whatever is written or deleted     *)
(* while the purge is under way, bytes are lost only by a user who rewrites *)
(* the file after its last reading, or an operator who deletes the object   *)
(* after the remote one.                                                    *)
PurgeSansPerte ==
  [][\A i \in Imports :
       imports[i] # Rien /\ imports'[i] # Rien
         /\ imports[i].etape # "purge" /\ imports'[i].etape = "purge" =>
         LET x == imports[i]
             local == disque[x.fichier] IN
         /\ local # Rien
         /\ local.octets = x.sha \/ local.date > x.luLe
         /\ objets[x.cle] = x.sha \/ pertes > x.perdus]_varsStockage

(* An object that a row says sent, after its promotion, is in the bucket    *)
(* with the bytes the row identifies.  Not checked: the code does not keep  *)
(* it, a scan or an import may rewrite the identity meanwhile.              *)
EnvoiFidele ==
  \A f \in Fichiers :
    ligne[f] # Rien /\ ligne[f].envoye /\ pertes = 0 => objets[ligne[f].cle] = ligne[f].sha

(* A backup whose perimeter is declared complete holds every document of    *)
(* its snapshot: the bytes each row identifies, the object of each row that *)
(* names one, and no file that changed between its copy and the dump.       *)
PerimetreTenu ==
  manifeste # Rien /\ manifeste.perimetre /\ ~manifeste.complet =>
    \A f \in Fichiers : manifeste.lignes[f] # Rien =>
      LET l == manifeste.lignes[f]
          copie == manifeste.fichiers[f]
          objet == manifeste.objets[f] IN
      /\ copie # Rien \/ objet # Rien
      /\ l.cle # Rien => objet # Rien
      /\ l.sha # Rien => {copie, objet} \subseteq {Rien, l.sha}
      /\ copie # Rien => manifeste.temoin[f] # Rien /\ manifeste.temoin[f].octets = copie

(* A finished restoration has exactly the bytes of the manifest at every    *)
(* place it was asked to fill, though copies rot and others write in the    *)
(* bucket meanwhile.                                                        *)
RestaurationFidele ==
  restauration # Rien /\ restauration.etape = "finie" =>
    \A f \in Fichiers :
      /\ restauration.avecFichiers => restauration.fichiers[f] = manifeste.fichiers[f]
      /\ restauration.avecObjets /\ manifeste.objets[f] # Rien => seau[f] = manifeste.objets[f]

(* A backup that says it is whole is one, and gives back what it holds.     *)
SauvegardeFidele == PerimetreTenu /\ RestaurationFidele

(* A scan leaves the text of a file it did not have to extract, as the rows *)
(* of an unchanged file are said not to be indexed again                    *)
(* (tests/test_indexer.py:55, crawler.py:24).                               *)
TexteGarde ==
  [][\A f \in Fichiers :
       balayage # Rien /\ balayage' = Rien /\ ligne[f] # Rien /\ ligne'[f] # Rien
         /\ ligne'[f].date = ligne[f].date => ligne'[f].texte = ligne[f].texte]_varsStockage
=============================================================================
