------------------------------ MODULE MoteurOCR ------------------------------
(***************************************************************************)
(* The pages of one file read by RapidOCR (ocr/moteur.py, ocr/pipeline.py, *)
(* ocr/reconnaissance.py): a slave process that answers one line for each  *)
(* request, a thread that carries its lines to a queue, and the parent     *)
(* that waits for them with a delay.  A slave that is given up and its     *)
(* successors share the queue, and a line does not say which page it       *)
(* answers.                                                                *)
(***************************************************************************)
EXTENDS Naturals, Sequences, SequencesExt

CONSTANTS
  NbPages,   \* pages of the file
  Natives    \* pages that have a text of their own

VARIABLES
  esclaves,  \* each slave started for the file, in order
  lignes,    \* the queue between the readers and the parent
  moteur,    \* the parent's side: current slave, given up for good, what it waits for
  resultats  \* what is published of each page

varsMoteur == <<esclaves, lignes, moteur, resultats>>

PagesDuFichier == 1..NbPages
Pret == [genre |-> "pret"]
Fin == [genre |-> "fin"]
Reponse(p, succes) == [genre |-> "reponse", page |-> p, succes |-> succes]
Oceriser(p) == [statut |-> "ocerisee", texte |-> p]
Echec == [statut |-> "echec", texte |-> 0]
Attente == [statut |-> "attente", texte |-> 0]
Natif(p) == [statut |-> "natif", texte |-> p]

InitMoteur ==
  /\ esclaves = <<>>
  /\ lignes = <<>>
  /\ moteur = [processus |-> 0, mort |-> FALSE, page |-> 1, etape |-> "page", delais |-> {}]
  /\ resultats = [p \in PagesDuFichier |-> Attente]

----------------------------------------------------------------------------
(* A slave and the thread that reads it.                                    *)

Vivant(g) == esclaves[g].etat \in {"charge", "libre"}

(* The models are loaded, which may take longer than the parent waits, but  *)
(* not less than the reader of an ended slave needs to empty its pipe.      *)
amorcer(g) ==
  /\ esclaves[g].etat = "charge"
  /\ \A h \in 1..(g - 1) : esclaves[h].lu
  /\ esclaves' = [esclaves EXCEPT ![g].etat = "libre", ![g].sortie = Append(@, Pret)]
  /\ UNCHANGED <<lignes, moteur, resultats>>

(* One answer for each request, in order; after the last one the closed     *)
(* input ends the slave.                                                    *)
repondre(g, succes) ==
  /\ esclaves[g].etat = "libre" /\ esclaves[g].entree # <<>>
  /\ esclaves' = [esclaves EXCEPT ![g].entree = Tail(@),
       ![g].sortie = Append(@, Reponse(Head(esclaves[g].entree), succes))]
  /\ UNCHANGED <<lignes, moteur, resultats>>

(* It ends with its input, or by itself: no model, memory or processor      *)
(* limit.  A request in its hands gets no answer.                           *)
finir(g) ==
  /\ Vivant(g)
  /\ esclaves' = [esclaves EXCEPT ![g].etat = "mort", ![g].entree = <<>>]
  /\ UNCHANGED <<lignes, moteur, resultats>>

lire(g) ==
  /\ \/ /\ esclaves[g].sortie # <<>>
        /\ lignes' = Append(lignes, Head(esclaves[g].sortie))
        /\ esclaves' = [esclaves EXCEPT ![g].sortie = Tail(@)]
     \/ /\ esclaves[g].etat = "mort" /\ esclaves[g].sortie = <<>> /\ ~esclaves[g].lu
        /\ lignes' = Append(lignes, Fin)
        /\ esclaves' = [esclaves EXCEPT ![g].lu = TRUE]
  /\ UNCHANGED <<moteur, resultats>>

----------------------------------------------------------------------------
(* The parent.                                                              *)

A(e) == moteur.etape = e
Courant == moteur.processus

Suivante == [moteur EXCEPT !.page = @ + 1, !.etape = "page"]

(* The page is published as a failure. *)
Echouer(suite) ==
  /\ resultats' = [resultats EXCEPT ![moteur.page] = Echec]
  /\ moteur' = suite

(* fermer: the slave is forgotten at once, its input closed; the parent     *)
(* goes on when it has ended, by itself or killed after five seconds.       *)
Fermer(m) == [m EXCEPT !.processus = 0, !.etape = "fermeture"]
fermer(g) ==
  /\ A("fermeture")
  /\ g = Len(esclaves)
  /\ esclaves' = [esclaves EXCEPT ![g].etat = "mort", ![g].entree = <<>>]
  /\ Echouer(Suivante)
  /\ UNCHANGED lignes

(* A page with a text of its own is left as it is; one whose view cannot be *)
(* rendered or extracted under the limits is refused.                       *)
page_native ==
  /\ A("page") /\ moteur.page \in Natives
  /\ resultats' = [resultats EXCEPT ![moteur.page] = Natif(moteur.page)]
  /\ moteur' = Suivante
  /\ UNCHANGED <<esclaves, lignes>>

vue_refusee ==
  /\ A("page") /\ moteur.page \in PagesDuFichier \ Natives
  /\ Echouer(Suivante)
  /\ UNCHANGED <<esclaves, lignes>>

(* A slave is started for the first page and after each one given up,       *)
(* unless the engine has seen one end.                                      *)
demarrer ==
  /\ A("page") /\ moteur.page \in PagesDuFichier \ Natives
  /\ Courant = 0
  /\ IF moteur.mort
       THEN Echouer(Suivante) /\ UNCHANGED esclaves
       ELSE /\ esclaves' = Append(esclaves,
                 [etat |-> "charge", entree |-> <<>>, sortie |-> <<>>, lu |-> FALSE])
            /\ moteur' = [moteur EXCEPT !.processus = Len(esclaves) + 1, !.etape = "amorcage"]
            /\ UNCHANGED resultats
  /\ UNCHANGED lignes

(* Writing to a slave that has ended fails. *)
Envoyer(g) ==
  IF Vivant(g)
    THEN /\ esclaves' = [esclaves EXCEPT ![g].entree = Append(@, moteur.page)]
         /\ moteur' = [moteur EXCEPT !.etape = "reponse"]
    ELSE /\ moteur' = Fermer(moteur)
         /\ UNCHANGED esclaves

(* Slip: any first line is taken for the one that says the slave is ready.  *)
RecevoirSansVoir ==
  /\ A("amorcage") /\ lignes # <<>>
  /\ lignes' = Tail(lignes)
  /\ IF Head(lignes) # Fin
       THEN Envoyer(Courant)
       ELSE /\ moteur' = Fermer([moteur EXCEPT !.mort = TRUE])
            /\ UNCHANGED esclaves
  /\ UNCHANGED resultats

recevoir_pret ==
  /\ A("amorcage") /\ lignes # <<>>
  /\ lignes' = Tail(lignes)
  /\ IF Head(lignes) = Pret
       THEN Envoyer(Courant)
       ELSE /\ moteur' = Fermer([moteur EXCEPT !.mort = @ \/ Head(lignes) = Fin])
            /\ UNCHANGED esclaves
  /\ UNCHANGED resultats

reconnaitre ==
  /\ A("page") /\ moteur.page \in PagesDuFichier \ Natives
  /\ Courant # 0
  /\ Envoyer(Courant)
  /\ UNCHANGED <<lignes, resultats>>

(* The line is taken for the answer to the page: the end of a slave gives   *)
(* the engine up, though the current one may be alive.                      *)
recevoir_reponse ==
  /\ A("reponse") /\ lignes # <<>>
  /\ lignes' = Tail(lignes)
  /\ LET l == Head(lignes) IN
     IF l.genre = "reponse" /\ l.succes
       THEN /\ resultats' = [resultats EXCEPT ![moteur.page] = Oceriser(l.page)]
            /\ moteur' = Suivante
       ELSE Echouer([Suivante EXCEPT !.mort = @ \/ l = Fin])
  /\ UNCHANGED esclaves

(* The delay of an answer, or the longer one of a start, is over. *)
delai_depasse ==
  /\ moteur.etape \in {"amorcage", "reponse"} /\ lignes = <<>>
  /\ moteur' = Fermer([moteur EXCEPT !.delais = @ \cup {moteur.etape}])
  /\ UNCHANGED <<esclaves, lignes, resultats>>

NextMoteur ==
  \/ \E g \in DOMAIN esclaves :
       amorcer(g) \/ finir(g) \/ lire(g) \/ fermer(g) \/ \E b \in BOOLEAN : repondre(g, b)
  \/ page_native \/ vue_refusee \/ demarrer \/ recevoir_pret \/ reconnaitre
  \/ recevoir_reponse \/ delai_depasse

----------------------------------------------------------------------------

(* A text is published for the page it was read on, whatever answers come   *)
(* late from slaves given up, as long as each of them was ready in time.    *)
TexteDeLaPage ==
  "amorcage" \notin moteur.delais =>
    \A p \in PagesDuFichier : resultats[p].statut = "ocerisee" => resultats[p].texte = p

=============================================================================
