------------------------------ MODULE Lecture ------------------------------
(***************************************************************************)
(* Reading a folder: its PDFs one after the other, the rules of a template *)
(* on each of them, the one that becomes the record and the reference it   *)
(* is filed under (fiches/depot.py, extraction.py, reprise.py,             *)
(* gabarits.py).                                                           *)
(*                                                                         *)
(* A value is known by the rank of the rule that read it; what the pages,  *)
(* the names and the folder say is drawn where it is looked at.  A record  *)
(* being read keeps one attribute of each kind: a title, a code, a type,   *)
(* and whether there are dimensions, bands, free measures and a name.      *)
(* "champs" are the traces that the validation screen shows.               *)
(***************************************************************************)
EXTENDS Naturals, Sequences, FiniteSets

CONSTANTS
  NbPdfs,          \* PDFs of the folder, in the order of their names
  Gabarits,        \* templates, each the order of its rules
  NomsFfab,        \* PDFs whose name speaks of a record
  NomsReference,   \* PDFs whose name may bear a reference
  Blanc

(* The kinds of rules that a template may be made of. *)
Regles ==
  {"titre", "code", "designation", "titre_accessoire", "code_accessoire", "client",
   "ligne_portant", "ligne_ffab", "entete_atelier", "cote", "grille_cotes", "bords_atelier",
   "cotes_ffab", "libres", "galons", "galons_grille", "galons_atelier"}

ASSUME HypotheseLecture ==
  /\ NbPdfs \in Nat \ {0}
  /\ NomsFfab \cup NomsReference \subseteq 1..NbPdfs
  /\ \A g \in Gabarits : g \in Seq(Regles) /\ Len(g) > 0
  /\ Blanc \notin 1..NbPdfs
  /\ Blanc \notin {"document", "nom_dossier", "nom_fichier", "formulaire", "planche"}

VARIABLES
  page,    \* the PDF being read
  lus,     \* what the PDFs read so far gave
  plan,    \* what the scan decided
  ecrit    \* what the deposit does with it

varsLecture == <<page, lus, plan, ecrit>>

Pdfs == 1..NbPdfs
Tetes == {"titre", "code", "type"}
FicheExtraite ==
  [titre |-> Blanc, code |-> Blanc, type |-> Blanc, identite |-> FALSE, cotes |-> FALSE,
   galons |-> FALSE, libres |-> FALSE, champs |-> {}]

InitLecture == page = Blanc /\ lus = <<>> /\ plan = Blanc /\ ecrit = Blanc

----------------------------------------------------------------------------
(* What a rule does to the record it reads into: the records it may leave.  *)

Tracer(f, a, v) == [f EXCEPT !.champs = @ \cup {<<a, v>>}]
Premier(f, a, i) == IF f[a] = Blanc THEN [f EXCEPT ![a] = i] ELSE f
TracerLes(f, S) ==
  [f EXCEPT !.champs = @ \cup {<<a, f[a]>> : a \in {b \in S : f[b] # Blanc}}]

(* An attribute of the head: the first rule wins, each leaves its trace.    *)
ChampDeTete(f, i) == {Tracer(Premier(f, "code", i), "code", i)}

TraiterTitre(f, i) == {Tracer([f EXCEPT !.titre = i], "titre", i)}

(* The type of the sail, or, not recognised, words that are a range only.   *)
TraiterDesignation(f, i) ==
  {Tracer([f EXCEPT !.type = i], "type", i), Tracer(f, "type", i)}

(* The title and the code of an accessory are looked for in the whole page; *)
(* not found, the trace of the words beside the label remains, if any.      *)
TraiterAccessoire(f, i, a) == {Tracer(Premier(f, a, i), a, i), Tracer(f, a, i), f}

(* Customer, boat, order, designer: each rule writes over the one before.   *)
TraiterIdentite(f) == {[f EXCEPT !.identite = TRUE]}

(* A line that says everything: designation, boat, customer and code, each  *)
(* kept if it is the first, and a trace of what the record has then.        *)
TraiterLignePortant(f, i) ==
  {f} \cup
  {LET g == IF "code" \in vus THEN Premier(f, "code", i) ELSE f
       h == IF "type" \in vus THEN Premier(g, "type", i) ELSE g
   IN TracerLes([Tracer(h, "type", i) EXCEPT !.identite = @ \/ "identite" \in vus], {"code", "type"})
   : vus \in SUBSET {"code", "type", "identite"}}

(* The same with a title.  A line that cannot be taken apart gives nothing  *)
(* but the code that the "Fichier" line of the document confirms.           *)
CodeDeLaLigneFichier(f, i) ==
  {f} \cup (IF f.code = Blanc THEN {Tracer([f EXCEPT !.code = i], "code", i)} ELSE {})

TraiterLigneFfab(f, i) ==
  CodeDeLaLigneFichier(f, i) \cup
  {LET g == IF "code" \in vus THEN Premier(f, "code", i) ELSE f
       h == IF "type" \in vus THEN Premier(g, "type", i) ELSE g
       t == Premier(h, "titre", i)
   IN TracerLes([Tracer(t, "type", i) EXCEPT !.identite = TRUE], Tetes)
   : vus \in SUBSET {"code", "type"}}

(* The head of the workshop's form: each part traced only when it is kept.  *)
TraiterEnteteAtelier(f, i) ==
  {LET g == [a \in Tetes |-> IF a \in vus /\ f[a] = Blanc THEN i ELSE f[a]]
   IN TracerLes([f EXCEPT !.titre = g.titre, !.code = g.code, !.type = g.type,
                          !.identite = @ \/ "identite" \in vus,
                          !.cotes = @ \/ "cotes" \in vus],
                {a \in Tetes : a \in vus /\ f[a] = Blanc})
   : vus \in SUBSET {"titre", "code", "type", "identite", "cotes"}}

(* Dimensions, in a line, a ruled table or a grid: those that are there are *)
(* kept, the others and the ones without a column become free measures.     *)
LireCote(f) == {f, [f EXCEPT !.cotes = TRUE]}
TraiterGrilleCotes(f) == LireCote(f)
TraiterBordsAtelier(f) == LireCote(f)
TraiterCotesFfab(f) == LireCote(f) \cup {[g EXCEPT !.libres = TRUE] : g \in LireCote(f)}
TraiterLibres(f) == {f, [f EXCEPT !.libres = TRUE]}

(* Bands, seams, finishings, reinforcements, materials: a rule of the group *)
(* does nothing when an earlier one has filled it.                          *)
TraiterGroupe(f) == {[f EXCEPT !.galons = TRUE]}
TraiterGroupeDeGrille(f) == {f, [f EXCEPT !.galons = TRUE]}
TraiterGroupeAtelier(f) == {f, [f EXCEPT !.galons = TRUE]}

(* What a rule finds: no anchor, an anchor without a value, a value; or it  *)
(* raises, and leaves what it had traced at most.                           *)
TrouverLigne == {"absente", "ancre", "valeur", "erreur"}

Champ(regle) ==
  CASE regle \in {"code", "code_accessoire"} -> "code"
    [] regle \in {"titre", "titre_accessoire"} -> "titre"
    [] OTHER -> "type"

RelitLaPage == {"designation", "ligne_ffab", "titre_accessoire", "code_accessoire"}

Traiter(regle, f, i) ==
  CASE regle = "code" -> ChampDeTete(f, i)
    [] regle = "titre" -> TraiterTitre(f, i)
    [] regle = "designation" -> TraiterDesignation(f, i)
    [] regle \in {"titre_accessoire", "code_accessoire"} -> TraiterAccessoire(f, i, Champ(regle))
    [] regle = "client" -> TraiterIdentite(f)
    [] regle = "ligne_portant" -> TraiterLignePortant(f, i)
    [] regle = "ligne_ffab" -> TraiterLigneFfab(f, i)
    [] regle = "entete_atelier" -> TraiterEnteteAtelier(f, i)
    [] regle = "cote" -> LireCote(f)
    [] regle = "grille_cotes" -> TraiterGrilleCotes(f)
    [] regle = "bords_atelier" -> TraiterBordsAtelier(f)
    [] regle = "cotes_ffab" -> TraiterCotesFfab(f)
    [] regle = "libres" -> TraiterLibres(f)
    [] regle = "galons" -> TraiterGroupe(f)
    [] regle = "galons_grille" -> TraiterGroupeDeGrille(f)
    [] regle = "galons_atelier" -> TraiterGroupeAtelier(f)

DuGroupe == {"galons", "galons_grille", "galons_atelier"}
DejaLue(regle, f) == (regle \in DuGroupe /\ f.galons) \/ (regle = "cote" /\ f.cotes)

----------------------------------------------------------------------------
(* One PDF.                                                                 *)

(* The text is read and the template with the most anchors wins; a PDF of   *)
(* which no template has an anchor is no candidate, unless its orientation  *)
(* makes that answer uncertain.                                             *)
EnLecture(e) == page # Blanc /\ page.etape = e

NoterLecture(l) == lus' = Append(lus, l) /\ page' = Blanc

analyser_pdf(issue) ==
  /\ plan = Blanc /\ page = Blanc /\ Len(lus) < NbPdfs
  /\ issue \in {"illisible", "sans_texte", "mixte"}
  /\ NoterLecture([nature |-> issue, classe |-> IF issue = "sans_texte" THEN issue ELSE Blanc,
            candidat |-> Blanc])
  /\ UNCHANGED <<plan, ecrit>>

detecter_gabarit(g) ==
  /\ plan = Blanc /\ page = Blanc /\ Len(lus) < NbPdfs
  /\ page' = [etape |-> "regles", gabarit |-> g, rang |-> 1, fiche |-> FicheExtraite]
  /\ UNCHANGED <<lus, plan, ecrit>>

sans_gabarit ==
  /\ plan = Blanc /\ page = Blanc /\ Len(lus) < NbPdfs
  /\ page' = [etape |-> "classer", candidat |-> Blanc]
  /\ UNCHANGED <<lus, plan, ecrit>>

(* The anchors of a rule are taken, whatever becomes of it; one that raises *)
(* is left out and the next one runs.                                       *)
executer_regle(trouve) ==
  /\ EnLecture("regles") /\ page.rang <= Len(page.gabarit)
  /\ LET r == page.gabarit[page.rang]
         f == page.fiche
         i == page.rang
         apres ==
           IF DejaLue(r, f) THEN {f}
           ELSE IF trouve = "erreur" THEN {f, IF Champ(r) = "type" THEN f ELSE Tracer(f, Champ(r), i)}
           ELSE IF trouve = "valeur" \/ (trouve = "ancre" /\ r \in RelitLaPage)
                     \/ r = "ligne_ffab"
             THEN Traiter(r, f, i)
           ELSE {f}
     IN \E g \in apres : page' = [page EXCEPT !.rang = @ + 1, !.fiche = g]
  /\ UNCHANGED <<lus, plan, ecrit>>

(* After the rules: the known pairs that no anchor took, the title printed  *)
(* at the head, the dimensions of a family without a template, and a title  *)
(* that names another type than the designation follows the designation.    *)
CollecterLibres(f) == {f, [f EXCEPT !.libres = TRUE]}

TitreDeLEntete(f) ==
  IF f.titre # Blanc THEN {f} ELSE {f, Tracer([f EXCEPT !.titre = 0], "titre", 0)}

LireGrilleSansGabarit(f) == LireCote(f)

(* Slip: the traces of the title keep the words of the form.                *)
TitreSansSaTrace(f) ==
  {f} \cup (IF f.titre # Blanc /\ f.type # Blanc THEN {[f EXCEPT !.titre = f.type]} ELSE {})

AlignerTitreSurType(f) ==
  {f} \cup
  (IF f.titre # Blanc /\ f.type # Blanc
     THEN {[f EXCEPT !.titre = f.type,
                     !.champs = {c \in @ : c[1] # "titre"} \cup {<<"titre", f.type>>}]}
     ELSE {})

extraire_pages ==
  /\ EnLecture("regles") /\ page.rang > Len(page.gabarit)
  /\ \E f1 \in CollecterLibres(page.fiche) : \E f2 \in TitreDeLEntete(f1) :
     \E f3 \in LireGrilleSansGabarit(f2) : \E f4 \in AlignerTitreSurType(f3) :
       page' = [page EXCEPT !.etape = "anomalies", !.fiche = f4]
  /\ UNCHANGED <<lus, plan, ecrit>>

(* The groups that show that a record was read, apart from its code; with   *)
(* the number of anchors and the orientations, all that is looked at next.  *)
Trace(f, a) == \E c \in f.champs : c[1] = a
GroupesPreuve(f) ==
  Cardinality({g \in {"identite", "type", "mesures", "fabrication"} :
    \/ g = "identite" /\ f.identite
    \/ g = "type" /\ (f.type # Blanc \/ Trace(f, "type") \/ Trace(f, "titre"))
    \/ g = "mesures" /\ (f.cotes \/ f.libres)
    \/ g = "fabrication" /\ f.galons})

signaler_orientations_mixtes(score, mixte) ==
  /\ EnLecture("anomalies")
  /\ page' = [etape |-> "classer",
              candidat |-> [score |-> score, mixte |-> mixte,
                            code |-> page.fiche.code # Blanc,
                            groupes |-> IF GroupesPreuve(page.fiche) > 2 THEN 2
                                        ELSE GroupesPreuve(page.fiche)]]
  /\ UNCHANGED <<lus, plan, ecrit>>

(* A measurement form is read again to be known as such: it is never a      *)
(* candidate, whatever a template saw in it.  A sheet of panels stays one.  *)
classer(classe) ==
  /\ EnLecture("classer") /\ classe \in {"formulaire", "planche", Blanc}
  /\ NoterLecture([nature |-> "lue", classe |-> classe,
            candidat |-> IF classe = "formulaire" THEN Blanc ELSE page.candidat])
  /\ UNCHANGED <<plan, ecrit>>

----------------------------------------------------------------------------
(* The folder.                                                              *)

Candidats == {p \in DOMAIN lus : lus[p].candidat # Blanc}
Classes == {p \in DOMAIN lus : lus[p].classe # Blanc}
Natures(n) == {p \in DOMAIN lus : lus[p].nature = n}

ExtractionViable(p) == lus[p].candidat.code /\ lus[p].candidat.groupes >= 2
ExtractionSelectionnable(p) ==
  lus[p].candidat.groupes >= (IF lus[p].candidat.code THEN 1 ELSE 2)

(* The best score first, then a name that speaks of a record, then names.   *)
Devant(p, q) ==
  LET s == lus[p].candidat.score
      t == lus[q].candidat.score
      fp == p \in NomsFfab
      fq == q \in NomsFfab
  IN s > t \/ (s = t /\ ((fp /\ ~fq) \/ (fp = fq /\ p < q)))

PremierDe(S) == {p \in S : \A q \in S \ {p} : Devant(p, q)}

Choisir ==
  LET viables == {p \in Candidats : ExtractionViable(p)} IN
  IF viables # {} THEN PremierDe(viables)
  ELSE PremierDe({p \in Candidats : ExtractionSelectionnable(p)})

OrientationsDouteuses ==
  Natures("mixte") # {} \/ \E p \in Candidats : lus[p].candidat.mixte

(* The record of a folder without a record: its reference is the one of a   *)
(* panel sheet, of the folder, then of a file.  None and no sheet to read:  *)
(* the folder cannot be named.                                              *)
ConstruireReprise(planche, dossier, noms) ==
  IF planche.lue /\ planche.code THEN "document"
  ELSE IF dossier THEN "nom_dossier"
  ELSE IF noms # {} THEN "nom_fichier" ELSE Blanc

PremierPdf(S) == CHOOSE p \in S : \A q \in S : p <= q

Plan(pdf, reprise, code, autres) ==
  [pdf |-> pdf, reprise |-> reprise, code |-> code, autres |-> autres]

TenterReprise(planche, dossier, noms) ==
  LET code == ConstruireReprise(planche, dossier, noms)
      plans == {p \in Classes : lus[p].classe = "planche"}
  IN IF (Natures("illisible") # {} /\ Classes = {}) \/ (code = Blanc /\ ~planche.lue)
       THEN Plan(Blanc, FALSE, Blanc, {})
       ELSE Plan(PremierPdf(IF plans # {} THEN plans ELSE Pdfs), TRUE, code, {})

scanner_dossier(planche, dossier, noms) ==
  /\ plan = Blanc /\ page = Blanc /\ Len(lus) = NbPdfs
  /\ planche.lue => \E p \in Pdfs : lus[p].nature \in {"lue", "mixte"}
  /\ LET choisi == Choisir
         p == PremierPdf(choisi)
         suite ==
           IF choisi # {}
             THEN Plan(p, FALSE, IF lus[p].candidat.code THEN "document" ELSE Blanc,
                       {q \in Candidats \ {p} : ExtractionViable(q)})
           ELSE IF Candidats # {} /\ OrientationsDouteuses THEN Plan(Blanc, FALSE, Blanc, {})
           ELSE TenterReprise(planche, dossier, noms)
     IN plan' = [pdf |-> suite.pdf, reprise |-> suite.reprise, code |-> suite.code,
                 autres |-> suite.autres, dossier |-> dossier, noms |-> noms]
  /\ UNCHANGED <<page, lus, ecrit>>

(* The reference of the document, of the name of the file, of the folder.   *)
reprendre_code_depuis_nom ==
  IF plan.code # Blanc THEN plan.code
  ELSE IF plan.pdf \in plan.noms THEN "nom_fichier"
  ELSE IF plan.dossier THEN "nom_dossier"
  ELSE Blanc

deposer_dossier ==
  /\ plan # Blanc /\ ecrit = Blanc
  /\ LET code == IF plan.pdf = Blanc THEN Blanc ELSE reprendre_code_depuis_nom IN
     ecrit' = [statut |-> IF code = Blanc THEN "echec" ELSE "traite", code |-> code]
  /\ UNCHANGED <<page, lus, plan>>

NextLecture ==
  \/ \E i \in {"illisible", "sans_texte", "mixte"} : analyser_pdf(i)
  \/ \E g \in Gabarits : detecter_gabarit(g)
  \/ sans_gabarit
  \/ \E t \in TrouverLigne : executer_regle(t)
  \/ extraire_pages
  \/ \E s \in {1, 2}, m \in BOOLEAN : signaler_orientations_mixtes(s, m)
  \/ \E c \in {"formulaire", "planche", Blanc} : classer(c)
  \/ \E l, c, d \in BOOLEAN, n \in SUBSET NomsReference :
       (c => l) /\ scanner_dossier([lue |-> l, code |-> c], d, n)
  \/ deposer_dossier

----------------------------------------------------------------------------

(* What the head of a record says, the validation screen can show where it  *)
(* was read: each attribute has a trace of the value it has now, although   *)
(* later rules may keep it, write over it, or align the title on the type.  *)
TraceDeLaValeur ==
  (EnLecture("regles") \/ EnLecture("anomalies")) =>
    \A a \in Tetes : page.fiche[a] # Blanc => <<a, page.fiche[a]>> \in page.fiche.champs

(* A measurement form becomes the document of a record only as a reprise;   *)
(* no viable record of the folder is passed over for a lesser one, the      *)
(* others are cited; a reference comes from the document when it has one;   *)
(* and a folder is refused only when it holds no record that could be       *)
(* chosen and is damaged, of uncertain orientation or without a reference.  *)
DossierEntre ==
  ecrit # Blanc =>
    /\ plan.pdf # Blanc /\ ~plan.reprise =>
         /\ lus[plan.pdf].classe # "formulaire"
         /\ \A q \in Candidats \ {plan.pdf} : ExtractionViable(q) =>
              ExtractionViable(plan.pdf) /\ Devant(plan.pdf, q) /\ q \in plan.autres
         /\ lus[plan.pdf].candidat.code => ecrit.code = "document"
    /\ ecrit.statut = "echec" =>
         /\ \A q \in Candidats : ~ExtractionViable(q)
         /\ \/ Natures("illisible") # {} \/ OrientationsDouteuses
            \/ ~plan.dossier /\ (IF plan.pdf = Blanc THEN Pdfs ELSE {plan.pdf}) \cap plan.noms = {}

(* The value read is the value shown, and the folder gives the record it    *)
(* should, whatever rules and PDFs came before.                             *)
LectureTenue == TraceDeLaValeur /\ DossierEntre
=============================================================================
