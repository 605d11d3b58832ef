------------------------------ MODULE Recherche ------------------------------
(***************************************************************************)
(* The search of records (recherche.py), for a text of several words and   *)
(* with no model of boat, synonym or embedding: the records come from the  *)
(* text of the record and from that of its documents, the facets count     *)
(* them by value.  The operator follows a facet while records change; the  *)
(* statements of one search do not share a snapshot.                       *)
(***************************************************************************)
EXTENDS Naturals, FiniteSets, FiniteSetsExt

CONSTANTS
  FichesTrouvables,
  Libelles,    \* values of an axis: type of sail, client...
  Mesures,     \* values of a dimension, positive
  SansValeur,
  Profondeur,  \* PROFONDEUR_SOURCES
  MaxReprises  \* corrections of records

ASSUME HypRecherche ==
  /\ IsFiniteSet(FichesTrouvables)
  /\ Profondeur \in Nat
  /\ SansValeur \notin Libelles \cup Mesures

VARIABLES
  fonds,     \* the records
  demande,   \* the search being made: text, filters, step, corrections at its start
  trouvees, \* the records it found; their order is left out
  facettes,  \* of the last search that ended: number of records of each value
  suivie,    \* the facet the operator follows: the number it announced, and when
  reprises

varsRecherche == <<fonds, demande, trouvees, facettes, suivie, reprises>>

SansFiltre == [libelle |-> SansValeur, cote |-> SansValeur, aValider |-> TRUE]
Etats == [libelle : Libelles \cup {SansValeur}, cote : Mesures \cup {SansValeur},
          texte : {"aucun", "fiche", "pdf", "deux"}, statut : {"a_valider"}]

InitRecherche ==
  /\ fonds \in [FichesTrouvables -> Etats]
  /\ demande = [etape |-> "repos", texte |-> FALSE, filtres |-> SansFiltre, date |-> 0]
  /\ trouvees = {}
  /\ facettes = SansValeur
  /\ suivie = SansValeur
  /\ reprises = 0

----------------------------------------------------------------------------
(* Filters.  A facet leaves out its own.                                    *)

fragment_filtres(f, filtres, exclure) ==
  /\ fonds[f].statut = "valide" \/ filtres.aValider
  /\ "libelle" \notin exclure /\ filtres.libelle # SansValeur => fonds[f].libelle = filtres.libelle
  /\ "cote" \notin exclure /\ filtres.cote # SansValeur => fonds[f].cote = filtres.cote

Retenues(S, exclure) == {f \in S : fragment_filtres(f, demande.filtres, exclure)}

Lexicales == {f \in FichesTrouvables : fonds[f].texte \in {"fiche", "deux"}}
ParDocuments == {f \in FichesTrouvables : fonds[f].texte \in {"pdf", "deux"}}

----------------------------------------------------------------------------
(* Sources: each stops at its depth, the best ones first.                   *)

Classements(S) == kSubset(Min({Cardinality(S), Profondeur}), S)

source_lexicale == Classements(Retenues(Lexicales, {}))
source_texte_pdf == Classements(Retenues(ParDocuments, {}))
liste_par_defaut == Classements(Retenues(FichesTrouvables, {}))

(* A record that both give appears once. *)
fusionner_rrf == {s \cup t : s \in source_lexicale, t \in source_texte_pdf}

(* The first statements: the records found. *)
rechercher_fiches ==
  /\ demande.etape = "sources"
  /\ trouvees' \in IF demande.texte THEN fusionner_rrf ELSE liste_par_defaut
  /\ demande' = [demande EXCEPT !.etape = "facettes", !.date = reprises]
  /\ UNCHANGED <<fonds, facettes, suivie, reprises>>

(* Slip: a facet counts without any of the filters of the other axes.       *)
BaseSansFiltres(axe) ==
  Retenues(IF demande.texte THEN Lexicales \cup ParDocuments ELSE FichesTrouvables, {"libelle", "cote"})

(* What a facet counts: the text, and the filters of the other axes. *)
base_facette(axe) ==
  Retenues(IF demande.texte THEN Lexicales \cup ParDocuments ELSE FichesTrouvables, {axe})

Compter(axe, valeurs, S) == [v \in valeurs |-> Cardinality({f \in S : fonds[f][axe] = v})]

(* The next ones: the facets, then the answer. *)
compter_facettes ==
  /\ demande.etape = "facettes"
  /\ facettes' = [libelle |-> Compter("libelle", Libelles, base_facette("libelle")),
                  cote |-> Compter("cote", Mesures, base_facette("cote")),
                  date |-> reprises]
  /\ demande' = [demande EXCEPT !.etape = "repos"]
  /\ UNCHANGED <<fonds, trouvees, suivie, reprises>>

----------------------------------------------------------------------------
(* The operator.                                                            *)

Demander(texte, filtres, s) ==
  /\ demande.etape = "repos"
  /\ demande' = [etape |-> "sources", texte |-> texte, filtres |-> filtres, date |-> reprises]
  /\ suivie' = s
  /\ UNCHANGED <<fonds, trouvees, facettes, reprises>>

nouvelle_recherche(texte, aValider) ==
  Demander(texte, [SansFiltre EXCEPT !.aValider = aValider], SansValeur)

(* Only values that are announced are shown. *)
suivre_facette(axe, v) ==
  /\ facettes # SansValeur
  /\ v \in DOMAIN facettes[axe] /\ facettes[axe][v] > 0
  /\ Demander(demande.texte, [demande.filtres EXCEPT ![axe] = v],
              [nombre |-> facettes[axe][v], date |-> facettes.date])

(* A record is validated, or its label corrected. *)
Reprendre(f, fiche) ==
  /\ reprises < MaxReprises
  /\ reprises' = reprises + 1
  /\ fonds' = [fonds EXCEPT ![f] = fiche]
  /\ UNCHANGED <<demande, trouvees, facettes, suivie>>

valider_fiche(f) == Reprendre(f, [fonds[f] EXCEPT !.statut = "valide"])
corriger_libelle(f, v) == Reprendre(f, [fonds[f] EXCEPT !.libelle = v])

NextRecherche ==
  \/ \E texte, aValider \in BOOLEAN : nouvelle_recherche(texte, aValider)
  \/ \E axe \in {"libelle", "cote"}, v \in Libelles \cup Mesures : suivre_facette(axe, v)
  \/ rechercher_fiches \/ compter_facettes
  \/ \E f \in FichesTrouvables : valider_fiche(f) \/ \E v \in Libelles : corriger_libelle(f, v)

----------------------------------------------------------------------------

(* The operator who follows a facet finds as many records as it announced,  *)
(* by whichever text they are found and whatever filters were set before,   *)
(* unless one changed between the count and the search, or no fewer than    *)
(* the depth of one source where the facet announced more than that depth.  *)
FacetteTenue ==
  demande.etape # "sources" /\ suivie # SansValeur /\ suivie.date = demande.date =>
    IF suivie.nombre <= Profondeur THEN Cardinality(trouvees) = suivie.nombre
    ELSE Cardinality(trouvees) \in Profondeur..suivie.nombre
=============================================================================
