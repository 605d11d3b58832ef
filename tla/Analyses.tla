------------------------------ MODULE Analyses ------------------------------
(***************************************************************************)
(* What the archive says of its records by comparing them: the scan that   *)
(* proposes duplicates (dedup/), the comparison of two sails               *)
(* (comparaison_voile.py) and the confidence in one of them                *)
(* (confiance_reutilisation.py).  All read in several transactions what    *)
(* imports and operators go on writing.                                    *)
(***************************************************************************)
EXTENDS Naturals, FiniteSets

CONSTANTS
  FichesVues,      \* the records, by their number
  Empreintes,      \* fingerprints of documents, numbers too
  Analystes,
  VoilesLues,      \* the rows of sail_extractions
  Modeles, Types, Dimensions,
  MinEchantillons,                \* rows without which there is no score
  MinParDimension, MinNotees,     \* rows that have a measure, measures that have a score
  ChevauchementMin,               \* measures in common
  Inconnu

ASSUME HypAnalyses == MinEchantillons \in Nat \ {0}

VARIABLES
  volet,       \* which of the two tables the behaviour is about
  pieces,      \* of each record: the fingerprints of its documents
  titres,      \* of each record: its normalised title
  liens,       \* fiche_lien, committed
  balayage,    \* of each operator: the scan under way
  voiles,
  evaluation,  \* the evaluation under way
  evaluees     \* evaluations_confiance: the last row

varsAnalyses == <<volet, pieces, titres, liens, balayage, voiles, evaluation, evaluees>>

VoileLue ==
  [modele : Modeles \cup {Inconnu}, type : Types \cup {Inconnu}, plausible : BOOLEAN,
   dims : SUBSET Dimensions]

PasDeBalayage ==
  [etape |-> "attend", applique |-> FALSE, liste |-> {}, ecrits |-> {}, crees |-> 0, exacts |-> {}]
PasDEvaluation == [etape |-> "attend", candidat |-> Inconnu, vue |-> Inconnu]

InitAnalyses ==
  /\ volet \in {"doublons", "voiles"}
  /\ pieces = [f \in FichesVues |-> {}]
  /\ titres \in {[f \in FichesVues |-> 0], [f \in FichesVues |-> f]}
  /\ volet = "voiles" => titres = [f \in FichesVues |-> f]
  /\ liens = {} /\ balayage = [o \in Analystes |-> PasDeBalayage]
  /\ voiles = [v \in VoilesLues |-> [modele |-> Inconnu, type |-> Inconnu, plausible |-> TRUE, dims |-> {}]]
  /\ evaluation = PasDEvaluation /\ evaluees = Inconnu

----------------------------------------------------------------------------
(* Duplicates.                                                             *)

Paires == {p \in FichesVues \X FichesVues : p[1] < p[2]}
Partageuses(e) == {f \in FichesVues : e \in pieces[f]}

(* An import joins a document to a record.                                 *)
joindre_piece ==
  /\ volet = "doublons"
  /\ \E f \in FichesVues, e \in Empreintes :
       e \notin pieces[f] /\ pieces' = [pieces EXCEPT ![f] = @ \cup {e}]
  /\ UNCHANGED <<volet, titres, liens, balayage, voiles, evaluation, evaluees>>

Lien(type, p) == [paire |-> p, type |-> type]
LiensDe(type, paires, nombre, e) ==
  {[lien |-> Lien(type, p), nombre |-> nombre, empreinte |-> e] : p \in paires}

(* The order of the list: the groups of the most records first, then those *)
(* of the first fingerprint; the probable pairs, of no group, come last.   *)
Avant(p, q) == p[1] < q[1] \/ (p[1] = q[1] /\ p[2] < q[2])
Devance(k, l) ==
  \/ k.nombre > l.nombre
  \/ /\ k.nombre = l.nombre
     /\ \/ k.empreinte < l.empreinte
        \/ k.empreinte = l.empreinte /\ Avant(k.lien.paire, l.lien.paire)

(* The fingerprints of several records: each group gives all its pairs,    *)
(* whether another group gives them or not.                                *)
doublons_exacts ==
  UNION {LiensDe("doublon_exact", {p \in Paires : {p[1], p[2]} \subseteq Partageuses(e)},
                 Cardinality(Partageuses(e)), e) : e \in Empreintes}

doublons_probables ==
  LiensDe("doublon_probable", {p \in Paires : titres[p[1]] = titres[p[2]]}, 0, 0)

Balayer(o, valeurs) ==
  /\ volet = "doublons"
  /\ balayage' = [balayage EXCEPT ![o] = valeurs]
  /\ UNCHANGED <<volet, pieces, titres, voiles, evaluation, evaluees>>

(* One transaction reads the groups, another the titles.  exacts keeps,    *)
(* for the property, the pairs that shared a document.                     *)
route_scan(o, applique) ==
  /\ balayage[o].etape = "attend" /\ UNCHANGED liens
  /\ Balayer(o, [PasDeBalayage EXCEPT !.etape = "titres", !.applique = applique,
       !.liste = doublons_exacts, !.exacts = {k.lien.paire : k \in doublons_exacts}])
lire_probables(o) ==
  /\ balayage[o].etape = "titres" /\ UNCHANGED liens
  /\ Balayer(o, [balayage[o] EXCEPT !.etape = "ecrit", !.liste = @ \cup doublons_probables])

Ailleurs(o, l) == \E q \in Analystes \ {o} : l \in balayage[q].ecrits

(* Slip: a row another scan has not committed yet is taken for present.    *)
VisibleAvantValidation(o, l) == l \in liens \cup balayage[o].ecrits \/ Ailleurs(o, l)

Visible(o, l) == l \in liens \cup balayage[o].ecrits

(* The third transaction: the list is counted, or inserted ON CONFLICT DO  *)
(* NOTHING; an insertion waits for the scan that has the same row open.    *)
compter_liens(o) ==
  /\ balayage[o].etape = "ecrit" /\ ~balayage[o].applique /\ UNCHANGED liens
  /\ Balayer(o, [PasDeBalayage EXCEPT !.etape = "fini",
       !.crees = Cardinality({k \in balayage[o].liste : ~Visible(o, k.lien)})])
inserer_lien(o) ==
  /\ balayage[o].etape = "ecrit" /\ balayage[o].applique /\ UNCHANGED liens
  /\ \E k \in balayage[o].liste :
       /\ \A q \in balayage[o].liste \ {k} : Devance(k, q)
       /\ \/ Visible(o, k.lien) /\ Balayer(o, [balayage[o] EXCEPT !.liste = @ \ {k}])
          \/ /\ ~Visible(o, k.lien) /\ ~Ailleurs(o, k.lien)
             /\ Balayer(o, [balayage[o] EXCEPT !.liste = @ \ {k}, !.ecrits = @ \cup {k.lien},
                                               !.crees = @ + 1])
valider_liens(o) ==
  /\ balayage[o].etape = "ecrit" /\ balayage[o].applique /\ balayage[o].liste = {}
  /\ liens' = liens \cup balayage[o].ecrits
  /\ Balayer(o, [balayage[o] EXCEPT !.etape = "fini", !.ecrits = {}])
(* The connection is lost, or the base ends one of two scans that wait for *)
(* each other.                                                             *)
perdre_balayage(o) ==
  /\ balayage[o].etape \in {"titres", "ecrit"} /\ UNCHANGED liens
  /\ Balayer(o, PasDeBalayage)

(* What the banner of a record shows, the proved ones first.               *)
liens_dune_fiche(f) == {l \in liens : f \in {l.paire[1], l.paire[2]}}
Bandeau(f, g) ==
  LET types == {l.type : l \in {k \in liens_dune_fiche(f) : g \in {k.paire[1], k.paire[2]}}}
  IN IF "doublon_exact" \in types THEN "doublon_exact"
     ELSE IF types # {} THEN "doublon_probable" ELSE Inconnu

----------------------------------------------------------------------------
(* Sails.  A correction, a link or a merge changes a row, until the        *)
(* evaluation is looked at.                                                *)

changer_voile ==
  /\ volet = "voiles" /\ evaluation.etape # "fini"
  /\ \E v \in VoilesLues, r \in VoileLue : r # voiles[v] /\ voiles' = [voiles EXCEPT ![v] = r]
  /\ UNCHANGED <<volet, pieces, titres, liens, balayage, evaluation, evaluees>>

EtatDeLaDimension(a, b, d) ==
  IF d \in a.dims /\ d \in b.dims THEN "comparable"
  ELSE IF d \in b.dims THEN "manquant_a"
  ELSE IF d \in a.dims THEN "manquant_b" ELSE "manquant_des_deux"
Communes(etats) == {d \in Dimensions : etats[d] = "comparable"}
MemeModele(a, b) == Inconnu \notin {a.modele, b.modele} /\ a.modele = b.modele
MemeType(a, b) == a.type # Inconnu /\ a.type = b.type

Avertissements(a, b, communes) ==
  (IF Inconnu \in {a.modele, b.modele} THEN {"non_liee"}
   ELSE IF ~MemeModele(a, b) THEN {"modeles"} ELSE {})
  \cup (IF MemeType(a, b) THEN {} ELSE IF Inconnu \in {a.type, b.type} THEN {"type_non_lu"} ELSE {"types"})
  \cup (IF a.plausible /\ b.plausible THEN {} ELSE {"implausible"})
  \cup (IF Cardinality(communes) < ChevauchementMin THEN {"chevauchement"} ELSE {})

comparer_extractions(a, b) ==
  LET etats == [d \in Dimensions |-> EtatDeLaDimension(a, b, d)] IN
  [comparable |-> MemeModele(a, b) /\ MemeType(a, b), etats |-> etats,
   avertissements |-> Avertissements(a, b, Communes(etats))]

candidats_comparaison(v) ==
  IF voiles[v].modele = Inconnu THEN {}
  ELSE {w \in VoilesLues \ {v} :
          /\ voiles[w].modele = voiles[v].modele
          /\ voiles[w].type = voiles[v].type /\ voiles[v].type # Inconnu}

(* _charger_population: the type may be unread on both sides here.         *)
charger_population(modele, type, v) ==
  {w \in VoilesLues \ {v} :
     /\ voiles[w].modele = modele /\ voiles[w].plausible
     /\ voiles[w].type = type /\ voiles[w].dims # {}}

(* Which measures disperse too much, and the score, are a choice.          *)
Notables(population) ==
  {d \in Dimensions : Cardinality({w \in population : d \in voiles[w].dims}) >= MinParDimension}
evaluer_population(candidat, population) ==
  LET communes == Notables(population) IN
  IF Cardinality(population) < MinEchantillons THEN {"donnees_insuffisantes"}
  ELSE UNION {IF communes # {} /\ 2 * Cardinality(disperses) >= Cardinality(communes) THEN {"heterogene"}
              ELSE IF Cardinality(communes \cap candidat.dims) < MinNotees THEN {"donnees_insuffisantes"}
              ELSE {"a_examiner", "compatible"} : disperses \in SUBSET communes}

Evaluer(valeurs) ==
  /\ volet = "voiles"
  /\ evaluation' = valeurs
  /\ UNCHANGED <<volet, pieces, titres, liens, balayage, voiles>>

(* A row without a model is refused; each statement then reads what is     *)
(* committed at its moment.                                                *)
lire_candidat(v) ==
  /\ evaluation.etape # "lu" /\ voiles[v].modele # Inconnu
  /\ Evaluer([etape |-> "lu", candidat |-> v, vue |-> voiles[v]])
  /\ evaluees' = Inconnu

(* The population is read and the evaluation inserted; population keeps,   *)
(* for the property, the rows it counted.                                  *)
evaluer_extraction ==
  /\ evaluation.etape = "lu"
  /\ LET lues == charger_population(evaluation.vue.modele, evaluation.vue.type, evaluation.candidat) IN
     \E verdict \in evaluer_population(evaluation.vue, lues) :
       evaluees' = [modele |-> evaluation.vue.modele, type |-> evaluation.vue.type, verdict |-> verdict,
                    population |-> {voiles[w] : w \in lues}]
  /\ Evaluer([PasDEvaluation EXCEPT !.etape = "fini"])

NextAnalyses ==
  \/ joindre_piece
  \/ \E o \in Analystes :
       \/ \E applique \in BOOLEAN : route_scan(o, applique)
       \/ lire_probables(o) \/ compter_liens(o) \/ inserer_lien(o)
       \/ valider_liens(o) \/ perdre_balayage(o)
  \/ changer_voile
  \/ \E v \in VoilesLues : lire_candidat(v)
  \/ evaluer_extraction

----------------------------------------------------------------------------

(* Each link of the table was created by one scan, and each applied scan   *)
(* that has ended reports as many as it created: two scans at once, a pair *)
(* several documents give, a scan the base ended.                          *)
Annonces(o) == IF balayage[o].etape = "fini" /\ balayage[o].applique THEN balayage[o].crees ELSE 0
LiensComptes ==
  \E createur \in [liens -> Analystes] :
    \A o \in Analystes : Cardinality({l \in liens : createur[l] = o}) = Annonces(o)

(* Once an applied scan has ended, both records of a pair that shared a    *)
(* document when it read show it as proved, even if the scan that had      *)
(* inserted the row first was lost.                                        *)
BandeauComplet ==
  \A o \in Analystes : balayage[o].etape = "fini" /\ balayage[o].applique =>
    \A p \in balayage[o].exacts :
      Bandeau(p[1], p[2]) = "doublon_exact" /\ Bandeau(p[2], p[1]) = "doublon_exact"

(* A sail proposed for comparison is comparable and the reverse, a         *)
(* comparison without a warning is one of two plausible sails of a model   *)
(* and a type, the other way round it warns of the same, and confidence    *)
(* counts no sail that could not be compared, unless the type was read of  *)
(* neither.                                                                *)
CandidatsComparables ==
  \A v, w \in VoilesLues : v # w =>
    LET c == comparer_extractions(voiles[v], voiles[w])
        population == charger_population(voiles[v].modele, voiles[v].type, v)
    IN /\ w \in candidats_comparaison(v) <=> c.comparable
       /\ LET inverse == comparer_extractions(voiles[w], voiles[v]) IN
          /\ inverse.avertissements = c.avertissements
          /\ Communes(inverse.etats) = Communes(c.etats)
       /\ c.avertissements = {} => c.comparable /\ voiles[v].plausible /\ voiles[w].plausible
       /\ w \in population /\ voiles[v].modele # Inconnu /\ voiles[v].type # Inconnu => c.comparable

(* A score is kept under the model and the type of the sails it counted,   *)
(* although the row it is about moved between the reads.                   *)
EvaluationDUnModele ==
  evaluees # Inconnu /\ evaluees.verdict \in {"a_examiner", "compatible"} =>
    /\ evaluees.population # {}
    /\ \A r \in evaluees.population :
         r.plausible /\ r.modele = evaluees.modele /\ r.type = evaluees.type

(* What is said of the records by comparing them is what they held.        *)
AnalyseTenue == LiensComptes /\ BandeauComplet /\ CandidatsComparables /\ EvaluationDUnModele
=============================================================================
