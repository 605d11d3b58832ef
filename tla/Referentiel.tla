------------------------------ MODULE Referentiel ------------------------------
(***************************************************************************)
(* The models of boats, their labels, and what is linked to them: boats    *)
(* of the records and extractions of sails (referentiel_bateaux.py,        *)
(* liaison_voile.py).                                                      *)
(*                                                                         *)
(* A model is known by the label of its key.  A connection works in two    *)
(* steps: it reads, holding the row locks the code asks for, then writes   *)
(* and commits.  A write waits for the rows another connection holds.      *)
(***************************************************************************)
EXTENDS Naturals, FiniteSets

CONSTANTS
  Libelles,     \* normalised labels
  Bateaux,
  Extractions,
  Connexions,
  MaxFusions,   \* merges on record
  Nul

ASSUME HypReferentiel ==
  /\ IsFiniteSet(Libelles) /\ Nul \notin Libelles
  /\ \A l \in Libelles \cup {Nul}, b \in BOOLEAN : [fusion |-> l, actif |-> b] # Nul

VARIABLES
  modele,       \* boat_models, by key
  alias,        \* boat_model_aliases: the owner of each label
  bateau,
  extraction,   \* sail_extractions
  historique,   \* boat_model_merge_history: what each merge found
  transaction   \* what each connection has read and holds

varsReferentiel == <<modele, alias, bateau, extraction, historique, transaction>>

InitReferentiel ==
  /\ \E crees \in SUBSET Libelles :
       /\ modele = [l \in Libelles |-> IF l \in crees THEN [fusion |-> Nul, actif |-> TRUE] ELSE Nul]
       /\ alias = [l \in Libelles |-> IF l \in crees THEN l ELSE Nul]
  /\ bateau \in [Bateaux -> [nom : Libelles \cup {Nul}, modele : {Nul}]]
  /\ extraction \in [Extractions ->
       [brut : Libelles \cup {Nul}, bateau : Bateaux \cup {Nul}, statut : {"non_resolu"}, modele : {Nul}]]
  /\ historique = {}
  /\ transaction = [t \in Connexions |-> Nul]

Modeles == {m \in Libelles : modele[m] # Nul}
Vivant(m) == m \in Modeles /\ modele[m].fusion = Nul
EnTransaction(t, op) == transaction[t] # Nul /\ transaction[t].op = op

(* The chain of merges, followed to its end. *)
Pas(m) == IF m \in Modeles /\ ~Vivant(m) THEN modele[m].fusion ELSE m
resoudre_modele_final(m) ==
  LET suite[n \in 0..Cardinality(Libelles)] == IF n = 0 THEN m ELSE Pas(suite[n - 1])
  IN  suite[Cardinality(Libelles)]

resoudre_modele_depuis_texte(l) ==
  IF l = Nul THEN Nul
  ELSE IF alias[l] # Nul THEN resoudre_modele_final(alias[l])
  ELSE IF l \in Modeles THEN resoudre_modele_final(l)
  ELSE Nul

(* The rows nobody else holds. *)
Tenus(t) ==
  UNION {transaction[a].tient : a \in {b \in Connexions \ {t} : transaction[b] # Nul}}
Disponibles(t, lignes) == lignes \cap Tenus(t) = {}

Commencer(t, r) == transaction[t] = Nul /\ transaction' = [transaction EXCEPT ![t] = r]
Finir(t) == transaction' = [transaction EXCEPT ![t] = Nul]

(* A connection lost, or a refusal after a conflict: nothing is written. *)
annuler_transaction(t) ==
  /\ transaction[t] # Nul
  /\ Finir(t)
  /\ UNCHANGED <<modele, alias, bateau, extraction, historique>>

Lu == UNCHANGED <<modele, alias, bateau, extraction, historique>>

----------------------------------------------------------------------------
(* Labels.                                                                  *)

(* A label goes to a live model unless another one has it, as an alias or   *)
(* as its key.  The table is read again when the row was inserted in        *)
(* between, so what counts is what it holds at the commit.                  *)
Libre(l, m) == resoudre_modele_depuis_texte(l) \in {Nul, m}
Etiqueter(l, m) == IF alias[l] = Nul THEN [alias EXCEPT ![l] = m] ELSE alias

ajouter_alias(t, l, m) ==
  /\ transaction[t] = Nul
  /\ m \in Modeles
  /\ LET final == resoudre_modele_final(m) IN
       /\ Vivant(final)
       /\ Libre(l, final)
       /\ Disponibles(t, {final})
       /\ alias' = Etiqueter(l, final)
  /\ UNCHANGED <<modele, bateau, extraction, historique, transaction>>

(* The final model of a label, or a new one with the label for its key.     *)
assurer_modele(l) ==
  LET connu == resoudre_modele_depuis_texte(l) IN IF connu = Nul THEN l ELSE connu

Creer(m) == IF m \in Modeles THEN modele ELSE [modele EXCEPT ![m] = [fusion |-> Nul, actif |-> TRUE]]

(* The insertion of a model waits for another one of the same key and then  *)
(* reads again, as if it had read later; a label that went to another model *)
(* makes the creation fail.                                                 *)
Creable(r) == IF r.nouveau THEN r.modele \notin Modeles /\ alias[r.modele] = Nul ELSE TRUE

----------------------------------------------------------------------------
(* Boats.                                                                   *)

lire_bateau(t, b) ==
  /\ bateau[b].nom # Nul
  /\ Commencer(t, [op |-> "bateau", bateau |-> b, tient |-> {},
                   nouveau |-> resoudre_modele_depuis_texte(bateau[b].nom) = Nul,
                   modele |-> assurer_modele(bateau[b].nom)])
  /\ Lu

lier_bateau_au_modele(t) ==
  /\ EnTransaction(t, "bateau")
  /\ LET r == transaction[t] IN
       /\ Creable(r)
       /\ Disponibles(t, {r.modele, r.bateau})
       /\ modele' = Creer(r.modele)
       /\ alias' = Etiqueter(bateau[r.bateau].nom, r.modele)
       /\ bateau' = [bateau EXCEPT ![r.bateau].modele = r.modele]
  /\ Finir(t)
  /\ UNCHANGED <<extraction, historique>>

----------------------------------------------------------------------------
(* Merges.                                                                  *)

Entrants(m) == {e \in Modeles : modele[e].fusion = m}
BateauxDe(m) == {b \in Bateaux : bateau[b].modele = m}

(* Slip: the rows are read without being locked.                            *)
LireSansVerrouiller(t, source, cible) ==
  /\ source # cible
  /\ Cardinality(historique) < MaxFusions
  /\ Vivant(source) /\ Vivant(cible)
  /\ Commencer(t, [op |-> "fusion", source |-> source, cible |-> cible, tient |-> {},
                   bateaux |-> BateauxDe(source), entrants |-> Entrants(source)])
  /\ Lu

(* Both rows are locked together, then read; what the source has is read    *)
(* without a lock.                                                          *)
lire_fusion(t, source, cible) ==
  /\ source # cible
  /\ Cardinality(historique) < MaxFusions
  /\ Vivant(source) /\ Vivant(cible)
  /\ Disponibles(t, {source, cible})
  /\ Commencer(t, [op |-> "fusion", source |-> source, cible |-> cible, tient |-> {source, cible},
                   bateaux |-> BateauxDe(source), entrants |-> Entrants(source)])
  /\ Lu

FusionsDatees(entrants) == \A e \in entrants : ~Vivant(e)

(* The boats and the models read before are moved, whatever they became: a  *)
(* model that was unmerged meanwhile has no date of merge any more, and the *)
(* check of the table refuses the whole merge.                              *)
fusionner_modeles(t) ==
  /\ EnTransaction(t, "fusion")
  /\ LET r == transaction[t] IN
       /\ Disponibles(t, r.entrants \cup r.bateaux)
       /\ FusionsDatees(r.entrants)
       /\ modele' = [m \in Libelles |->
            IF m = r.source THEN [fusion |-> r.cible, actif |-> FALSE]
            ELSE IF m \in r.entrants THEN [modele[m] EXCEPT !.fusion = r.cible]
            ELSE modele[m]]
       /\ bateau' = [b \in Bateaux |->
            IF b \in r.bateaux THEN [bateau[b] EXCEPT !.modele = r.cible] ELSE bateau[b]]
       /\ historique' = historique \cup
            {[source |-> r.source, cible |-> r.cible, bateaux |-> r.bateaux, entrants |-> r.entrants]}
  /\ Finir(t)
  /\ UNCHANGED <<alias, extraction>>

(* The merges on record of a model into its current target; without any,    *)
(* the boats of the target whose label belongs to the model.                *)
Fusions(source) == {h \in historique : h.source = source /\ h.cible = modele[source].fusion}
Deduite(source) ==
  [source |-> source, cible |-> modele[source].fusion, entrants |-> {},
   bateaux |-> {b \in BateauxDe(modele[source].fusion) :
                  bateau[b].nom = source \/ alias[bateau[b].nom] = source}]

lire_defusion(t, source) ==
  /\ source \in Modeles /\ ~Vivant(source)
  /\ Disponibles(t, {source})
  /\ \E h \in IF Fusions(source) = {} THEN {Deduite(source)} ELSE Fusions(source) :
       Commencer(t, [op |-> "defusion", source |-> source, cible |-> h.cible, tient |-> {source},
                     bateaux |-> h.bateaux, entrants |-> h.entrants])
  /\ Lu

(* Only what is still attached to the target comes back.                    *)
defusionner_modele(t) ==
  /\ EnTransaction(t, "defusion")
  /\ LET r == transaction[t]
         boats == r.bateaux \cap BateauxDe(r.cible)
         models == r.entrants \cap Entrants(r.cible) IN
       /\ Disponibles(t, models \cup boats)
       /\ modele' = [m \in Libelles |->
            IF m = r.source THEN [fusion |-> Nul, actif |-> TRUE]
            ELSE IF m \in models THEN [modele[m] EXCEPT !.fusion = r.source]
            ELSE modele[m]]
       /\ bateau' = [b \in Bateaux |->
            IF b \in boats THEN [bateau[b] EXCEPT !.modele = r.source] ELSE bateau[b]]
  /\ Finir(t)
  /\ UNCHANGED <<alias, extraction, historique>>

----------------------------------------------------------------------------
(* Links of the extractions.                                                *)

(* The label and the boat of the record are the only proofs; they have to   *)
(* agree, and what merely looks alike is left to an operator.               *)
ModeleFiche(x) ==
  LET b == extraction[x].bateau IN
  IF b = Nul THEN Nul
  ELSE IF bateau[b].modele # Nul /\ bateau[b].nom = extraction[x].brut
    THEN resoudre_modele_final(bateau[b].modele)
  ELSE Nul

decider_resolution(x, brut) ==
  LET exact == resoudre_modele_depuis_texte(brut)
      fiche == IF brut = extraction[x].brut THEN ModeleFiche(x) ELSE Nul
      trouves == {exact, fiche} \ {Nul} IN
  IF brut = Nul THEN {[statut |-> "sans_modele", modele |-> Nul]}
  ELSE IF Cardinality(trouves) = 2 THEN {[statut |-> "ambigu", modele |-> Nul]}
  ELSE IF trouves # {} THEN {[statut |-> "lie_automatique", modele |-> m] : m \in trouves}
  ELSE {[statut |-> s, modele |-> Nul] : s \in {"ambigu", "non_resolu"}}

(* The extractions to resolve are chosen without a lock,                    *)
resoudre_extractions(t) ==
  /\ LET attente == {x \in Extractions : extraction[x].statut \in {"non_resolu", "ambigu"}} IN
       /\ attente # {}
       /\ Commencer(t, [op |-> "lot", reste |-> attente, tient |-> {}])
  /\ Lu

(* Slip: the status that chose the extraction is trusted.                   *)
LireSansRevoir(t, x) ==
  /\ EnTransaction(t, "lot")
  /\ x \in transaction[t].reste
  /\ Disponibles(t, {x})
  /\ \E d \in decider_resolution(x, extraction[x].brut) :
       transaction' = [transaction EXCEPT ![t] =
         [op |-> "resolution", extraction |-> x, decision |-> d, brut |-> extraction[x].brut,
          reste |-> @.reste \ {x}, tient |-> @.tient \cup {x}]]
  /\ Lu

(* then each is locked, and read again: a human link is left alone.         *)
lire_extraction(t, x) ==
  /\ EnTransaction(t, "lot")
  /\ x \in transaction[t].reste
  /\ Disponibles(t, {x})
  /\ IF extraction[x].statut = "lie_humain"
       THEN transaction' = [transaction EXCEPT ![t].reste = @ \ {x}]
       ELSE \E d \in decider_resolution(x, extraction[x].brut) :
              transaction' = [transaction EXCEPT ![t] =
                [op |-> "resolution", extraction |-> x, decision |-> d, brut |-> extraction[x].brut,
                 reste |-> @.reste \ {x}, tient |-> @.tient \cup {x}]]
  /\ Lu

(* A resolution also ends the correction of a label, whose link is opened   *)
(* again even when it was human.                                            *)
resoudre_extraction_curseur(t) ==
  /\ EnTransaction(t, "resolution")
  /\ LET r == transaction[t] IN
       /\ Disponibles(t, {r.decision.modele})
       /\ extraction' = [extraction EXCEPT ![r.extraction] =
            [@ EXCEPT !.brut = r.brut, !.statut = r.decision.statut, !.modele = r.decision.modele]]
       /\ transaction' = [transaction EXCEPT ![t] =
            IF r.reste = {} THEN Nul ELSE [op |-> "lot", reste |-> r.reste, tient |-> r.tient]]
  /\ UNCHANGED <<modele, alias, bateau, historique>>

corriger_libelle(t, x, brut) ==
  /\ Disponibles(t, {x})
  /\ brut # extraction[x].brut
  /\ \E d \in decider_resolution(x, brut) :
       Commencer(t, [op |-> "resolution", extraction |-> x, decision |-> d, brut |-> brut,
                     reste |-> {}, tient |-> {x}])
  /\ Lu

(* An operator names a model or a new label; the label of the extraction is *)
(* learnt as an alias of the model, or the whole decision is refused.       *)
lire_liaison(t, x, l, nouveau, apprendre) ==
  /\ Disponibles(t, {x})
  /\ nouveau \/ l \in Modeles
  /\ Commencer(t, [op |-> "liaison", extraction |-> x, tient |-> {x}, apprendre |-> apprendre,
                   nouveau |-> nouveau /\ resoudre_modele_depuis_texte(l) = Nul,
                   modele |-> IF nouveau THEN assurer_modele(l) ELSE resoudre_modele_final(l)])
  /\ Lu

lier_extraction(t) ==
  /\ EnTransaction(t, "liaison")
  /\ LET r == transaction[t]
         brut == extraction[r.extraction].brut
         appris == r.apprendre /\ brut \notin {Nul, r.modele}
         final == IF r.modele \in Modeles THEN resoudre_modele_final(r.modele) ELSE r.modele IN
       /\ Creable(r)
       /\ Disponibles(t, {r.modele, final})
       /\ appris => Libre(brut, final)
       /\ modele' = Creer(r.modele)
       /\ alias' = [l \in Libelles |->
            IF alias[l] # Nul THEN alias[l]
            ELSE IF l = r.modele /\ l \notin Modeles THEN r.modele
            ELSE IF appris /\ l = brut THEN final
            ELSE Nul]
       /\ extraction' = [extraction EXCEPT ![r.extraction] =
            [@ EXCEPT !.statut = "lie_humain", !.modele = r.modele]]
  /\ Finir(t)
  /\ UNCHANGED <<bateau, historique>>

----------------------------------------------------------------------------

NextBateaux ==
  \E t \in Connexions :
    \/ lier_bateau_au_modele(t) \/ \E b \in Bateaux : lire_bateau(t, b)
    \/ \E l, m \in Libelles : ajouter_alias(t, l, m)

NextFusions ==
  \E t \in Connexions :
    \/ fusionner_modeles(t) \/ defusionner_modele(t)
    \/ \E l \in Libelles : lire_defusion(t, l) \/ \E m \in Libelles : lire_fusion(t, l, m)

NextLiaisons ==
  \E t \in Connexions :
    \/ resoudre_extractions(t) \/ resoudre_extraction_curseur(t) \/ lier_extraction(t)
    \/ \E x \in Extractions, l \in Libelles :
         \/ lire_extraction(t, x)
         \/ corriger_libelle(t, x, l)
         \/ \E nouveau, apprendre \in BOOLEAN : lire_liaison(t, x, l, nouveau, apprendre)

----------------------------------------------------------------------------

(* Whoever merges, unmerges, creates models or learns labels at the same    *)
(* time, a label leads to one live model, whether it is read as an alias or *)
(* as the key of a model, and no chain of merges turns on itself.           *)
EtiquetteSure ==
  \A l \in Libelles :
    LET designes == {m \in {l, alias[l]} : m \in Modeles} IN
    \E vivant \in Libelles \cup {Nul} : \A m \in designes :
      Vivant(vivant) /\ resoudre_modele_final(m) = vivant

(* What an operator linked is not decided again by a batch, even one that   *)
(* had chosen the extraction before: only a new label opens the link.       *)
LiaisonHumaineTenue ==
  [][\A x \in Extractions :
       extraction[x].statut = "lie_humain" /\ extraction'[x].statut # "lie_humain" =>
         extraction'[x].brut # extraction[x].brut]_varsReferentiel

=============================================================================
