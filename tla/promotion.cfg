SPECIFICATION Spec
CONSTANTS
  f1 = f1
  f2 = f2
  f3 = f3
  a = a
  b = b
  Processus = {p1, p2}
  Fichiers = {f1, f2}
  Contenus = {a}
  Versions <- UneSeule
  Taille <- UnParFichier
  NombreAttendu = 2
  TailleAttendue = 2
  MemeCasse <- Aucune
  Imbriques <- Aucune
  Tronque = Tronque
  Abime = Abime
  Absent = Absent
  Personne = Personne
  DejaConnus = {f1, f2}
  Operations <- Tout
  MaxPannes = 1
  MaxFautes = 1
  MaxCopies = 2
  MaxLots = 1
SYMMETRY Symetries
CHECK_DEADLOCK FALSE
INVARIANTS LotComplet PromotionTenue
PROPERTIES TientSaPromesse
