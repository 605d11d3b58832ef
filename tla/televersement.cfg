SPECIFICATION Spec
CONSTANTS
  f1 = f1
  f2 = f2
  f3 = f3
  a = a
  b = b
  Processus = {p1, p2}
  Fichiers = {f1, f2, f3}
  Contenus = {a, b}
  Versions <- DeuxDeF1
  Taille <- UnParFichier
  NombreAttendu = 2
  TailleAttendue = 2
  MemeCasse <- UneMemeCasse
  Imbriques <- UnImbrique
  Tronque = Tronque
  Abime = Abime
  Absent = Absent
  Personne = Personne
  DejaConnus = {}
  Operations <- Transfert
  MaxPannes = 1
  MaxFautes = 0
  MaxCopies = 1
  MaxLots = 2
SYMMETRY SymetrieProcessus
CHECK_DEADLOCK FALSE
INVARIANTS AccuseTenu UnSeulLotRendu AnnulationDefinitive
