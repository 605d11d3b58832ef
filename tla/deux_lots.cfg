SPECIFICATION Spec
CONSTANTS
  l1 = l1
  l2 = l2
  k1 = k1
  k2 = k2
  Lots <- DeuxLots
  Dossiers <- DeuxDossiers
  LotDe <- LotsDistincts
  CleDe <- MemeCle
  Illisibles = {}
  Workers = {w1, w2}
  Aucun = Aucun
  MaxTentatives = 1
  MaxPannes = 1
  MaxErreurs = 1
  MaxExpirations = 0
CHECK_DEADLOCK FALSE
SYMMETRY SymetrieWorkers
INVARIANT UneFicheParCle
