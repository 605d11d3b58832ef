SPECIFICATION SpecEquitable
CONSTANTS
  l1 = l1
  l2 = l2
  k1 = k1
  k2 = k2
  Lots <- UnLot
  Dossiers <- DeuxDossiers
  LotDe <- MemeLot
  CleDe <- ClesDistinctes
  Illisibles = {2}
  Workers = {w1, w2}
  Aucun = Aucun
  MaxTentatives = 2
  MaxPannes = 0
  MaxErreurs = 1
  MaxExpirations = 1
CHECK_DEADLOCK FALSE
INVARIANTS JamaisRefait ArretEntreDeuxDossiers FinSansReste
PROPERTIES LotAboutit
