SPECIFICATION Spec
CONSTANTS
  Jobs = {j1}
  Workers = {w1, w2}
  Aucun = Aucun
  MaxTentatives = 2
  StockageConfigure = TRUE
  SansCharge = {}
  PanneApresResultat = FALSE
  MaxPannes = 0
  MaxErreurs = 0
  MaxExpirations = 1
  MaxPertes = 0
  MaxDemarrages = 0
  MaxRejeux = 0
  MaxBalayages = 1
CHECK_DEADLOCK FALSE
SYMMETRY SymetrieWorkers
INVARIANT SectionSerialisee
PROPERTIES ProprietaireSeulEcrit RespecteCycle
