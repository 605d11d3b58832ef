SPECIFICATION Spec
CONSTANTS
  Jobs = {j1}
  Workers = {w1, w2}
  Aucun = Aucun
  MaxTentatives = 2
  StockageConfigure = TRUE
  SansCharge = {}
  PanneApresResultat = FALSE
  MaxPannes = 1
  MaxErreurs = 0
  MaxExpirations = 0
  MaxPertes = 0
  MaxDemarrages = 0
  MaxRejeux = 0
  MaxBalayages = 2
CHECK_DEADLOCK FALSE
SYMMETRY SymetrieWorkers
INVARIANTS AucunePerte PasDeRenvoiAveugle
