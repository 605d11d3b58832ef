SPECIFICATION Spec
CONSTANTS
  Jobs = {j1}
  Workers = {w1}
  Aucun = Aucun
  MaxTentatives = 2
  StockageConfigure = TRUE
  SansCharge = {}
  PanneApresResultat = TRUE
  MaxPannes = 1
  MaxErreurs = 1
  MaxExpirations = 1
  MaxPertes = 0
  MaxDemarrages = 1
  MaxRejeux = 1
  MaxBalayages = 1
CHECK_DEADLOCK FALSE
INVARIANT FinProuvee
