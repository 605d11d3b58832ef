SPECIFICATION SpecEquitable
CONSTANTS
  Jobs = {j1}
  Workers = {w1}
  Aucun = Aucun
  MaxTentatives = 2
  StockageConfigure = TRUE
  SansCharge = {}
  PanneApresResultat = FALSE
  MaxPannes = 1
  MaxErreurs = 0
  MaxExpirations = 0
  MaxPertes = 1
  MaxDemarrages = 0
  MaxRejeux = 0
  MaxBalayages = 0
CHECK_DEADLOCK FALSE
PROPERTY ToutJobAboutit
