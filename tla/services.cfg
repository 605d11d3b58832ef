SPECIFICATION Spec
CONSTANTS
  Fiches = {f1}
  Approbateurs = {a1, a2}
  Demandeurs = {u1}
  Depots = {w1}
  Valeurs = {v0, v1}
  Aucun = Aucun
  MaxRevision = 3
  MaxSimultanes = 2
  Demandes = {d1}
  AutoApprobation = FALSE
  Libelles = {v0, v1, l2}
  Bateaux = {b1}
  Extractions = {x1}
  Connexions = {a1, a2}
  MaxFusions = 2
  Nul = Nul
  Fichiers = {f1}
  Octets = {v0, v1}
  Rien = Rien
  Imports = {i1}
  MaxDates = 2
  MaxCles = 2
  MaxPertes = 1
  FichesAnciennes = {f1}
  AdressePublique = TRUE
  Deploiements <- Acteurs
SYMMETRY Symetrie
CHECK_DEADLOCK FALSE
INVARIANTS
  EtiquetteSure
  CaptureGardee
  SauvegardeFidele
  ServiConforme
PROPERTIES
  RespecteArchive
  DecisionSurCeQuiEstLu
  UneSeuleExecution
  LiaisonHumaineTenue
  PurgeSansPerte
