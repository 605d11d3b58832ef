SPECIFICATION Spec
CONSTANTS
  NbPages = 5
  Natives = {4}
  Nuits = {a1, a2}
  Documents = {v0, v1}
  Personne = Personne
  Classees = {f1}
  Mains = {a1, a2}
  Lus = {v0, v1}
  Vide = Vide
  MaxCorrections = 2
  Operateurs = {a1, a2}
  Donnees = {v0, v1}
  Sans = Sans
  MaxPertesVerrou = 1
  s1 = s1
  s2 = s2
  Sauveurs = {s1, s2}
  Service = s1
  Intervalle = 2
  MaxGenerations = 3
  Evenements = {v0, v1}
  Migrateurs = {a1, a2}
  Rien = Rien
  Processus = {a1, a2}
  NbMigrations = 3
  SurDocuments = {2, 3}
  FichesTrouvables = {a1, a2}
  Libelles = {v0, v1}
  Mesures = {1}
  SansValeur = SansValeur
  Profondeur = 1
  MaxReprises = 1
  Clients = {a1, a2}
  Sessions = {c1}
  MaxEchecs = 1
  Neant = Neant
  Chemins <- CheminsDeNoms
  Repli <- SansCasse
  MaxEnvois = 3
  Lecteurs = {a1, a2}
  Fenetre = 2
  Limite = 2
  MaxInstant = 4
  Absent = Absent
  Textes = {v0, v1}
  MaxLignes = 2
  SeuilEmpreinte = 1
  MaxVersions = 1
  NonLu = NonLu
  FichesVues = {1, 2, 3}
  Empreintes = {1, 2}
  Analystes = {a1, a2}
  VoilesLues = {a1, a2}
  Modeles = {v0, v1}
  Types = {t1}
  Dimensions = {x1}
  MinEchantillons = 1
  ChevauchementMin = 1
  MinParDimension = 1
  MinNotees = 1
  Inconnu = Inconnu
  NbPdfs = 2
  Gabarits <- GabaritsEmbarques
  NomsFfab = {2}
  NomsReference = {2}
  Blanc = Blanc
  Suivies <- Toutes
SYMMETRY Symetrie
CHECK_DEADLOCK FALSE
INVARIANTS
  TexteDeLaPage
  PagesUneFois
  RapportDesDonnees
  CopieAnnoncee
  ChaineLineaire
  MigrationsSures
  FacetteTenue
  RevocationEffective
  EntreeHonnete
  AnalyseTenue
  LectureTenue
PROPERTIES
  CategorieDecidee
  CorrectionGardee
