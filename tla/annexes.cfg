SPECIFICATION AnnexesSpec
CONSTANTS
  Appels = {c1, c2, c3}
  Quantites = {1, 2}
  MaxArrets = 1
  Rien = Rien
  SoldeDepart = 1
  ComptesReport = TRUE
  Seuil = 2
  SeuilSucces = 2
  MaxReprises = 1
  MaxEchecs = 4
  Lots = 2
  MaxEssais = 2
  Saisies = {t1, t2}
  MaxFlux = 2
  MaxCharge = 3
  MaxEnnuis = 2
INVARIANTS AnnexesTypeOK RechargeExacte CaisseExacte StockExact ReportComplet
INVARIANTS OuvertureJustifiee EnvoiUnique LivraisonFidele
PROPERTIES SaisieTentee
CHECK_DEADLOCK FALSE
