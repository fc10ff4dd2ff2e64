SPECIFICATION CapitalSpec
CONSTANTS
  Amounts = {1, 2}
  WithNaN = FALSE
  Reports = {"none"}
  Waves = {"clean", "return"}
VIEW Judgeable
PROPERTIES PassMeansWithin WithholdingNeverHelps
