SPECIFICATION CapitalSpec
CONSTANTS
  Amounts = {1, 2}
  WithNaN = TRUE
  Reports = {"none", "profit"}
  Waves = {"clean"}
PROPERTIES PassMeansWithin
