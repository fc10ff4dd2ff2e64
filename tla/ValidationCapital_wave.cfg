SPECIFICATION CapitalSpec
CONSTANTS
  Amounts = {1, 2}
  WithNaN = FALSE
  Reports = {"none", "profit"}
  Waves = {"clean", "return", "unreadable"}
PROPERTIES PassJudgesNoReturn
