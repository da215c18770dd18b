SPECIFICATION Spec
CONSTANTS
  Codes <- MCCodes
  defaultFromCurrency = "USD"
  defaultToCurrency = "JPY"
  RateValues = {4, 10, 11, 20, 214, 222, 230}
  CurrencyListResponses = {}
  RateListResponses <- MCRateListResponses
  TTL = 1
  Amounts <- MCAmounts
  MinSignificand = 256
  Scales <- MCScales
  MaxAnswers = 2
INVARIANTS TypeOK LabelIsOneConversion LabelIsAccurate TitlesArePreference
