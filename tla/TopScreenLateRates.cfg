SPECIFICATION FairSpec
CONSTANTS
  Codes <- MCCodes
  defaultFromCurrency = "USD"
  defaultToCurrency = "JPY"
  RateValues = {1, 2}
  CurrencyListResponses = {}
  RateListResponses <- MCFewResponses
  TTL = 1
  Amounts = {0, 1}
  MinSignificand = 2
  Scales <- MCFewScales
  MaxAnswers = 1
PROPERTY AmountIsConverted
