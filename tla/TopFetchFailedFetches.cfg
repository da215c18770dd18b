SPECIFICATION FairSpec
CONSTANTS
  Codes <- MCCodes
  defaultFromCurrency = "USD"
  defaultToCurrency = "JPY"
  RateValues = {"a"}
  CurrencyListResponses <- MCCurrencyListResponses
  RateListResponses <- MCRateListResponses
  TTL = 2
  MaxScenes = 1
  MaxNow = 1
PROPERTY IndicatorEndsWithFetches
