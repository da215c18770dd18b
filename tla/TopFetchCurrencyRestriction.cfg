SPECIFICATION Spec
CONSTANTS
  Codes <- MCCodes
  defaultFromCurrency = "USD"
  defaultToCurrency = "JPY"
  RateValues = {"a"}
  CurrencyListResponses <- MCCurrencyListResponses
  RateListResponses <- MCRateListResponses
  TTL = 2
  MaxScenes = 3
  MaxNow = 3
PROPERTY CurrencyRequestOnlyWhenStale
