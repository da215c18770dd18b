SPECIFICATION FairSpec
CONSTANTS
  Codes <- MCCodes
  defaultFromCurrency = "USD"
  defaultToCurrency = "JPY"
  RateValues = {"a"}
  CurrencyListResponses <- MCCurrencyListResponses
  RateListResponses <- MCTwoMoments
  TTL = 2
  MaxScenes = 2
  MaxNow = 2
INVARIANTS TypeOK IndicatorAccountedFor HiddenOnlyAfterData RatesAreOneAnswer
PROPERTIES RateRequestOnlyWhenStale IndicatorEventuallyHidden
