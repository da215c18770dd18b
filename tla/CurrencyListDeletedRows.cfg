SPECIFICATION Spec
CONSTANTS
  Codes <- MCCodes
  defaultFromCurrency = "USD"
  defaultToCurrency = "JPY"
  RateValues = {}
  CurrencyListResponses <- MCCurrencyListResponses
  RateListResponses = {}
  TTL = 1
  Words <- MCWords
  Matches <- MCMatches
  Cells = 2
  MaxAnswers = 2
CHECK_DEADLOCK FALSE
INVARIANT RowsOnScreenAreUsable
