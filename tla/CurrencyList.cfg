SPECIFICATION Spec
CONSTANTS
  Codes <- MCCodes
  defaultFromCurrency = "USD"
  defaultToCurrency = "JPY"
  RateValues = {}
  CurrencyListResponses <- MCCurrencyListResponses
  RateListResponses = {}
  TTL = 1
  Words <- MCWords
  Matches <- MCMatches
  Cells = 2
  MaxAnswers = 2
INVARIANTS TypeOK CheckmarkIsSelection SelectionIsStored
PROPERTY OnlyStoredCurrencyIsSaved
CHECK_DEADLOCK FALSE
