------------------------------ MODULE TopScreen ------------------------------
(***************************************************************************)
(* The Top screen after its viewDidLoad: what the user types and taps, the *)
(* currency list sheet over it, and calcurate, while the delegate queue    *)
(* commits new rates (loading itself is module TopFetch).                  *)
(*                                                                         *)
(* The main thread does not read the file but the version its Realm shows. *)
(* Nothing on the Top screen keeps a Realm between two events, so an event *)
(* there opens the newest version.  The rows of the currency list keep one *)
(* as long as the sheet is there: that one moves to the newest version     *)
(* when the run loop delivers Realm's notification and when an event       *)
(* begins a write, and until then an event reads the version it shows.     *)
(***************************************************************************)
EXTENDS RealmDB, Conversion

CONSTANTS
  Amounts,    \* integers the user enters
  MaxAnswers  \* bound: rate answers committed while the screen is up

ASSUME RatesArePositive == RateValues \subseteq Nat \ {0}

ASSUME AmountsAreIntegers == Amounts \subseteq Int

\* A rate is a Double already, and no conversion leaves Double's range.
ASSUME RatesAreDoubles ==
  \A rate \in RateValues : Double(rate)[1] = rate * Double(rate)[2]

ASSUME ConversionsAreInRange ==
  \A amount \in Amounts, rateFrom, rateTo \in RateValues :
    ConversionInRange(amount, rateFrom, rateTo)

ASSUME MaxAnswersIsNatural == MaxAnswers \in Nat

VARIABLES
  blocked,    \* the progress indicator covers the screen
  text,       \* Int(fromCurrencyTextField.text): <<amount>>, or <<>> for nil
  label,      \* toCurrencyLabel.text, in thousandths
  fromTitle,  \* title of fromCurrencyButton
  toTitle,    \* title of toCurrencyButton
  sheet,      \* the currency list over the screen
  calc,       \* the call of calcurate in progress
  shown,      \* the rate tables the main thread's Realm showed last
  answers     \* rate answers committed so far

titles == <<fromTitle, toTitle>>

vars == <<dbVars, blocked, text, label, titles, sheet, calc, shown, answers>>

(***************************************************************************)
(* open: the list is on the screen; closing: its viewWillDisappear was     *)
(* called, and the dismissal completes or, if the user drags the sheet up  *)
(* again, does not.                                                        *)
(***************************************************************************)
NoSheet == [state |-> "none", isFromButton |-> TRUE]

Sheets == [state : {"none", "open", "closing"}, isFromButton : BOOLEAN]

(***************************************************************************)
(* from: about to look up the rate of the from currency; to: about to look *)
(* up the other one.  The fields are calcurate's local constants.          *)
(***************************************************************************)
NoCalc == [at |-> "idle"]

Texts == {<<>>} \cup {<<n>> : n \in Amounts}

\* Int(text) ?? 0
AmountOf(t) == IF t = <<>> THEN 0 ELSE t[1]

StoredRates == [rateData |-> rateData, rates |-> rates]

\* gotUserPreferenceData with the first row of p: both button titles.
ShowTitles(p) ==
  /\ fromTitle' = p[1].fromCurrency
  /\ toTitle' = p[1].toCurrency

\* The screen as viewDidLoad and the first viewWillAppear leave it; the file
\* may hold the rates of an earlier launch.
Init ==
  /\ prefs = << [fromCurrency |-> defaultFromCurrency, toCurrency |-> defaultToCurrency] >>
  /\ currencyData = <<>>
  /\ currencies = [c \in {} |-> 0]
  /\ \/ rateData = <<>> /\ rates = [p \in {} |-> 0]
     \/ \E r \in RateListResponses :
          /\ rateData = << [timestamp |-> r.timestamp, source |-> r.source, savedAt |-> 0] >>
          /\ rates = r.quotes
  /\ blocked = TRUE
  /\ text = <<>>
  /\ label = 0
  /\ fromTitle = defaultFromCurrency
  /\ toTitle = defaultToCurrency
  /\ sheet = NoSheet
  /\ calc = NoCalc
  /\ shown = StoredRates
  /\ answers = 0

-----------------------------------------------------------------------------
(***************************************************************************)
(* calcurate                                                               *)
(***************************************************************************)

\* The main thread is not inside a handler.
MainIdle == calc = NoCalc

\* calcurate(fromAmount) up to the first rate lookup, in version v: without
\* an ExchangeRateData row it returns early.
Calcurate(fromAmount, v) ==
  calc' = IF v.rateData = <<>> THEN NoCalc
          ELSE [at |-> "from", fromAmount |-> fromAmount,
                source |-> v.rateData[1].source,
                fromCurrency |-> prefs[1].fromCurrency,
                toCurrency   |-> prefs[1].toCurrency]

\* Variant with a bug: every lookup opens the newest version.
NewestRates == rates

\* The rows a lookup reads: those of the version the call began with.
CalcRates == shown.rates

LookUpRateFrom ==
  /\ calc.at = "from"
  /\ LET code == <<calc.source, calc.fromCurrency>>
     IN  IF code \in DOMAIN CalcRates
         THEN /\ calc' = [at |-> "to", fromAmount |-> calc.fromAmount,
                          rateFrom |-> CalcRates[code],
                          codeTo   |-> <<calc.source, calc.toCurrency>>]
              /\ UNCHANGED label
         ELSE /\ calc' = NoCalc
              /\ label' = 0
  /\ UNCHANGED <<dbVars, blocked, text, titles, sheet, shown, answers>>

LookUpRateTo ==
  /\ calc.at = "to"
  /\ label' = IF calc.codeTo \in DOMAIN CalcRates
              THEN ShownResult(calc.fromAmount, calc.rateFrom, CalcRates[calc.codeTo])
              ELSE 0
  /\ calc' = NoCalc
  /\ UNCHANGED <<dbVars, blocked, text, titles, sheet, shown, answers>>

-----------------------------------------------------------------------------
(***************************************************************************)
(* Events of the Top screen.                                               *)
(***************************************************************************)

\* The user reaches the Top screen: no handler running, nothing over it.
TopActive == MainIdle /\ ~blocked /\ sheet = NoSheet

\* The first answer of either fetch hides the indicator: the rates may still
\* be on their way.
HideIndicator ==
  /\ MainIdle
  /\ blocked
  /\ blocked' = FALSE
  /\ UNCHANGED <<dbVars, text, label, titles, sheet, calc, shown, answers>>

SetIinitailValue ==
  /\ text' = <<>>
  /\ label' = 0

\* The preference is swapped and read back into the titles.
ExchangeCurrency ==
  /\ SetUserPreferenceData(prefs[1].toCurrency, prefs[1].fromCurrency)
  /\ ShowTitles(prefs')
  /\ shown' = StoredRates

\* calcurate opens the newest version: nothing kept an older one.
TextFieldChanged(t) ==
  /\ TopActive
  /\ text' = t
  /\ shown' = StoredRates
  /\ Calcurate(AmountOf(t), shown')
  /\ UNCHANGED <<dbVars, blocked, label, titles, sheet, answers>>

ExchangeButtonTapped ==
  /\ TopActive
  /\ SetIinitailValue
  /\ ExchangeCurrency
  /\ UNCHANGED <<currencyTables, rateTables, blocked, sheet, calc, answers>>

\* viewDidLoad of the list opens a Realm and keeps its rows.
CurrencyButtonTapped(isFromButton) ==
  /\ TopActive
  /\ sheet' = [state |-> "open", isFromButton |-> isFromButton]
  /\ shown' = StoredRates
  /\ UNCHANGED <<dbVars, blocked, text, label, titles, calc, answers>>

-----------------------------------------------------------------------------
(***************************************************************************)
(* The sheet, as far as it acts on the Top screen.                         *)
(***************************************************************************)

\* A tap on a row saves it; when the write throws, nothing is saved.  The
\* write moves the Realm to the newest version.
RowSelected(code) ==
  /\ MainIdle
  /\ sheet.state = "open"
  /\ SaveSelectedItem(code, sheet.isFromButton)
  /\ shown' = StoredRates
  /\ UNCHANGED <<currencyTables, rateTables, blocked, text, label, titles, sheet, calc, answers>>

\* Variant with a bug: the Top screen is not told that the list goes.
SheetDisappearsUnnoticed ==
  /\ MainIdle
  /\ sheet.state = "open"
  /\ sheet' = [sheet EXCEPT !.state = "closing"]
  /\ UNCHANGED <<dbVars, blocked, text, label, titles, calc, shown, answers>>

\* The titles are read again, and an amount is converted again, in the
\* version the rows of the list hold.
ViewWillAppear ==
  /\ ShowTitles(prefs)
  /\ \/ text # <<>> /\ Calcurate(text[1], shown)
     \/ text = <<>> /\ UNCHANGED calc

\* viewWillDisappear of the list runs viewWillAppear of the Top screen.
SheetWillDisappear ==
  /\ MainIdle
  /\ sheet.state = "open"
  /\ sheet' = [sheet EXCEPT !.state = "closing"]
  /\ ViewWillAppear
  /\ UNCHANGED <<dbVars, blocked, text, label, shown, answers>>

SheetGone ==
  /\ MainIdle
  /\ sheet.state = "closing"
  /\ sheet' = NoSheet
  /\ UNCHANGED <<dbVars, blocked, text, label, titles, calc, shown, answers>>

\* The user drags the sheet down and up again.
DismissalCancelled ==
  /\ MainIdle
  /\ sheet.state = "closing"
  /\ sheet' = [sheet EXCEPT !.state = "open"]
  /\ UNCHANGED <<dbVars, blocked, text, label, titles, calc, shown, answers>>

-----------------------------------------------------------------------------

\* The run loop delivers a commit to the Realm the list keeps.
RealmRefreshed ==
  /\ MainIdle
  /\ sheet # NoSheet
  /\ shown # StoredRates
  /\ shown' = StoredRates
  /\ UNCHANGED <<dbVars, blocked, text, label, titles, sheet, calc, answers>>

\* The delegate queue commits an answer of the live endpoint, at any time.
RatesSaved(response) ==
  /\ answers < MaxAnswers
  /\ answers' = answers + 1
  /\ SaveRateData(response, 0)
  /\ UNCHANGED <<prefs, currencyTables, blocked, text, label, titles, sheet, calc, shown>>

Next ==
  \/ HideIndicator
  \/ \E t \in Texts : TextFieldChanged(t)
  \/ ExchangeButtonTapped
  \/ \E isFromButton \in BOOLEAN : CurrencyButtonTapped(isFromButton)
  \/ \E code \in Codes : RowSelected(code)
  \/ SheetWillDisappear
  \/ SheetGone
  \/ DismissalCancelled
  \/ LookUpRateFrom
  \/ LookUpRateTo
  \/ RealmRefreshed
  \/ \E r \in RateListResponses : RatesSaved(r)

Spec == Init /\ [][Next]_vars

\* A handler that runs goes on, the indicator goes away and a Realm that is
\* kept is refreshed; the user and the network promise nothing.
FairSpec ==
  /\ Spec
  /\ WF_vars(HideIndicator)
  /\ WF_vars(LookUpRateFrom)
  /\ WF_vars(LookUpRateTo)
  /\ WF_vars(RealmRefreshed)

-----------------------------------------------------------------------------
(***************************************************************************)
(* Properties.                                                             *)
(***************************************************************************)

CalcTypeOK ==
  \/ calc = NoCalc
  \/ calc \in [at : {"from"}, fromAmount : Amounts \cup {0}, source : Codes,
               fromCurrency : Codes, toCurrency : Codes]
  \/ calc \in [at : {"to"}, fromAmount : Amounts \cup {0}, rateFrom : RateValues,
               codeTo : Pairs]

TypeOK ==
  /\ DBTypeOK
  /\ Len(prefs) = 1
  /\ blocked \in BOOLEAN
  /\ text \in Texts
  /\ label \in Int
  /\ fromTitle \in Codes
  /\ toTitle \in Codes
  /\ sheet \in Sheets
  /\ CalcTypeOK
  /\ shown.rateData \in Seq(ExchangeRateData)
  /\ IsTable(shown.rates, Pairs, RateValues)
  /\ answers \in 0 .. MaxAnswers

\* What the label shows for an amount between two currencies under answer r.
ShownUnder(r, amount, from, to) ==
  LET codeFrom == <<r.source, from>>
      codeTo   == <<r.source, to>>
  IN  IF {codeFrom, codeTo} \subseteq DOMAIN r.quotes
      THEN ShownResult(amount, r.quotes[codeFrom], r.quotes[codeTo])
      ELSE 0

(***************************************************************************)
(* Between events, the label is zero or the conversion of exactly what the *)
(* text field and the two buttons show, computed from one answer of the    *)
(* service: never from the source of one answer and the rates of another,  *)
(* however the delegate queue commits during calcurate, and never left     *)
(* over from other currencies or another amount after an exchange, a       *)
(* selection or a cancelled dismissal.                                     *)
(***************************************************************************)
LabelIsOneConversion ==
  MainIdle =>
    \/ label = 0
    \/ \E r \in RateListResponses :
         label = ShownUnder(r, AmountOf(text), fromTitle, toTitle)

(***************************************************************************)
(* A number on the label is within half a thousandth of the exact quotient *)
(* amount / rateFrom * rateTo of one answer's rates, plus what three       *)
(* roundings of Double may add: four halves of a unit in the last place of *)
(* the result (1000 * amount * rateTo / rateFrom / (2 * MinSignificand)    *)
(* each).  Both sides are multiplied by rateFrom.  A long amount does lose *)
(* its last digits in Double(fromAmount), and so the error of the label is *)
(* not bounded by half a thousandth, but the errors of the division and    *)
(* the multiplication do not make more of it than this.                    *)
(***************************************************************************)
LabelIsAccurate ==
  MainIdle /\ label # 0 =>
    \E r \in RateListResponses :
      LET codeFrom == <<r.source, fromTitle>>
          codeTo   == <<r.source, toTitle>>
      IN  /\ {codeFrom, codeTo} \subseteq DOMAIN r.quotes
          /\ LET exact == 1000 * (AmountOf(text) * r.quotes[codeTo])
             IN  Abs(label * r.quotes[codeFrom] - exact)
                   <= (MinSignificand * r.quotes[codeFrom] + 4 * Abs(exact))
                        \div (2 * MinSignificand)

(***************************************************************************)
(* Whenever the Top screen is uncovered, its button titles are the stored  *)
(* preference that calcurate will use: the list writes the preference, and *)
(* only its viewWillDisappear brings it to the screen below.               *)
(***************************************************************************)
TitlesArePreference ==
  sheet.state # "open" => titles = <<prefs[1].fromCurrency, prefs[1].toCurrency>>

(***************************************************************************)
(* An amount on the screen does not stay at "0" when it is worth at least  *)
(* a thousandth at the stored rates.  calcurate returned early if there    *)
(* were none when the amount was typed, and gotRateList only hides the     *)
(* indicator, so nothing calculates again until the next event.            *)
(***************************************************************************)
ConversionMissing ==
  /\ sheet = NoSheet
  /\ text # <<>>
  /\ label = 0
  /\ rateData # <<>>
  /\ LET codeFrom == <<rateData[1].source, fromTitle>>
         codeTo   == <<rateData[1].source, toTitle>>
     IN  /\ {codeFrom, codeTo} \subseteq DOMAIN rates
         /\ 1000 * Abs(AmountOf(text)) * rates[codeTo] >= rates[codeFrom]

AmountIsConverted == ConversionMissing ~> ~ConversionMissing
=============================================================================
