--------------------------- MODULE TopScreen_proofs ---------------------------
(***************************************************************************)
(* Proofs about TopScreen, for every set of codes, every set of answers    *)
(* with positive rates, every amount and any number of answers.            *)
(***************************************************************************)
EXTENDS TopScreen, TLAPS

-----------------------------------------------------------------------------
(***************************************************************************)
(* Titles.                                                                 *)
(***************************************************************************)

LEMMA InitTitles == Init => TitlesArePreference
  BY DEF Init, TitlesArePreference, titles

LEMMA NextTitles == TitlesArePreference /\ [Next]_vars => TitlesArePreference'
  <1> SUFFICES ASSUME TitlesArePreference, [Next]_vars PROVE TitlesArePreference'
    OBVIOUS
  <1> USE DEF TitlesArePreference, titles
  <1>1. CASE UNCHANGED <<prefs, titles, sheet>>
    BY <1>1
  <1>2. CASE ExchangeButtonTapped
    BY <1>2 DEF ExchangeButtonTapped, ExchangeCurrency, ShowTitles
  <1>3. ASSUME NEW from \in BOOLEAN, CurrencyButtonTapped(from)
        PROVE  TitlesArePreference'
    BY <1>3 DEF CurrencyButtonTapped
  <1>4. ASSUME NEW code \in Codes, RowSelected(code)
        PROVE  TitlesArePreference'
    BY <1>4 DEF RowSelected
  <1>5. CASE SheetWillDisappear
    BY <1>5 DEF SheetWillDisappear, ViewWillAppear, ShowTitles, dbVars
  <1>6. CASE SheetGone
    BY <1>6 DEF SheetGone, NoSheet, dbVars
  <1>7. CASE DismissalCancelled
    <2>1. sheet' = [sheet EXCEPT !.state = "open"] /\ UNCHANGED <<prefs, titles>>
      BY <1>7 DEF DismissalCancelled, dbVars
    <2>. QED
      BY <1>7, <2>1 DEF DismissalCancelled
  <1>. QED
    BY <1>1, <1>2, <1>3, <1>4, <1>5, <1>6, <1>7
    DEF Next, vars, dbVars, HideIndicator, TextFieldChanged, LookUpRateFrom, LookUpRateTo,
        RealmRefreshed, RatesSaved

(***************************************************************************)
(* Whenever the currency list does not cover it, the Top screen's button   *)
(* titles are the stored preference (gotUserPreferenceData, and            *)
(* viewWillDisappear of the list).                                         *)
(***************************************************************************)
THEOREM TitlesArePreferenceHolds == Spec => []TitlesArePreference
  BY InitTitles, NextTitles, PTL DEF Spec

-----------------------------------------------------------------------------
(***************************************************************************)
(* The label.                                                              *)
(***************************************************************************)

\* Nothing converts to nothing, at whatever rates.
LEMMA ZeroShown ==
  ASSUME NEW a \in Nat \ {0}, NEW b \in Nat
  PROVE  ShownResult(0, a, b) = 0
  <1>1. Double(0) = <<0, 1>> /\ Divide(<<0, 1>>, a) = <<0, 1>> /\ Times(<<0, 1>>, b) = <<0, 1>>
    BY DEF Double, Divide, Times, RoundToDouble
  <1>2. FormatWithComma(<<0, 1>>) = 0
    BY DEF FormatWithComma, RoundHalfEven
  <1>. QED
    BY <1>1, <1>2 DEF ShownResult

\* The tables of a version were written together, from one answer.
OneAnswer(v) ==
  v.rateData # <<>> =>
    \E r \in RateListResponses : v.rateData[1].source = r.source /\ v.rates = r.quotes

\* calcurate holds what the screen shows, and a rate of the version it began with.
CalcInv ==
  \/ calc = NoCalc
  \/ /\ shown.rateData # <<>>
     /\ calc = [at |-> "from", fromAmount |-> AmountOf(text),
                source |-> shown.rateData[1].source,
                fromCurrency |-> fromTitle, toCurrency |-> toTitle]
  \/ /\ shown.rateData # <<>>
     /\ <<shown.rateData[1].source, fromTitle>> \in DOMAIN shown.rates
     /\ calc = [at |-> "to", fromAmount |-> AmountOf(text),
                rateFrom |-> shown.rates[<<shown.rateData[1].source, fromTitle>>],
                codeTo |-> <<shown.rateData[1].source, toTitle>>]

LabelInv ==
  /\ TitlesArePreference
  /\ LabelIsOneConversion
  /\ OneAnswer(shown)
  /\ OneAnswer(StoredRates)
  /\ shown.rateData # <<>> => rateData # <<>>
  /\ shown.rateData = <<>> => label = 0
  /\ CalcInv

\* Without an amount the label is zero, and so it fits any pair of currencies.
LEMMA EmptyShowsZero ==
  ASSUME LabelIsOneConversion, MainIdle, text = <<>>
  PROVE  label = 0
  <1>1. ASSUME NEW r \in RateListResponses
        PROVE  ShownUnder(r, 0, fromTitle, toTitle) = 0
    <2> DEFINE cf == <<r.source, fromTitle>>
               ct == <<r.source, toTitle>>
    <2>1. CASE {cf, ct} \subseteq DOMAIN r.quotes
      <3>1. r.quotes[cf] \in Nat \ {0} /\ r.quotes[ct] \in Nat \ {0}
        BY <2>1, ResponsesDecode, RatesArePositive DEF IsTable
      <3>2. ShownResult(0, r.quotes[cf], r.quotes[ct]) = 0
        BY <3>1, ZeroShown
      <3>. QED
        BY <2>1, <3>2 DEF ShownUnder
    <2>2. CASE ~({cf, ct} \subseteq DOMAIN r.quotes)
      BY <2>2 DEF ShownUnder
    <2>. QED
      BY <2>1, <2>2
  <1>2. AmountOf(text) = 0
    BY DEF AmountOf
  <1>. QED
    BY <1>1, <1>2 DEF LabelIsOneConversion

LEMMA InitLabel == Init => LabelInv
  <1> SUFFICES ASSUME Init PROVE LabelInv
    OBVIOUS
  <1>1. TitlesArePreference
    BY InitTitles
  <1>2. LabelIsOneConversion /\ CalcInv /\ label = 0
    BY DEF Init, LabelIsOneConversion, CalcInv
  <1>3. OneAnswer(StoredRates)
    BY DEF Init, OneAnswer, StoredRates
  <1>4. shown = StoredRates
    BY DEF Init
  <1>. QED
    BY <1>1, <1>2, <1>3, <1>4 DEF LabelInv, StoredRates

LEMMA NextLabel == LabelInv /\ [Next]_vars => LabelInv'
  <1> SUFFICES ASSUME LabelInv, [Next]_vars PROVE LabelInv'
    OBVIOUS
  <1>0. /\ TitlesArePreference /\ LabelIsOneConversion /\ OneAnswer(shown)
        /\ OneAnswer(StoredRates) /\ CalcInv
        /\ shown.rateData # <<>> => rateData # <<>>
        /\ shown.rateData = <<>> => label = 0
    BY DEF LabelInv
  <1>1. TitlesArePreference'
    BY <1>0, NextTitles
  <1>2. CASE UNCHANGED <<rateTables, text, label, titles, calc, shown>>
    <2>1. LabelIsOneConversion'
      BY <1>0, <1>2 DEF LabelIsOneConversion, MainIdle, titles
    <2>2. OneAnswer(shown)' /\ OneAnswer(StoredRates)'
      BY <1>0, <1>2 DEF OneAnswer, StoredRates, rateTables
    <2>3. CalcInv'
      BY <1>0, <1>2 DEF CalcInv, titles
    <2>. QED
      BY <1>0, <1>1, <1>2, <2>1, <2>2, <2>3 DEF LabelInv, rateTables
  <1>3. ASSUME NEW t, text' = t, Calcurate(AmountOf(t), shown'), MainIdle,
               titles' = <<prefs[1].fromCurrency, prefs[1].toCurrency>>,
               shown' \in {shown, StoredRates},
               UNCHANGED <<rateTables, label>>
        PROVE  LabelInv'
    \* common to TextFieldChanged and SheetWillDisappear
    <2>1. OneAnswer(shown)' /\ OneAnswer(StoredRates)'
      BY <1>0, <1>3 DEF OneAnswer, StoredRates, rateTables
    <2>2. CalcInv'
      BY <1>3 DEF Calcurate, CalcInv, titles
    <2>4. /\ shown'.rateData # <<>> => rateData' # <<>>
          /\ shown'.rateData = <<>> => label' = 0
      BY <1>0, <1>3 DEF StoredRates, rateTables
    <2>3. LabelIsOneConversion'
      <3>1. CASE shown'.rateData = <<>>
        BY <2>4, <3>1 DEF LabelIsOneConversion
      <3>2. CASE shown'.rateData # <<>>
        <4>1. calc' # NoCalc
          BY <1>3, <3>2 DEF Calcurate, NoCalc
        <4>. QED
          BY <4>1 DEF LabelIsOneConversion, MainIdle
      <3>. QED
        BY <3>1, <3>2
    <2>. QED
      BY <1>1, <2>1, <2>2, <2>3, <2>4 DEF LabelInv
  <1>4. ASSUME NEW t \in Texts, TextFieldChanged(t)
        PROVE  LabelInv'
    <2>1. titles' = <<prefs[1].fromCurrency, prefs[1].toCurrency>>
      BY <1>0, <1>4 DEF TextFieldChanged, TopActive, NoSheet, TitlesArePreference, titles
    <2>2. /\ text' = t /\ Calcurate(AmountOf(t), shown') /\ MainIdle
          /\ shown' = StoredRates /\ UNCHANGED <<rateTables, label>>
      BY <1>4 DEF TextFieldChanged, TopActive, dbVars
    <2>. QED
      BY <2>1, <2>2, <1>3
  <1>5. CASE ExchangeButtonTapped
    <2>1. MainIdle /\ label' = 0 /\ shown' = StoredRates /\ UNCHANGED <<rateTables, calc>>
      BY <1>5 DEF ExchangeButtonTapped, SetIinitailValue, ExchangeCurrency, TopActive
    <2>2. OneAnswer(shown)' /\ OneAnswer(StoredRates)'
      BY <1>0, <2>1 DEF OneAnswer, StoredRates, rateTables
    <2>3. LabelIsOneConversion' /\ CalcInv'
      BY <2>1 DEF LabelIsOneConversion, CalcInv, MainIdle
    <2>. QED
      BY <1>1, <2>1, <2>2, <2>3 DEF LabelInv, StoredRates, rateTables
  <1>6. CASE MainIdle /\ shown' = StoredRates /\ UNCHANGED <<rateTables, text, label, titles, calc>>
    \* RowSelected, CurrencyButtonTapped and RealmRefreshed
    <2>1. OneAnswer(shown)' /\ OneAnswer(StoredRates)'
      BY <1>0, <1>6 DEF OneAnswer, StoredRates, rateTables
    <2>2. LabelIsOneConversion'
      BY <1>0, <1>6 DEF LabelIsOneConversion, MainIdle, titles
    <2>3. CalcInv'
      BY <1>6 DEF CalcInv, MainIdle
    <2>4. /\ shown'.rateData # <<>> => rateData' # <<>>
          /\ shown'.rateData = <<>> => label' = 0
      BY <1>0, <1>6 DEF StoredRates, rateTables
    <2>. QED
      BY <1>1, <2>1, <2>2, <2>3, <2>4 DEF LabelInv
  <1>7. CASE SheetWillDisappear
    <2>1. /\ MainIdle /\ ShowTitles(prefs)
          /\ UNCHANGED <<rateTables, text, label, shown>>
      BY <1>7 DEF SheetWillDisappear, ViewWillAppear, dbVars
    <2>2. titles' = <<prefs[1].fromCurrency, prefs[1].toCurrency>>
      BY <2>1 DEF ShowTitles, titles
    <2>3. CASE text # <<>> /\ Calcurate(text[1], shown)
      <3>1. PICK t : t = text /\ text' = t
        BY <2>1
      <3>2. Calcurate(AmountOf(t), shown')
        BY <2>1, <2>3, <3>1 DEF AmountOf
      <3>. QED
        BY <1>3, <2>1, <2>2, <3>1, <3>2
    <2>4. CASE text = <<>> /\ UNCHANGED calc
      <3>1. label' = 0
        BY <1>0, <2>1, <2>4, EmptyShowsZero
      <3>2. LabelIsOneConversion' /\ CalcInv'
        BY <2>1, <2>4, <3>1 DEF LabelIsOneConversion, CalcInv, MainIdle
      <3>3. OneAnswer(shown)' /\ OneAnswer(StoredRates)'
        BY <1>0, <2>1 DEF OneAnswer, StoredRates, rateTables
      <3>. QED
        BY <1>0, <1>1, <2>1, <3>1, <3>2, <3>3 DEF LabelInv, rateTables
    <2>. QED
      BY <1>7, <2>3, <2>4 DEF SheetWillDisappear, ViewWillAppear
  <1>8. CASE LookUpRateFrom
    <2> DEFINE code == <<shown.rateData[1].source, fromTitle>>
    <2>1. calc.at = "from" /\ UNCHANGED <<rateTables, text, titles, shown>>
      BY <1>8 DEF LookUpRateFrom, dbVars
    <2>2. /\ shown.rateData # <<>>
          /\ calc = [at |-> "from", fromAmount |-> AmountOf(text),
                     source |-> shown.rateData[1].source,
                     fromCurrency |-> fromTitle, toCurrency |-> toTitle]
      BY <1>0, <2>1 DEF CalcInv, NoCalc
    <2>3. OneAnswer(shown)' /\ OneAnswer(StoredRates)'
      BY <1>0, <2>1 DEF OneAnswer, StoredRates, rateTables
    <2>4. CASE code \in DOMAIN shown.rates
      <3>1. calc' = [at |-> "to", fromAmount |-> AmountOf(text), rateFrom |-> shown.rates[code],
                     codeTo |-> <<shown.rateData[1].source, toTitle>>]
        BY <1>8, <2>2, <2>4 DEF LookUpRateFrom, CalcRates
      <3>2. CalcInv'
        BY <2>1, <2>2, <2>4, <3>1 DEF CalcInv, titles
      <3>3. LabelIsOneConversion'
        BY <3>1 DEF LabelIsOneConversion, MainIdle, NoCalc
      <3>. QED
        BY <1>0, <1>1, <2>1, <2>2, <2>3, <3>2, <3>3 DEF LabelInv, rateTables
    <2>5. CASE code \notin DOMAIN shown.rates
      <3>1. calc' = NoCalc /\ label' = 0
        BY <1>8, <2>2, <2>5 DEF LookUpRateFrom, CalcRates
      <3>. QED
        BY <1>0, <1>1, <2>1, <2>3, <3>1 DEF LabelInv, rateTables, CalcInv, LabelIsOneConversion
    <2>. QED
      BY <2>4, <2>5
  <1>9. CASE LookUpRateTo
    <2> DEFINE cf == <<shown.rateData[1].source, fromTitle>>
               ct == <<shown.rateData[1].source, toTitle>>
    <2>1. calc.at = "to" /\ calc' = NoCalc /\ UNCHANGED <<rateTables, text, titles, shown>>
      BY <1>9 DEF LookUpRateTo, dbVars
    <2>2. /\ shown.rateData # <<>>
          /\ cf \in DOMAIN shown.rates
          /\ calc = [at |-> "to", fromAmount |-> AmountOf(text),
                     rateFrom |-> shown.rates[cf], codeTo |-> ct]
      BY <1>0, <2>1 DEF CalcInv, NoCalc
    <2>3. label' = IF ct \in DOMAIN shown.rates
                   THEN ShownResult(AmountOf(text), shown.rates[cf], shown.rates[ct])
                   ELSE 0
      BY <1>9, <2>2 DEF LookUpRateTo, CalcRates
    <2>4. PICK r \in RateListResponses :
            shown.rateData[1].source = r.source /\ shown.rates = r.quotes
      BY <1>0, <2>2 DEF OneAnswer
    <2>5. label' = ShownUnder(r, AmountOf(text), fromTitle, toTitle)
      BY <2>2, <2>3, <2>4 DEF ShownUnder
    <2>6. LabelIsOneConversion'
      BY <2>1, <2>5 DEF LabelIsOneConversion, titles
    <2>7. OneAnswer(shown)' /\ OneAnswer(StoredRates)' /\ CalcInv'
      BY <1>0, <2>1 DEF OneAnswer, StoredRates, rateTables, CalcInv
    <2>. QED
      BY <1>0, <1>1, <2>1, <2>2, <2>6, <2>7 DEF LabelInv, rateTables
  <1>10. ASSUME NEW r \in RateListResponses, RatesSaved(r)
         PROVE  LabelInv'
    <2>1. UNCHANGED <<text, label, titles, calc, shown>> /\ SaveRateData(r, 0)
      BY <1>10 DEF RatesSaved
    <2>2. OneAnswer(StoredRates)' /\ rateData' # <<>>
      BY <2>1 DEF SaveRateData, OneAnswer, StoredRates
    <2>3. OneAnswer(shown)'
      BY <1>0, <2>1 DEF OneAnswer
    <2>4. LabelIsOneConversion' /\ CalcInv'
      BY <1>0, <2>1 DEF LabelIsOneConversion, MainIdle, CalcInv, titles
    <2>. QED
      BY <1>0, <1>1, <2>1, <2>2, <2>3, <2>4 DEF LabelInv
  <1>11. CASE \/ HideIndicator
              \/ SheetGone
              \/ DismissalCancelled
              \/ UNCHANGED vars
    <2>1. UNCHANGED <<rateTables, text, label, titles, calc, shown>>
      BY <1>11 DEF HideIndicator, SheetGone, DismissalCancelled, vars, dbVars
    <2>. QED
      BY <2>1, <1>2
  <1>12. CASE \/ RealmRefreshed
              \/ \E from \in BOOLEAN : CurrencyButtonTapped(from)
              \/ \E code \in Codes : RowSelected(code)
    <2>1. /\ MainIdle /\ shown' = StoredRates
          /\ UNCHANGED <<rateTables, text, label, titles, calc>>
      BY <1>12 DEF RealmRefreshed, CurrencyButtonTapped, RowSelected, TopActive, dbVars
    <2>. QED
      BY <2>1, <1>6
  <1>. QED
    BY <1>4, <1>5, <1>7, <1>8, <1>9, <1>10, <1>11, <1>12 DEF Next

(***************************************************************************)
(* Between events the label is zero or the conversion of what the text     *)
(* field and the buttons show, computed from one answer of the service,    *)
(* however many answers the delegate queue commits and whenever it does    *)
(* (calcurate, exchangeButtonTapped, viewWillAppear).                      *)
(***************************************************************************)
THEOREM LabelIsOneConversionHolds == Spec => []LabelIsOneConversion
  <1>1. LabelInv => LabelIsOneConversion
    BY DEF LabelInv
  <1>. QED
    BY <1>1, InitLabel, NextLabel, PTL DEF Spec

-----------------------------------------------------------------------------
(***************************************************************************)
(* Rounding.                                                               *)
(***************************************************************************)

\* What rounding to an integer returns: no integer is nearer.
LEMMA RoundHalfEvenIsNearest ==
  ASSUME NEW n \in Int, NEW d \in Nat \ {0}
  PROVE  /\ RoundHalfEven(n, d) \in Int
         /\ 2 * Abs(RoundHalfEven(n, d) * d - n) <= d
  <1> DEFINE q == n \div d
             r == n % d
  <1>1. q \in Int /\ r \in Int /\ 0 <= r /\ r < d /\ n = d * q + r
    OBVIOUS
  <1>2. q * d - n = -r /\ (q + 1) * d - n = d - r
    BY <1>1
  <1>3. CASE 2 * r < d \/ (2 * r = d /\ q % 2 = 0)
    <2>1. RoundHalfEven(n, d) = q
      BY <1>3 DEF RoundHalfEven
    <2>. QED
      BY <1>1, <1>2, <1>3, <2>1 DEF Abs
  <1>4. CASE ~(2 * r < d \/ (2 * r = d /\ q % 2 = 0))
    <2>1. RoundHalfEven(n, d) = q + 1
      BY <1>4 DEF RoundHalfEven
    <2>2. 2 * r >= d
      BY <1>1, <1>4
    <2>. QED
      BY <1>1, <1>2, <2>1, <2>2 DEF Abs
  <1>. QED
    BY <1>3, <1>4

LEMMA TimesMonotone ==
  ASSUME NEW a \in Int, NEW b \in Int, NEW c \in Nat, a <= b
  PROVE  a * c <= b * c /\ c * a <= c * b
  <1>1. (b - a) * c >= 0
    OBVIOUS
  <1>. QED
    BY <1>1

LEMMA TimesCancel ==
  ASSUME NEW a \in Int, NEW b \in Int, NEW c \in Nat \ {0}, a * c <= b * c
  PROVE  a <= b
  <1>1. SUFFICES ASSUME b + 1 <= a PROVE FALSE
    OBVIOUS
  <1>2. (b + 1) * c <= a * c
    BY <1>1, TimesMonotone
  <1>3. (b + 1) * c = b * c + c
    OBVIOUS
  <1>4. a * c \in Int /\ b * c \in Int
    OBVIOUS
  <1>. QED
    BY <1>2, <1>3, <1>4

LEMMA AbsTimes ==
  ASSUME NEW a \in Int, NEW c \in Nat
  PROVE  Abs(a) \in Nat /\ Abs(a * c) = Abs(a) * c /\ Abs(c * a) = c * Abs(a)
  <1>1. CASE a < 0
    <2>1. a * c <= 0 /\ a * c \in Int
      BY <1>1
    <2>2. Abs(a * c) = -(a * c)
      BY <2>1 DEF Abs
    <2>. QED
      BY <1>1, <2>2 DEF Abs
  <1>2. CASE a >= 0
    <2>1. a * c >= 0 /\ a * c \in Int
      BY <1>2
    <2>. QED
      BY <1>2, <2>1 DEF Abs
  <1>. QED
    BY <1>1, <1>2

LEMMA AbsPlus ==
  ASSUME NEW a \in Int, NEW b \in Int
  PROVE  Abs(a + b) <= Abs(a) + Abs(b)
  BY DEF Abs

\* The Double x1 / x2 and the n / d it was rounded from differ by half a unit
\* in the last place.
IsNear(x1, x2, n, d) == 2 * MinSignificand * Abs(x1 * d - n * x2) <= Abs(n) * x2

\* The number L of thousandths is a nearest one to z1 / z2.
IsShown(L, z1, z2) == 2 * Abs(L * z2 - 1000 * z1) <= z2

\* L thousandths are as near to a / f * t as three such Doubles keep it.
IsNearExact(L, a, f, t) ==
  2 * MinSignificand * Abs(L * f - 1000 * (a * t))
    <= MinSignificand * f + 4 * Abs(1000 * (a * t))

LEMMA DoubleIsNear ==
  ASSUME NEW n \in Int, NEW d \in Nat \ {0}, InRange(n, d),
         NEW x, x = RoundToDouble(n, d)
  PROVE  /\ x = <<x[1], x[2]>> /\ x[1] \in Int /\ x[2] \in Nat \ {0}
         /\ IsNear(x[1], x[2], n, d)
  <1> DEFINE M == MinSignificand
  <1> USE DEF IsNear
  <1>0. M \in Nat
    BY SignificandIsLarge
  <1>1. CASE n = 0
    <2>1. x = <<0, 1>>
      BY <1>1 DEF RoundToDouble
    <2>2. x[1] * d - n * x[2] = 0 /\ Abs(n) * x[2] = 0
      BY <1>1, <2>1 DEF Abs
    <2>. QED
      BY <1>0, <2>1, <2>2 DEF Abs
  <1>2. CASE n # 0
    <2> DEFINE s == CHOOSE s \in Scales : Fits(n, d, s)
    <2>1. s \in Scales /\ Fits(n, d, s)
      BY <1>2 DEF InRange
    <2>2. s[1] \in Nat \ {0} /\ s[2] \in Nat \ {0}
      BY <2>1, ScalesAreFractions
    <2> HIDE DEF s
    <2>3. PICK s1 \in Nat \ {0}, s2 \in Nat \ {0} : s1 = s[1] /\ s2 = s[2]
      BY <2>2
    <2>4. PICK ns \in Int, ds \in Nat \ {0} : ns = n * s1 /\ ds = d * s2
      OBVIOUS
    <2>5. PICK q \in Int : q = RoundHalfEven(ns, ds) /\ 2 * Abs(q * ds - ns) <= ds
      BY RoundHalfEvenIsNearest
    <2>6. x = <<q * s2, s1>>
      BY <1>2, <2>3, <2>4, <2>5 DEF RoundToDouble, s
    <2>7. M * ds <= Abs(n) * s1
      BY <2>1, <2>3, <2>4 DEF Fits
    <2>8. (q * s2) * d - n * s1 = q * ds - ns
      BY <2>4
    <2>9. Abs(q * ds - ns) \in Nat
      BY DEF Abs
    <2>10. M * (2 * Abs(q * ds - ns)) <= M * ds
      BY <1>0, <2>5, <2>9, TimesMonotone
    <2>11. 2 * M * Abs(q * ds - ns) = M * (2 * Abs(q * ds - ns))
      BY <1>0, <2>9
    <2>12. Abs(n) * s1 \in Int /\ M * ds \in Int
      BY <1>0 DEF Abs
    <2>13. 2 * M * Abs((q * s2) * d - n * s1) <= Abs(n) * s1
      BY <1>0, <2>7, <2>8, <2>9, <2>10, <2>11, <2>12
    <2>. QED
      BY <2>6, <2>13
  <1>. QED
    BY <1>1, <1>2

LEMMA AtMostQuotient ==
  ASSUME NEW k \in Nat, NEW b \in Int, NEW m \in Nat \ {0}, m * k <= b
  PROVE  k <= b \div m
  <1>1. PICK q \in Int, r \in Int : q = b \div m /\ 0 <= r /\ r < m /\ b = m * q + r
    <2>1. b \div m \in Int /\ b % m \in Int /\ 0 <= b % m /\ b % m < m
          /\ b = m * (b \div m) + (b % m)
      OBVIOUS
    <2>. QED
      BY <2>1
  <1>2. SUFFICES ASSUME q + 1 <= k PROVE FALSE
    BY <1>1
  <1>3. m * (q + 1) <= m * k
    BY <1>2, TimesMonotone
  <1>4. m * (q + 1) = m * q + m
    OBVIOUS
  <1>5. m * q \in Int /\ m * k \in Int
    OBVIOUS
  <1>. QED
    BY <1>1, <1>3, <1>4, <1>5

\* What is rounded is at most one part in D larger than before.
LEMMA MagnitudeOfNear ==
  ASSUME NEW D \in Nat, NEW p \in Int, NEW q \in Int, D * Abs(p - q) <= Abs(q)
  PROVE  D * Abs(p) <= (D + 1) * Abs(q)
  <1>1. PICK u \in Nat, v \in Nat, w \in Nat : u = Abs(p) /\ v = Abs(q) /\ w = Abs(p - q)
    <2>1. Abs(p) \in Nat /\ Abs(q) \in Nat /\ Abs(p - q) \in Nat
      BY DEF Abs
    <2>. QED
      BY <2>1
  <1>2. u <= w + v
    BY <1>1 DEF Abs
  <1>3. D * u <= D * (w + v)
    BY <1>2, TimesMonotone
  <1>4. D * (w + v) = D * w + D * v /\ (D + 1) * v = D * v + v
    OBVIOUS
  <1>5. D * w <= v
    BY <1>1
  <1>6. D * u \in Int /\ D * w \in Int /\ D * v \in Int
    OBVIOUS
  <1>7. D * u <= (D + 1) * v
    BY <1>3, <1>4, <1>5, <1>6
  <1>. QED
    BY <1>1, <1>7

\* The errors of the three roundings, brought to one denominator: the second
\* and the third are errors of values that carry the errors before them.
LEMMA ThreeErrors ==
  ASSUME NEW D \in Nat, D >= 4, NEW G \in Nat, NEW U \in Nat, NEW V \in Nat,
         NEW T1 \in Nat, NEW T2 \in Nat, NEW T3 \in Nat,
         D * T1 <= G,
         D * T2 <= V, D * V <= (D + 1) * G,
         D * T3 <= U, D * U <= (D + 1) * V
  PROVE  D * (T1 + T2 + T3) <= 4 * G
  <1>1. PICK DV \in Nat, DU \in Nat, DG \in Nat : DV = D * V /\ DU = D * U /\ DG = D * G
    OBVIOUS
  <1>2. DV <= DG + G
    <2>1. (D + 1) * G = D * G + G
      OBVIOUS
    <2>. QED
      BY <1>1, <2>1
  <1>3. DU <= DV + V
    <2>1. (D + 1) * V = D * V + V
      OBVIOUS
    <2>. QED
      BY <1>1, <2>1
  <1>4. 4 * G <= DG
    BY <1>1, TimesMonotone
  <1>5. 4 * V <= DV
    BY <1>1, TimesMonotone
  <1>6. D * (V + U) <= D * (3 * G)
    <2>1. D * (V + U) = DV + DU /\ D * (3 * G) = 3 * DG
      BY <1>1
    \* DV + DU <= 2 DV + V <= 2 DG + 2 G + V, and 4 V <= DG + G
    <2>2. DV + DU <= 3 * DG
      BY <1>2, <1>3, <1>4, <1>5
    <2>. QED
      BY <2>1, <2>2
  <1>7. V + U <= 3 * G
    <2>1. (V + U) * D <= (3 * G) * D
      BY <1>6
    <2>. QED
      BY <2>1, TimesCancel
  <1>8. PICK d1 \in Nat, d2 \in Nat, d3 \in Nat : d1 = D * T1 /\ d2 = D * T2 /\ d3 = D * T3
    OBVIOUS
  <1>9. D * (T1 + T2 + T3) = d1 + d2 + d3
    BY <1>8
  <1>. QED
    BY <1>7, <1>8, <1>9

\* The whole of Double(a) / f * t, rounded to the integer L of thousandths.
LEMMA ErrorsAddUp ==
  ASSUME NEW a \in Int, NEW f \in Nat \ {0}, NEW t \in Nat \ {0},
         NEW x1 \in Int, NEW x2 \in Nat \ {0}, IsNear(x1, x2, a, 1),
         NEW xf \in Int, xf = x2 * f,
         NEW y1 \in Int, NEW y2 \in Nat \ {0}, IsNear(y1, y2, x1, xf),
         NEW yt \in Int, yt = y1 * t,
         NEW z1 \in Int, NEW z2 \in Nat \ {0}, IsNear(z1, z2, yt, y2),
         NEW L \in Int, IsShown(L, z1, z2)
  PROVE  IsNearExact(L, a, f, t)
  <1>0. PICK M \in Nat : M = MinSignificand /\ M >= 2
    BY SignificandIsLarge
  <1>h. /\ 2 * M * Abs(x1 * 1 - a * x2) <= Abs(a) * x2
        /\ 2 * M * Abs(y1 * (x2 * f) - x1 * y2) <= Abs(x1) * y2
        /\ 2 * M * Abs(z1 * y2 - (y1 * t) * z2) <= Abs(y1 * t) * z2
        /\ 2 * Abs(L * z2 - 1000 * z1) <= z2
    BY <1>0 DEF IsNear, IsShown
  <1>1. PICK D \in Nat : D = 2 * M /\ D >= 4
    BY <1>0
  <1>2. PICK e0 \in Int, e1 \in Int, e2 \in Int, e3 \in Int, E \in Int :
          /\ e0 = L * z2 - 1000 * z1
          /\ e1 = x1 * 1 - a * x2
          /\ e2 = y1 * (x2 * f) - x1 * y2
          /\ e3 = z1 * y2 - (y1 * t) * z2
          /\ E = L * f - 1000 * (a * t)
    OBVIOUS
  <1>3. PICK A \in Nat, X \in Nat, Y \in Nat : A = Abs(a) /\ X = Abs(x1) /\ Y = Abs(y1)
    BY DEF Abs
  <1>4. PICK n0 \in Nat, n1 \in Nat, n2 \in Nat, n3 \in Nat, n \in Nat :
          n0 = Abs(e0) /\ n1 = Abs(e1) /\ n2 = Abs(e2) /\ n3 = Abs(e3) /\ n = Abs(E)
    BY DEF Abs
  <1>5. /\ 2 * n0 <= z2
        /\ D * n1 <= A * x2
        /\ D * n2 <= X * y2
        /\ D * n3 <= (Y * t) * z2
    <2>1. Abs(y1 * t) = Y * t
      BY <1>3, AbsTimes
    <2>. QED
      BY <1>h, <1>1, <1>2, <1>3, <1>4, <2>1
  \* the magnitudes after each rounding
  <1>6. D * X <= (D + 1) * (A * x2)
    <2>1. PICK p \in Int, q \in Int : p = x1 /\ q = a * x2
      OBVIOUS
    <2>2. e1 = p - q /\ Abs(q) = A * x2
      BY <1>2, <1>3, <2>1, AbsTimes
    <2>. QED
      BY <1>3, <1>4, <1>5, <2>1, <2>2, MagnitudeOfNear
  <1>7. D * (Y * (x2 * f)) <= (D + 1) * (X * y2)
    <2>1. PICK p \in Int, q \in Int, g \in Nat : g = x2 * f /\ p = y1 * g /\ q = x1 * y2
      OBVIOUS
    <2>2. e2 = p - q
      BY <1>2, <2>1
    <2>3. Abs(q) = X * y2
      BY <1>3, <2>1, AbsTimes
    <2>4. Abs(p) = Y * g
      BY <1>3, <2>1, AbsTimes
    <2>. QED
      BY <1>3, <1>4, <1>5, <2>1, <2>2, <2>3, <2>4, MagnitudeOfNear
  \* one denominator
  <1>8. PICK K \in Nat \ {0}, k1 \in Nat, k2 \in Nat, k3 \in Nat, k0 \in Nat :
          /\ K = x2 * y2 * z2
          /\ k1 = 1000 * (t * (z2 * y2))
          /\ k2 = 1000 * (t * z2)
          /\ k3 = 1000 * (f * x2)
          /\ k0 = f * (y2 * x2)
    <2>1. x2 * y2 \in Nat \ {0}
      OBVIOUS
    <2>2. x2 * y2 * z2 \in Nat \ {0}
      BY <2>1
    <2>3. t * z2 \in Nat /\ z2 * y2 \in Nat /\ f * x2 \in Nat /\ y2 * x2 \in Nat
      OBVIOUS
    <2>4. t * (z2 * y2) \in Nat /\ f * (y2 * x2) \in Nat
      BY <2>3
    <2>. QED
      BY <2>2, <2>3, <2>4
  <1>9. E * K = k1 * e1 + k2 * e2 + k3 * e3 + k0 * e0
    BY <1>2, <1>8
  <1>10. n * K <= k1 * n1 + k2 * n2 + k3 * n3 + k0 * n0
    <2>1. PICK b1 \in Int, b2 \in Int, b3 \in Int, b0 \in Int, b \in Int :
            b1 = k1 * e1 /\ b2 = k2 * e2 /\ b3 = k3 * e3 /\ b0 = k0 * e0 /\ b = E * K
      OBVIOUS
    <2>2. Abs(b1) = k1 * n1 /\ Abs(b2) = k2 * n2 /\ Abs(b3) = k3 * n3 /\ Abs(b0) = k0 * n0
      BY <1>4, <2>1, AbsTimes
    <2>3. Abs(b) = n * K
      BY <1>4, <2>1, AbsTimes
    <2>4. b = b1 + b2 + b3 + b0
      BY <1>9, <2>1
    <2>5. Abs(b) <= Abs(b1) + Abs(b2) + Abs(b3) + Abs(b0)
      BY <2>4 DEF Abs
    <2>. QED
      BY <2>2, <2>3, <2>5
  <1>11. PICK G \in Nat, U \in Nat, V \in Nat :
           /\ G = k1 * (A * x2)
           /\ V = k2 * (X * y2)
           /\ U = k3 * ((Y * t) * z2)
    <2>1. A * x2 \in Nat /\ X * y2 \in Nat /\ Y * t \in Nat
      OBVIOUS
    <2>2. (Y * t) * z2 \in Nat
      BY <2>1
    <2>. QED
      BY <2>1, <2>2
  <1>12. PICK T1 \in Nat, T2 \in Nat, T3 \in Nat :
           T1 = k1 * n1 /\ T2 = k2 * n2 /\ T3 = k3 * n3
    OBVIOUS
  <1>13. D * T1 <= G /\ D * T2 <= V /\ D * T3 <= U
    <2>1. PICK c1 \in Nat, c2 \in Nat, c3 \in Nat : c1 = D * n1 /\ c2 = D * n2 /\ c3 = D * n3
      OBVIOUS
    <2>2. D * T1 = k1 * c1 /\ D * T2 = k2 * c2 /\ D * T3 = k3 * c3
      BY <1>12, <2>1
    <2>3. PICK h1 \in Nat, h2 \in Nat, h3 \in Nat :
            h1 = A * x2 /\ h2 = X * y2 /\ h3 = (Y * t) * z2
      <3>1. A * x2 \in Nat /\ X * y2 \in Nat /\ Y * t \in Nat
        OBVIOUS
      <3>2. (Y * t) * z2 \in Nat
        BY <3>1
      <3>. QED
        BY <3>1, <3>2
    <2>4. c1 <= h1 /\ c2 <= h2 /\ c3 <= h3
      BY <1>5, <2>1, <2>3
    <2>5. k1 * c1 <= k1 * h1 /\ k2 * c2 <= k2 * h2 /\ k3 * c3 <= k3 * h3
      BY <2>4, TimesMonotone
    <2>. QED
      BY <1>11, <2>2, <2>3, <2>5
  <1>14. D * V <= (D + 1) * G
    <2>1. PICK g \in Nat, l \in Nat, h \in Nat : g = k2 * y2 /\ l = D * X /\ h = (D + 1) * (A * x2)
      <3>1. A * x2 \in Nat
        OBVIOUS
      <3>. QED
        BY <3>1
    <2>2. g * l <= g * h
      BY <1>6, <2>1, TimesMonotone
    <2>3. g * l = D * V
      BY <1>11, <2>1
    <2>4. g * h = (D + 1) * G
      BY <1>8, <1>11, <2>1
    <2>. QED
      BY <2>2, <2>3, <2>4
  <1>15. D * U <= (D + 1) * V
    <2>1. PICK l \in Nat, h \in Nat : l = D * (Y * (x2 * f)) /\ h = (D + 1) * (X * y2)
      <3>1. X * y2 \in Nat /\ x2 * f \in Nat
        OBVIOUS
      <3>2. Y * (x2 * f) \in Nat
        BY <3>1
      <3>. QED
        BY <3>1, <3>2
    <2>2. k2 * l <= k2 * h
      BY <1>7, <2>1, TimesMonotone
    <2>3. k2 * l = D * U
      BY <1>8, <1>11, <2>1
    <2>4. k2 * h = (D + 1) * V
      BY <1>11, <2>1
    <2>. QED
      BY <2>2, <2>3, <2>4
  <1>16. D * (T1 + T2 + T3) <= 4 * G
    BY <1>1, <1>13, <1>14, <1>15, ThreeErrors
  <1>17. 2 * (k0 * n0) <= f * K
    <2>1. k0 * (2 * n0) <= k0 * z2
      BY <1>5, TimesMonotone
    <2>2. k0 * (2 * n0) = 2 * (k0 * n0) /\ k0 * z2 = f * K
      BY <1>8
    <2>. QED
      BY <2>1, <2>2
  <1>18. PICK W \in Nat, F \in Nat, N \in Nat : W = T1 + T2 + T3 /\ F = k0 * n0 /\ N = n * K
    OBVIOUS
  <1>19. N <= W + F
    BY <1>10, <1>12, <1>18
  <1>20. D * (2 * N) <= 8 * G + D * (f * K)
    <2>1. PICK DW \in Nat, DF \in Nat, fK \in Nat : DW = D * W /\ DF = D * (2 * F) /\ fK = f * K
      OBVIOUS
    <2>2. D * (2 * N) <= D * (2 * W + 2 * F)
      BY <1>19, TimesMonotone
    <2>3. D * (2 * W + 2 * F) = 2 * DW + DF
      BY <2>1
    <2>4. DF <= D * fK
      BY <1>17, <1>18, <2>1, TimesMonotone
    <2>5. DW <= 4 * G
      BY <1>16, <1>18, <2>1
    <2>6. D * (2 * N) \in Int /\ D * fK \in Int
      OBVIOUS
    <2>. QED
      BY <2>1, <2>2, <2>3, <2>4, <2>5, <2>6
  <1>21. PICK Q \in Nat : Q = A * t
    OBVIOUS
  <1>22. G = 1000 * Q * K
    BY <1>8, <1>11, <1>21
  <1>23. (2 * D * n) * K <= (8 * 1000 * Q + D * f) * K
    <2>1. D * (2 * N) = (2 * D * n) * K
      BY <1>18
    <2>2. 8 * G + D * (f * K) = (8 * 1000 * Q + D * f) * K
      BY <1>22
    <2>. QED
      BY <1>20, <2>1, <2>2
  <1>24. 2 * D * n <= 8 * 1000 * Q + D * f
    <2>1. PICK l \in Int, h \in Int : l = 2 * D * n /\ h = 8 * 1000 * Q + D * f
      OBVIOUS
    <2>2. l * K <= h * K
      BY <1>23, <2>1
    <2>3. l <= h
      BY <2>2, TimesCancel
    <2>. QED
      BY <2>1, <2>3
  <1>25. Abs(1000 * (a * t)) = 1000 * Q
    <2>1. PICK b \in Int : b = a * t
      OBVIOUS
    <2>2. Abs(b) = Q
      BY <1>3, <1>21, <2>1, AbsTimes
    <2>. QED
      BY <2>1, <2>2 DEF Abs
  <1>26. PICK Mn \in Nat, Mf \in Nat : Mn = M * n /\ Mf = M * f
    OBVIOUS
  <1>27. 2 * D * n = 4 * Mn /\ D * f = 2 * Mf /\ 2 * M * n = 2 * Mn
    BY <1>1, <1>26
  <1>28. 2 * Mn <= Mf + 4 * (1000 * Q)
    BY <1>24, <1>27
  <1>. QED
    BY <1>0, <1>2, <1>4, <1>25, <1>26, <1>27, <1>28 DEF IsNearExact

LEMMA AmountIsInteger ==
  ASSUME NEW a \in Amounts \cup {0}
  PROVE  a \in Int
  BY AmountsAreIntegers

\* What calcurate shows, for an amount and rates it can convert.
LEMMA ShownResultIsAccurate ==
  ASSUME NEW a \in Amounts \cup {0}, NEW f \in RateValues, NEW t \in RateValues
  PROVE  ShownResult(a, f, t) \in Int /\ IsNearExact(ShownResult(a, f, t), a, f, t)
  <1>1. a \in Int /\ f \in Nat \ {0} /\ t \in Nat \ {0}
    BY AmountIsInteger, RatesArePositive
  <1>2. PICK x : x = Double(a)
    OBVIOUS
  <1>3. PICK y : y = Divide(x, f)
    OBVIOUS
  <1>4. PICK z : z = Times(y, t)
    OBVIOUS
  <1>5. InRange(a, 1) /\ InRange(x[1], x[2] * f) /\ InRange(y[1] * t, y[2])
    <2>1. CASE a \in Amounts
      BY <1>2, <1>3, <2>1, ConversionsAreInRange DEF ConversionInRange
    <2>2. CASE a = 0
      <3>1. x = <<0, 1>>
        BY <1>2, <2>2 DEF Double, RoundToDouble
      <3>2. y = <<0, 1>>
        BY <1>3, <3>1 DEF Divide, RoundToDouble
      <3>3. x[1] = 0 /\ y[1] * t = 0
        BY <1>1, <3>1, <3>2
      <3>. QED
        BY <2>2, <3>3 DEF InRange
    <2>. QED
      BY <2>1, <2>2
  <1>6. x[1] \in Int /\ x[2] \in Nat \ {0} /\ IsNear(x[1], x[2], a, 1)
    BY <1>1, <1>2, <1>5, DoubleIsNear DEF Double
  <1>7. PICK xf \in Nat \ {0} : xf = x[2] * f
    BY <1>1, <1>6
  <1>8. y[1] \in Int /\ y[2] \in Nat \ {0} /\ IsNear(y[1], y[2], x[1], xf)
    <2>1. y = RoundToDouble(x[1], xf) /\ InRange(x[1], xf)
      BY <1>3, <1>5, <1>7 DEF Divide
    <2>. QED
      BY <1>6, <2>1, DoubleIsNear
  <1>9. PICK yt \in Int : yt = y[1] * t
    BY <1>1, <1>8
  <1>10. z[1] \in Int /\ z[2] \in Nat \ {0} /\ IsNear(z[1], z[2], yt, y[2])
    <2>1. z = RoundToDouble(yt, y[2]) /\ InRange(yt, y[2])
      BY <1>4, <1>5, <1>9 DEF Times
    <2>. QED
      BY <1>8, <2>1, DoubleIsNear
  <1>11. PICK L \in Int : L = ShownResult(a, f, t) /\ IsShown(L, z[1], z[2])
    <2>1. PICK n \in Int, d \in Nat \ {0} : n = 1000 * z[1] /\ d = z[2]
      BY <1>10
    <2>2. ShownResult(a, f, t) = RoundHalfEven(n, d)
      BY <1>2, <1>3, <1>4, <2>1 DEF ShownResult, FormatWithComma
    <2>3. RoundHalfEven(n, d) \in Int /\ 2 * Abs(RoundHalfEven(n, d) * d - n) <= d
      BY RoundHalfEvenIsNearest
    <2>. QED
      BY <2>1, <2>2, <2>3 DEF IsShown
  <1>12. IsNearExact(L, a, f, t)
    <2> HIDE DEF IsNear, IsShown, IsNearExact
    <2>1. xf \in Int
      OBVIOUS
    <2>. QED
      BY <1>1, <1>6, <1>7, <1>8, <1>9, <1>10, <1>11, <2>1, ErrorsAddUp
  <1>. QED
    BY <1>11, <1>12

-----------------------------------------------------------------------------
(***************************************************************************)
(* Type correctness.                                                       *)
(***************************************************************************)

\* The preference is one row, as setDefaultUserPreferenceData has left it.
OnePreference == prefs \in Seq(UserPreferenceData) /\ Len(prefs) = 1

\* What the main thread's Realm shows of the rate tables is well typed.
ShownTypeOK ==
  /\ shown.rateData \in Seq(ExchangeRateData)
  /\ IsTable(shown.rates, Pairs, RateValues)

StoredTypeOK ==
  /\ rateData \in Seq(ExchangeRateData)
  /\ IsTable(rates, Pairs, RateValues)

\* The first row of a table of one row.
LEMMA FirstRow ==
  ASSUME NEW Rows, NEW table \in Seq(Rows), Len(table) = 1
  PROVE  table # <<>> /\ 1 \in DOMAIN table /\ table[1] \in Rows
  OBVIOUS

LEMMA FirstPreference ==
  ASSUME OnePreference
  PROVE  /\ prefs # <<>> /\ 1 \in DOMAIN prefs
         /\ prefs[1].fromCurrency \in Codes /\ prefs[1].toCurrency \in Codes
  <1>1. prefs[1] \in UserPreferenceData /\ prefs # <<>> /\ 1 \in DOMAIN prefs
    BY DEF OnePreference
  <1>. QED
    BY <1>1 DEF UserPreferenceData

\* Replacing the row of a table of one row.
LEMMA OneRowReplaced ==
  ASSUME NEW Rows, NEW table \in Seq(Rows), Len(table) = 1, NEW row \in Rows
  PROVE  /\ [table EXCEPT ![1] = row] \in Seq(Rows)
         /\ Len([table EXCEPT ![1] = row]) = 1
  OBVIOUS

\* Both writes of the preference keep it one row.
LEMMA PreferenceWrites ==
  ASSUME OnePreference, NEW c \in Codes, NEW d \in Codes, NEW from \in BOOLEAN,
         SetUserPreferenceData(c, d) \/ SaveSelectedItem(c, from)
  PROVE  OnePreference'
  <1>1. PICK p \in UserPreferenceData : prefs' = [prefs EXCEPT ![1] = p]
    <2>1. prefs # <<>> /\ 1 \in DOMAIN prefs /\ prefs[1] \in UserPreferenceData
      BY DEF OnePreference
    <2>2. CASE SetUserPreferenceData(c, d)
      <3>1. [fromCurrency |-> c, toCurrency |-> d] \in UserPreferenceData
        BY DEF UserPreferenceData
      <3>. QED
        BY <2>1, <2>2, <3>1 DEF SetUserPreferenceData
    <2>3. CASE SaveSelectedItem(c, from)
      <3>1. CASE from
        <4>1. prefs' = [prefs EXCEPT ![1] = [prefs[1] EXCEPT !.fromCurrency = c]]
          BY <2>1, <2>3, <3>1 DEF SaveSelectedItem
        <4>2. [prefs[1] EXCEPT !.fromCurrency = c] \in UserPreferenceData
          BY <2>1 DEF UserPreferenceData
        <4>. QED
          BY <4>1, <4>2
      <3>2. CASE ~from
        <4>1. prefs' = [prefs EXCEPT ![1] = [prefs[1] EXCEPT !.toCurrency = c]]
          BY <2>1, <2>3, <3>2 DEF SaveSelectedItem
        <4>2. [prefs[1] EXCEPT !.toCurrency = c] \in UserPreferenceData
          BY <2>1 DEF UserPreferenceData
        <4>. QED
          BY <4>1, <4>2
      <3>. QED
        BY <3>1, <3>2
    <2>. QED
      BY <2>2, <2>3
  <1>. QED
    BY <1>1, OneRowReplaced DEF OnePreference

\* saveRateData leaves well typed tables.
LEMMA RateTablesTypes ==
  ASSUME NEW r \in RateListResponses, SaveRateData(r, 0)
  PROVE  StoredTypeOK'
  <1>1. /\ r.timestamp \in Nat /\ r.source \in Codes
        /\ IsTable(r.quotes, Pairs, RateValues)
    BY ResponsesDecode
  <1>2. [timestamp |-> r.timestamp, source |-> r.source, savedAt |-> 0] \in ExchangeRateData
    BY <1>1 DEF ExchangeRateData
  <1>. QED
    BY <1>1, <1>2 DEF SaveRateData, StoredTypeOK

\* The start of calcurate for an integer amount gives a well typed call.
LEMMA CalcurateTypes ==
  ASSUME OnePreference, NEW n \in Amounts \cup {0}, NEW v, v.rateData \in Seq(ExchangeRateData),
         Calcurate(n, v)
  PROVE  CalcTypeOK'
  <1>1. CASE v.rateData = <<>>
    BY <1>1 DEF Calcurate, CalcTypeOK
  <1>2. CASE v.rateData # <<>>
    <2>1. v.rateData[1] \in ExchangeRateData
      BY <1>2
    <2>2. v.rateData[1].source \in Codes
      BY <2>1 DEF ExchangeRateData
    <2>. QED
      BY <1>2, <2>2, FirstPreference DEF Calcurate, CalcTypeOK
  <1>. QED
    BY <1>1, <1>2

LEMMA AmountType ==
  ASSUME NEW t \in Texts
  PROVE  AmountOf(t) \in Amounts \cup {0}
  <1>1. t = <<>> \/ \E n \in Amounts : t = <<n>>
    BY DEF Texts
  <1>. QED
    BY <1>1 DEF AmountOf

\* The conjuncts of TypeOK, in the groups the actions change together.
TypeInv ==
  /\ OnePreference
  /\ currencyData \in Seq(CurrencyData) /\ IsTable(currencies, Codes, Nat)
  /\ StoredTypeOK
  /\ ShownTypeOK
  /\ blocked \in BOOLEAN
  /\ text \in Texts
  /\ label \in Int
  /\ fromTitle \in Codes /\ toTitle \in Codes
  /\ sheet \in Sheets
  /\ CalcTypeOK
  /\ answers \in 0 .. MaxAnswers

LEMMA TypeInvIsTypeOK == TypeInv => TypeOK
  BY DEF TypeInv, TypeOK, DBTypeOK, OnePreference, StoredTypeOK, ShownTypeOK

LEMMA InitTypeInv == Init => TypeInv
  <1> SUFFICES ASSUME Init PROVE TypeInv
    OBVIOUS
  <1>1. OnePreference
    BY DefaultsAreCodes DEF Init, OnePreference, UserPreferenceData
  <1>2. currencyData \in Seq(CurrencyData) /\ IsTable(currencies, Codes, Nat)
    BY DEF Init, IsTable
  <1>3. StoredTypeOK
    <2>1. CASE rateData = <<>> /\ rates = [p \in {} |-> 0]
      BY <2>1 DEF StoredTypeOK, IsTable
    <2>2. ASSUME NEW r \in RateListResponses,
                 rateData = << [timestamp |-> r.timestamp, source |-> r.source, savedAt |-> 0] >>,
                 rates = r.quotes
          PROVE  StoredTypeOK
      <3>1. r.timestamp \in Nat /\ r.source \in Codes /\ IsTable(r.quotes, Pairs, RateValues)
        BY ResponsesDecode
      <3>2. [timestamp |-> r.timestamp, source |-> r.source, savedAt |-> 0] \in ExchangeRateData
        BY <3>1 DEF ExchangeRateData
      <3>. QED
        BY <2>2, <3>1, <3>2 DEF StoredTypeOK
    <2>. QED
      BY <2>1, <2>2 DEF Init
  <1>4. ShownTypeOK
    BY <1>3 DEF Init, ShownTypeOK, StoredTypeOK, StoredRates
  <1>5. blocked \in BOOLEAN /\ sheet \in Sheets
    BY Zenon DEF Init, NoSheet, Sheets
  <1>6. /\ text \in Texts /\ label \in Int /\ fromTitle \in Codes /\ toTitle \in Codes
        /\ CalcTypeOK /\ answers \in 0 .. MaxAnswers
    BY DefaultsAreCodes, MaxAnswersIsNatural DEF Init, Texts, CalcTypeOK
  <1>. QED
    BY <1>1, <1>2, <1>3, <1>4, <1>5, <1>6 DEF TypeInv

LEMMA NextTypeInv == TypeInv /\ [Next]_vars => TypeInv'
  <1> SUFFICES ASSUME TypeInv, [Next]_vars PROVE TypeInv'
    OBVIOUS
  <1> USE DEF TypeInv
  <1>1. ASSUME UNCHANGED prefs PROVE OnePreference'
    BY <1>1 DEF OnePreference
  <1>2. ASSUME UNCHANGED rateTables PROVE StoredTypeOK'
    BY <1>2 DEF StoredTypeOK, rateTables, IsTable
  <1>3. ASSUME shown' \in {shown, StoredRates} PROVE ShownTypeOK'
    BY <1>3 DEF ShownTypeOK, StoredTypeOK, StoredRates, IsTable
  <1>4. ASSUME UNCHANGED currencyTables
        PROVE  currencyData' \in Seq(CurrencyData) /\ IsTable(currencies', Codes, Nat)
    BY <1>4 DEF currencyTables, IsTable
  <1>5. ASSUME UNCHANGED calc PROVE CalcTypeOK'
    BY <1>5 DEF CalcTypeOK
  <1>6. ASSUME UNCHANGED dbVars
        PROVE  /\ OnePreference' /\ StoredTypeOK'
               /\ currencyData' \in Seq(CurrencyData) /\ IsTable(currencies', Codes, Nat)
    BY <1>1, <1>2, <1>4, <1>6 DEF dbVars
  <1>7. CASE HideIndicator
    BY <1>3, <1>5, <1>6, <1>7 DEF HideIndicator, titles
  <1>8. ASSUME NEW t \in Texts, TextFieldChanged(t)
        PROVE  TypeInv'
    <2>1. CalcTypeOK'
      <3>1. Calcurate(AmountOf(t), shown') /\ shown' = StoredRates
        BY <1>8 DEF TextFieldChanged
      <3>2. shown'.rateData \in Seq(ExchangeRateData)
        BY <3>1 DEF StoredTypeOK, StoredRates
      <3>. QED
        BY <3>1, <3>2, AmountType, CalcurateTypes
    <2>. QED
      BY <1>3, <1>6, <1>8, <2>1 DEF TextFieldChanged, titles
  <1>9. CASE ExchangeButtonTapped
    <2>1. OnePreference'
      <3>1. prefs[1].toCurrency \in Codes /\ prefs[1].fromCurrency \in Codes
        BY FirstPreference
      <3>2. SetUserPreferenceData(prefs[1].toCurrency, prefs[1].fromCurrency)
        BY <1>9 DEF ExchangeButtonTapped, ExchangeCurrency
      <3>. QED
        BY <3>1, <3>2, PreferenceWrites
    <2>2. fromTitle' \in Codes /\ toTitle' \in Codes
      <3>1. prefs'[1] \in UserPreferenceData
        BY <2>1, FirstRow DEF OnePreference
      <3>. QED
        BY <1>9, <3>1 DEF ExchangeButtonTapped, ExchangeCurrency, ShowTitles, UserPreferenceData
    <2>3. /\ shown' = StoredRates /\ text' = <<>> /\ label' = 0
          /\ UNCHANGED <<currencyTables, rateTables, blocked, sheet, calc, answers>>
      BY <1>9 DEF ExchangeButtonTapped, ExchangeCurrency, SetIinitailValue
    <2>. QED
      BY <1>2, <1>3, <1>4, <1>5, <2>1, <2>2, <2>3 DEF Texts
  <1>10. ASSUME NEW from \in BOOLEAN, CurrencyButtonTapped(from)
         PROVE  TypeInv'
    <2>1. sheet' \in Sheets
      BY <1>10, Zenon DEF CurrencyButtonTapped, Sheets
    <2>. QED
      BY <1>3, <1>5, <1>6, <1>10, <2>1 DEF CurrencyButtonTapped, titles
  <1>11. ASSUME NEW code \in Codes, RowSelected(code)
         PROVE  TypeInv'
    <2>1. PICK from \in BOOLEAN : from = sheet.isFromButton
      BY Zenon DEF Sheets
    <2>2. OnePreference'
      BY <1>11, <2>1, PreferenceWrites DEF RowSelected
    <2>. QED
      BY <1>2, <1>3, <1>4, <1>5, <1>11, <2>2 DEF RowSelected, titles
  <1>12. CASE SheetWillDisappear
    <2>1. CalcTypeOK'
      <3>1. CASE text = <<>> /\ UNCHANGED calc
        BY <1>5, <3>1
      <3>2. CASE text # <<>> /\ Calcurate(text[1], shown)
        <4>1. text[1] \in Amounts \cup {0}
          BY <3>2, AmountType DEF AmountOf
        <4>. QED
          BY <3>2, <4>1, CalcurateTypes DEF ShownTypeOK
      <3>. QED
        BY <1>12, <3>1, <3>2 DEF SheetWillDisappear, ViewWillAppear
    <2>2. fromTitle' \in Codes /\ toTitle' \in Codes
      BY <1>12, FirstPreference DEF SheetWillDisappear, ViewWillAppear, ShowTitles
    <2>3. sheet' \in Sheets
      BY <1>12 DEF SheetWillDisappear, Sheets
    <2>. QED
      BY <1>3, <1>6, <1>12, <2>1, <2>2, <2>3 DEF SheetWillDisappear
  <1>13. CASE SheetGone \/ DismissalCancelled
    <2>1. sheet' \in Sheets
      <3>1. CASE SheetGone
        BY <3>1, Zenon DEF SheetGone, Sheets, NoSheet
      <3>2. CASE DismissalCancelled
        BY <3>2 DEF DismissalCancelled, Sheets
      <3>. QED
        BY <1>13, <3>1, <3>2
    <2>. QED
      BY <1>3, <1>5, <1>6, <1>13, <2>1 DEF SheetGone, DismissalCancelled, titles
  <1>14. CASE LookUpRateFrom
    <2>1. label' \in Int /\ CalcTypeOK'
      <3> DEFINE code == <<calc.source, calc.fromCurrency>>
      <3>1. CASE code \in DOMAIN shown.rates
        <4>1. calc \in [at : {"from"}, fromAmount : Amounts \cup {0}, source : Codes,
                        fromCurrency : Codes, toCurrency : Codes]
          BY <1>14 DEF LookUpRateFrom, CalcTypeOK, NoCalc
        <4>2. /\ calc' = [at |-> "to", fromAmount |-> calc.fromAmount,
                          rateFrom |-> shown.rates[code],
                          codeTo   |-> <<calc.source, calc.toCurrency>>]
              /\ UNCHANGED label
          BY <1>14, <3>1 DEF LookUpRateFrom, CalcRates
        <4>3. shown.rates[code] \in RateValues
          BY <3>1 DEF ShownTypeOK, IsTable
        <4>. QED
          BY <4>1, <4>2, <4>3 DEF CalcTypeOK, Pairs
      <3>2. CASE code \notin DOMAIN shown.rates
        BY <1>14, <3>2 DEF LookUpRateFrom, CalcRates, CalcTypeOK
      <3>. QED
        BY <3>1, <3>2
    <2>. QED
      BY <1>3, <1>6, <1>14, <2>1 DEF LookUpRateFrom, titles
  <1>15. CASE LookUpRateTo
    <2>1. label' \in Int
      <3>1. calc \in [at : {"to"}, fromAmount : Amounts \cup {0}, rateFrom : RateValues,
                      codeTo : Pairs]
        BY <1>15 DEF LookUpRateTo, CalcTypeOK, NoCalc
      <3>2. CASE calc.codeTo \in DOMAIN shown.rates
        <4>1. shown.rates[calc.codeTo] \in RateValues
          BY <3>2 DEF ShownTypeOK, IsTable
        <4>. QED
          BY <1>15, <3>1, <3>2, <4>1, ShownResultIsAccurate DEF LookUpRateTo, CalcRates
      <3>3. CASE calc.codeTo \notin DOMAIN shown.rates
        BY <1>15, <3>3 DEF LookUpRateTo, CalcRates
      <3>. QED
        BY <3>2, <3>3
    <2>2. CalcTypeOK'
      BY <1>15 DEF LookUpRateTo, CalcTypeOK
    <2>. QED
      BY <1>3, <1>6, <1>15, <2>1, <2>2 DEF LookUpRateTo, titles
  <1>16. CASE RealmRefreshed
    BY <1>3, <1>5, <1>6, <1>16 DEF RealmRefreshed, titles
  <1>17. ASSUME NEW r \in RateListResponses, RatesSaved(r)
         PROVE  TypeInv'
    <2>1. StoredTypeOK'
      BY <1>17, RateTablesTypes DEF RatesSaved
    <2>2. answers' \in 0 .. MaxAnswers
      BY <1>17, MaxAnswersIsNatural DEF RatesSaved
    <2>. QED
      BY <1>1, <1>3, <1>4, <1>5, <1>17, <2>1, <2>2 DEF RatesSaved, titles
  <1>18. CASE UNCHANGED vars
    BY <1>3, <1>5, <1>6, <1>18 DEF vars, titles
  <1>. QED
    BY <1>7, <1>8, <1>9, <1>10, <1>11, <1>12, <1>13, <1>14, <1>15, <1>16, <1>17, <1>18 DEF Next

(***************************************************************************)
(* Type correctness of the Top screen: one preference row whatever is      *)
(* exchanged and selected (setUserPreferenceData, saveSelectedItem), and   *)
(* the locals of calcurate are always those of a lookup that succeeded.    *)
(***************************************************************************)
THEOREM TypeOKHolds == Spec => []TypeOK
  BY InitTypeInv, NextTypeInv, TypeInvIsTypeOK, PTL DEF Spec

\* The bound of LabelIsAccurate, for one amount and one pair of rates.
Accurate(l, a, f, t) ==
  Abs(l * f - 1000 * (a * t))
    <= (MinSignificand * f + 4 * Abs(1000 * (a * t))) \div (2 * MinSignificand)

(***************************************************************************)
(* The label is within half a thousandth and four half units in the last   *)
(* place of the exact result, for every significand length of Double, all  *)
(* positive rates and every amount whose conversion stays in Double's      *)
(* range (calcurate, formatWithComma).                                     *)
(***************************************************************************)
THEOREM LabelIsAccurateHolds == Spec => []LabelIsAccurate
  <1>1. TypeInv /\ LabelInv => LabelIsAccurate
    <2> SUFFICES ASSUME TypeInv, LabelInv, MainIdle, label # 0
                 PROVE  \E r \in RateListResponses :
                          /\ {<<r.source, fromTitle>>, <<r.source, toTitle>>} \subseteq DOMAIN r.quotes
                          /\ Accurate(label, AmountOf(text), r.quotes[<<r.source, fromTitle>>],
                                      r.quotes[<<r.source, toTitle>>])
      BY DEF LabelIsAccurate, Accurate
    <2>1. PICK r \in RateListResponses :
            label = ShownUnder(r, AmountOf(text), fromTitle, toTitle)
      BY DEF LabelInv, LabelIsOneConversion
    <2> DEFINE cf == <<r.source, fromTitle>>
               ct == <<r.source, toTitle>>
    <2>2. {cf, ct} \subseteq DOMAIN r.quotes
      BY <2>1 DEF ShownUnder
    <2>3. r.quotes[cf] \in RateValues /\ r.quotes[ct] \in RateValues
      BY <2>2, ResponsesDecode DEF IsTable
    <2>4. AmountOf(text) \in Amounts \cup {0}
      BY AmountType DEF TypeInv
    <2>5. label = ShownResult(AmountOf(text), r.quotes[cf], r.quotes[ct])
      BY <2>1, <2>2 DEF ShownUnder
    <2>6. PICK f \in Nat, e \in Int, M \in Nat \ {0} :
            /\ f = r.quotes[cf]
            /\ e = 1000 * (AmountOf(text) * r.quotes[ct])
            /\ M = MinSignificand
      <3>1. r.quotes[cf] \in Nat /\ r.quotes[ct] \in Nat /\ AmountOf(text) \in Int
        <4>1. r.quotes[cf] \in Nat /\ r.quotes[ct] \in Nat
          BY <2>3, RatesArePositive
        <4>2. AmountOf(text) \in Int
          BY <2>4, AmountIsInteger
        <4>. QED
          BY <4>1, <4>2
      <3>2. 1000 * (AmountOf(text) * r.quotes[ct]) \in Int
        BY <3>1
      <3>3. MinSignificand \in Nat \ {0}
        BY SignificandIsLarge
      <3>. QED
        BY <3>1, <3>2, <3>3
    <2>7. label \in Int /\ 2 * M * Abs(label * f - e) <= M * f + 4 * Abs(e)
      <3>1. label \in Int /\ IsNearExact(label, AmountOf(text), r.quotes[cf], r.quotes[ct])
        BY <2>3, <2>4, <2>5, ShownResultIsAccurate
      <3>. QED
        BY <2>6, <3>1 DEF IsNearExact
    <2>8. PICK k \in Nat, b \in Int : k = Abs(label * f - e) /\ b = M * f + 4 * Abs(e)
      BY <2>7 DEF Abs
    <2>9. PICK m \in Nat \ {0} : m = 2 * M
      OBVIOUS
    <2>10. k <= b \div m
      BY <2>7, <2>8, <2>9, AtMostQuotient
    <2>11. Abs(label * r.quotes[cf] - e) <= (MinSignificand * r.quotes[cf] + 4 * Abs(e)) \div (2 * MinSignificand)
      BY <2>6, <2>8, <2>9, <2>10
    <2>12. Accurate(label, AmountOf(text), r.quotes[cf], r.quotes[ct])
      BY <2>6, <2>11 DEF Accurate
    <2>. QED
      BY <2>2, <2>12
  <1>. QED
    BY <1>1, InitTypeInv, NextTypeInv, InitLabel, NextLabel, PTL DEF Spec
=============================================================================
