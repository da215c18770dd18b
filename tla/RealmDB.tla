------------------------------- MODULE RealmDB -------------------------------
(***************************************************************************)
(* The Realm file of the application: its four tables and the write        *)
(* transactions the two interactors run on them.  A Realm write block is   *)
(* one transaction: other threads see all of it or nothing, and a process  *)
(* that dies inside it leaves the file as it was.  So every write block is *)
(* one action here.                                                        *)
(*                                                                         *)
(* A table is a sequence of rows in insertion order where the code reads   *)
(* it with ".first", and a function from the primary key where the class   *)
(* has one (Currency.code, Rate.code).  A list property (CurrencyData.     *)
(* currencies) holds links to rows: it loses an element when the row is    *)
(* deleted, so it is derived from the rows' "owner" and not stored.        *)
(***************************************************************************)
EXTENDS Integers, Sequences

CONSTANTS
  Codes,                  \* currency codes
  defaultFromCurrency,    \* Define.defaultFromCurrency ("USD")
  defaultToCurrency,      \* Define.defaultToCurrency ("JPY")
  RateValues,             \* the exchange rates: positive numbers, left opaque
  CurrencyListResponses,  \* bodies of the list endpoint that decode
  RateListResponses,      \* bodies of the live endpoint that decode
  TTL                     \* 60 * 30 seconds, in ticks of the clock

ASSUME DefaultsAreCodes == {defaultFromCurrency, defaultToCurrency} \subseteq Codes

ASSUME TTLIsPositive == TTL \in Nat \ {0}

(***************************************************************************)
(* The keys of "quotes" are the concatenation of two codes, "USDJPY"; the  *)
(* model keeps the pair.  The primary key makes a set of Rate rows a       *)
(* partial function.                                                       *)
(***************************************************************************)
Pairs == Codes \X Codes

\* f is a table of rows with a primary key in Keys.
IsTable(f, Keys, Rows) ==
  /\ DOMAIN f \subseteq Keys
  /\ f \in [DOMAIN f -> Rows]

ASSUME ResponsesDecode ==
  /\ \A r \in CurrencyListResponses : r \subseteq Codes
  /\ \A r \in RateListResponses :
       /\ r.timestamp \in Nat
       /\ r.source \in Codes
       /\ IsTable(r.quotes, Pairs, RateValues)

UserPreferenceData == [fromCurrency : Codes, toCurrency : Codes]

CurrencyData == [savedAt : Int]

ExchangeRateData == [timestamp : Nat, source : Codes, savedAt : Int]

VARIABLES
  prefs,         \* table UserPreferenceData
  currencyData,  \* table CurrencyData
  currencies,    \* table Currency: code -> index of the CurrencyData it was added with
  rateData,      \* table ExchangeRateData
  rates          \* table Rate: code pair -> rate

rateTables == <<rateData, rates>>

currencyTables == <<currencyData, currencies>>

dbVars == <<prefs, currencyTables, rateTables>>

DBTypeOK ==
  /\ prefs \in Seq(UserPreferenceData)
  /\ currencyData \in Seq(CurrencyData)
  /\ IsTable(currencies, Codes, Nat)
  /\ rateData \in Seq(ExchangeRateData)
  /\ IsTable(rates, Pairs, RateValues)

\* The file before the first launch.
DBInit ==
  /\ prefs = <<>>
  /\ currencyData = <<>>
  /\ currencies = [c \in {} |-> 0]
  /\ rateData = <<>>
  /\ rates = [p \in {} |-> 0]

-----------------------------------------------------------------------------
(***************************************************************************)
(* Reads.                                                                  *)
(***************************************************************************)

\* Variant with a bug: a row counts as stale one tick too early.
IsFreshTooShort(table, t) ==
  /\ table # <<>>
  /\ t - table[1].savedAt < TTL - 1

\* The cache test of both fetch functions: only the first row is looked at.
IsFresh(table, t) ==
  /\ table # <<>>
  /\ t - table[1].savedAt < TTL

-----------------------------------------------------------------------------
(***************************************************************************)
(* Write transactions.                                                     *)
(***************************************************************************)

\* delete every UserPreferenceData, add one with the defaults
SetDefaultUserPreferenceData ==
  prefs' = << [fromCurrency |-> defaultFromCurrency, toCurrency |-> defaultToCurrency] >>

\* Variant with a bug: the row is added, not updated.
SetUserPreferenceDataAdding(from, to) ==
  prefs' = Append(prefs, [fromCurrency |-> from, toCurrency |-> to])

\* Both arguments are given on the only call path, exchangeCurrency; without
\* a row nothing is written.
SetUserPreferenceData(from, to) ==
  prefs' = IF prefs = <<>> THEN prefs
           ELSE [prefs EXCEPT ![1] = [fromCurrency |-> from, toCurrency |-> to]]

\* CurrencyListInteractor.saveSelectedItem: one side of the first row.
SaveSelectedItem(code, isFromCurrency) ==
  prefs' = IF prefs = <<>> THEN prefs
           ELSE IF isFromCurrency
                THEN [prefs EXCEPT ![1].fromCurrency = code]
                ELSE [prefs EXCEPT ![1].toCurrency = code]

\* Every Currency row is deleted and the new ones are added with a new
\* CurrencyData row; the old CurrencyData rows stay, their lists now empty.
SaveCurrencyData(response, t) ==
  /\ currencyData' = Append(currencyData, [savedAt |-> t])
  /\ currencies' = [c \in response |-> Len(currencyData) + 1]

\* Variant with a bug: the Rate rows are updated by primary key, none deleted.
SaveRateDataUpdating(response, t) ==
  /\ rateData' = << [timestamp |-> response.timestamp,
                     source    |-> response.source,
                     savedAt   |-> t] >>
  /\ rates' = [p \in DOMAIN rates \cup DOMAIN response.quotes |->
                 IF p \in DOMAIN response.quotes THEN response.quotes[p] ELSE rates[p]]

\* Every ExchangeRateData and Rate row is deleted, then the new ones added.
SaveRateData(response, t) ==
  /\ rateData' = << [timestamp |-> response.timestamp,
                     source    |-> response.source,
                     savedAt   |-> t] >>
  /\ rates' = response.quotes
=============================================================================
