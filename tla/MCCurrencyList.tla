---------------------------- MODULE MCCurrencyList ----------------------------
(***************************************************************************)
(* Small instances of CurrencyList: three currencies, two lists of which   *)
(* one lacks a currency, and a screen of two cells, so that a row must be  *)
(* scrolled away to see another.                                           *)
(***************************************************************************)
EXTENDS CurrencyList, TLC

MCCodes == {"USD", "JPY", "EUR"}

MCWords == {"", "U"}

MCMatches == ("" :> MCCodes) @@ ("U" :> {"USD", "EUR"})

MCCurrencyListResponses == {MCCodes, {"USD", "JPY"}}
=============================================================================
