------------------------------ MODULE MCTopFetch ------------------------------
(***************************************************************************)
(* Small instances of TopFetch: three currencies, one or two bodies per    *)
(* endpoint.                                                               *)
(***************************************************************************)
EXTENDS TopFetch

MCCodes == {"USD", "JPY", "EUR"}

MCCurrencyListResponses == { {"USD", "JPY", "EUR"} }

MCRateListResponses ==
  { [timestamp |-> 1, source |-> "USD",
     quotes |-> [p \in {<<"USD", "USD">>, <<"USD", "JPY">>} |-> "a"]] }

\* Answers of two moments; the second one leaves a currency out.
MCTwoMoments ==
  MCRateListResponses \cup
  { [timestamp |-> 2, source |-> "USD", quotes |-> [p \in {<<"USD", "USD">>} |-> "a"]] }
=============================================================================
