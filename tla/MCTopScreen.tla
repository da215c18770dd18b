----------------------------- MODULE MCTopScreen -----------------------------
(***************************************************************************)
(* A small instance of TopScreen: three currencies and three answers of    *)
(* the service, one of which has another source and lacks a rate.  Doubles *)
(* have significands of 9 bits, so that 513 is an amount that needs one    *)
(* bit more.                                                               *)
(***************************************************************************)
EXTENDS TopScreen, TLC

MCCodes == {"USD", "JPY", "EUR"}

MCAmounts == {0, 1, 513}

MCScales == {<<2^k, 1>> : k \in 0 .. 16} \cup {<<1, 2^k>> : k \in 1 .. 6}

MCRateListResponses ==
  { [timestamp |-> 1, source |-> "USD",
     quotes |-> (<<"USD", "USD">> :> 10) @@ (<<"USD", "JPY">> :> 214) @@ (<<"USD", "EUR">> :> 4)],
    [timestamp |-> 2, source |-> "USD",
     quotes |-> (<<"USD", "USD">> :> 20) @@ (<<"USD", "JPY">> :> 222) @@ (<<"USD", "EUR">> :> 11)],
    [timestamp |-> 3, source |-> "EUR",
     quotes |-> (<<"EUR", "USD">> :> 11) @@ (<<"EUR", "JPY">> :> 230)] }

\* For the liveness run, rates whose conversions need few scales.
MCFewScales == {<<4, 1>>, <<2, 1>>, <<1, 1>>, <<1, 2>>}

MCFewResponses ==
  { [timestamp |-> 1, source |-> "USD",
     quotes |-> (<<"USD", "USD">> :> 1) @@ (<<"USD", "JPY">> :> 2)] }
=============================================================================
