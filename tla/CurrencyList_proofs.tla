------------------------- MODULE CurrencyList_proofs -------------------------
(***************************************************************************)
(* Proofs about CurrencyList, for every set of codes, every list the       *)
(* service sends, every search and every size of screen.                   *)
(***************************************************************************)
EXTENDS CurrencyList, TLAPS

(***************************************************************************)
(* CheckmarkIsSelection is not inductive: didSelectRowAt takes the old     *)
(* checkmark away only if the table view has that row selected.  It does,  *)
(* because whoever sets a checkmark also selects the row.                  *)
(***************************************************************************)
MarkInv ==
  /\ CheckmarkIsSelection
  /\ marked \subseteq selectedRows
  /\ \A c, d \in selectedCurrencyCode : c = d

LEMMA InitMark == Init => MarkInv
  BY DEF Init, MarkInv, CheckmarkIsSelection

LEMMA NextMark == MarkInv /\ [Next]_vars => MarkInv'
  <1> SUFFICES ASSUME MarkInv, [Next]_vars PROVE MarkInv'
    OBVIOUS
  <1> USE DEF MarkInv, CheckmarkIsSelection
  <1>1. CASE UNCHANGED <<selectedCurrencyCode, drawn, marked, selectedRows>>
    BY <1>1
  <1>2. ASSUME NEW from \in BOOLEAN, Open(from)
        PROVE  MarkInv'
    BY <1>2 DEF Open, ShowCurrencyList, ReloadData
  <1>3. ASSUME NEW w \in Words, Search(w)
        PROVE  MarkInv'
    BY <1>3 DEF Search, ShowCurrencyList, ReloadData
  <1>4. ASSUME NEW c \in Codes, DrawCell(c)
        PROVE  MarkInv'
    <2>1. CASE Crash
      BY <2>1, <1>1 DEF Crash, sheetVars, tableVars
    <2>2. CASE CellForRow(c) /\ UNCHANGED selectedCurrencyCode
      BY <2>2 DEF CellForRow
    <2>. QED
      BY <1>4, <2>1, <2>2 DEF DrawCell, sheetVars
  <1>5. ASSUME NEW c \in Codes, ScrollAway(c)
        PROVE  MarkInv'
    BY <1>5 DEF ScrollAway, sheetVars
  <1>6. ASSUME NEW c \in Codes, DidSelectRow(c)
        PROVE  MarkInv'
    <2>1. CASE Crash
      BY <2>1, <1>1 DEF Crash, sheetVars, tableVars
    <2>2. CASE c \in drawn /\ selectedCurrencyCode' = {c} /\ MoveCheckmark(c) /\ UNCHANGED drawn
      <3>1. marked' = {c}
        BY <2>2 DEF MoveCheckmark
      <3>. QED
        BY <2>2, <3>1 DEF MoveCheckmark
    <2>. QED
      BY <1>6, <2>1, <2>2 DEF DidSelectRow
  <1>7. CASE Close
    BY <1>7 DEF Close, ReloadData
  <1>8. CASE RealmRefreshed \/ (\E r \in CurrencyListResponses : CurrenciesSaved(r))
             \/ UNCHANGED vars
    <2>1. UNCHANGED <<selectedCurrencyCode, drawn, marked, selectedRows>>
      BY <1>8 DEF RealmRefreshed, CurrenciesSaved, vars, sheetVars, tableVars
    <2>. QED
      BY <2>1, <1>1
  <1>. QED
    BY <1>2, <1>3, <1>4, <1>5, <1>6, <1>7, <1>8 DEF Next

(***************************************************************************)
(* Of the cells on the screen exactly the one of selectedCurrencyCode has  *)
(* the checkmark, after any scrolling, searching and selecting             *)
(* (cellForRowAt, didSelectRowAt, didDeselectRowAt).                       *)
(***************************************************************************)
THEOREM CheckmarkIsSelectionHolds == Spec => []CheckmarkIsSelection
  <1>1. MarkInv => CheckmarkIsSelection
    BY DEF MarkInv
  <1>. QED
    BY <1>1, InitMark, NextMark, PTL DEF Spec

-----------------------------------------------------------------------------

\* The preference is one row, which setDefaultUserPreferenceData has written.
OnePreference == prefs \in Seq(UserPreferenceData) /\ Len(prefs) = 1

LEMMA SaveSelectedItemEffect ==
  ASSUME OnePreference, NEW c \in Codes, NEW from \in BOOLEAN, SaveSelectedItem(c, from)
  PROVE  /\ OnePreference'
         /\ PreferredCode(prefs', from) = c
         /\ PreferredCode(prefs', ~from) = PreferredCode(prefs, ~from)
  <1>1. /\ prefs # <<>> /\ 1 \in DOMAIN prefs
        /\ prefs[1] \in UserPreferenceData
    BY DEF OnePreference
  <1>2. PICK p \in UserPreferenceData : prefs' = [prefs EXCEPT ![1] = p]
    <2>1. CASE from
      <3>1. prefs' = [prefs EXCEPT ![1] = [prefs[1] EXCEPT !.fromCurrency = c]]
        BY <1>1, <2>1 DEF SaveSelectedItem
      <3>2. [prefs[1] EXCEPT !.fromCurrency = c] \in UserPreferenceData
        BY <1>1 DEF UserPreferenceData
      <3>. QED
        BY <3>1, <3>2
    <2>2. CASE ~from
      <3>1. prefs' = [prefs EXCEPT ![1] = [prefs[1] EXCEPT !.toCurrency = c]]
        BY <1>1, <2>2 DEF SaveSelectedItem
      <3>2. [prefs[1] EXCEPT !.toCurrency = c] \in UserPreferenceData
        BY <1>1 DEF UserPreferenceData
      <3>. QED
        BY <3>1, <3>2
    <2>. QED
      BY <2>1, <2>2
  <1>3. OnePreference'
    BY <1>2 DEF OnePreference
  <1>4. /\ PreferredCode(prefs', from) = c
        /\ PreferredCode(prefs', ~from) = PreferredCode(prefs, ~from)
    <2>1. CASE from
      <3>1. prefs'[1] = [prefs[1] EXCEPT !.fromCurrency = c]
        BY <1>1, <2>1 DEF SaveSelectedItem
      <3>. QED
        BY <1>1, <2>1, <3>1 DEF PreferredCode, UserPreferenceData
    <2>2. CASE ~from
      <3>1. prefs'[1] = [prefs[1] EXCEPT !.toCurrency = c]
        BY <1>1, <2>2 DEF SaveSelectedItem
      <3>. QED
        BY <1>1, <2>2, <3>1 DEF PreferredCode, UserPreferenceData
    <2>. QED
      BY <2>1, <2>2
  <1>. QED
    BY <1>3, <1>4

\* Only a selection writes the preference, and it writes an existing row's code.
LEMMA WhoWritesPreference ==
  ASSUME [Next]_vars
  PROVE  \/ UNCHANGED prefs
         \/ \E c \in Codes : c \in DOMAIN currencies /\ SaveSelectedItem(c, isFromButton)
  <1>1. ASSUME NEW c \in Codes, DidSelectRow(c)
        PROVE  UNCHANGED prefs \/ (c \in DOMAIN currencies /\ SaveSelectedItem(c, isFromButton))
    BY <1>1 DEF DidSelectRow, Crash, SaveRow, Attached, dbVars
  <1>. QED
    BY <1>1 DEF Next, vars, dbVars, currencyTables, rateTables, Open, Search, DrawCell, Crash,
                ScrollAway, Close, RealmRefreshed, CurrenciesSaved

(***************************************************************************)
(* saveSelectedItem only ever stores a currency of the list stored at that *)
(* moment, on the side the list was opened for.                            *)
(***************************************************************************)
THEOREM OnlyStoredCurrencyIsSavedHolds == Spec => OnlyStoredCurrencyIsSaved
  <1> DEFINE Inv == OnePreference /\ isFromButton \in BOOLEAN
             Step == prefs' # prefs =>
                       /\ PreferredCode(prefs', isFromButton) \in DOMAIN currencies
                       /\ PreferredCode(prefs', ~isFromButton) = PreferredCode(prefs, ~isFromButton)
  <1>1. Init => Inv
    <2> SUFFICES ASSUME Init PROVE Inv
      OBVIOUS
    <2>1. isFromButton \in BOOLEAN
      BY Zenon DEF Init
    <2>2. OnePreference
      BY DefaultsAreCodes DEF Init, OnePreference, UserPreferenceData
    <2>. QED
      BY <2>1, <2>2
  <1>2. Inv /\ [Next]_vars => Inv' /\ Step
    <2> SUFFICES ASSUME Inv, [Next]_vars PROVE Inv' /\ Step
      OBVIOUS
    <2>1. isFromButton' \in BOOLEAN
      <3>1. \A from \in BOOLEAN : Open(from) => isFromButton' = from
        BY DEF Open
      <3>2. (\E from \in BOOLEAN : Open(from)) \/ isFromButton' = isFromButton
        BY DEF Next, vars, sheetVars, Search, DrawCell, ScrollAway, DidSelectRow, Crash, Close,
               RealmRefreshed, CurrenciesSaved
      <3>. QED
        BY <3>1, <3>2, Zenon
    <2>2. CASE UNCHANGED prefs
      BY <2>1, <2>2 DEF OnePreference
    <2>3. ASSUME NEW c \in Codes, c \in DOMAIN currencies, SaveSelectedItem(c, isFromButton)
          PROVE  OnePreference' /\ Step
      <3>1. PICK from \in BOOLEAN : from = isFromButton
        BY Zenon
      <3>2. /\ OnePreference'
            /\ PreferredCode(prefs', from) = c
            /\ PreferredCode(prefs', ~from) = PreferredCode(prefs, ~from)
        BY <2>3, <3>1, SaveSelectedItemEffect
      <3>. QED
        BY <2>3, <3>1, <3>2
    <2>. QED
      BY <2>1, <2>2, <2>3, WhoWritesPreference
  <1>3. Spec => [][Step]_vars
    BY <1>1, <1>2, PTL DEF Spec
  <1>. QED
    BY <1>3 DEF OnlyStoredCurrencyIsSaved

-----------------------------------------------------------------------------
(***************************************************************************)
(* The selection and the stored preference.                                *)
(***************************************************************************)

SelectionInv ==
  /\ OnePreference
  /\ isFromButton \in BOOLEAN
  /\ SelectionIsStored

LEMMA InitSelection == Init => SelectionInv
  <1> SUFFICES ASSUME Init PROVE SelectionInv
    OBVIOUS
  <1>1. isFromButton \in BOOLEAN /\ ~isOpen
    BY Zenon DEF Init
  <1>2. OnePreference
    BY DefaultsAreCodes DEF Init, OnePreference, UserPreferenceData
  <1>. QED
    BY <1>1, <1>2 DEF SelectionInv, SelectionIsStored

LEMMA NextSelection == SelectionInv /\ [Next]_vars => SelectionInv'
  <1> SUFFICES ASSUME SelectionInv, [Next]_vars PROVE SelectionInv'
    OBVIOUS
  <1> USE DEF SelectionInv
  <1>1. CASE UNCHANGED <<prefs, isOpen, isFromButton, selectedCurrencyCode, unsaved>>
    BY <1>1 DEF SelectionIsStored, OnePreference
  <1>2. ASSUME NEW from \in BOOLEAN, Open(from)
        PROVE  SelectionInv'
    <2>1. UNCHANGED prefs /\ isFromButton' = from
          /\ selectedCurrencyCode' = {PreferredCode(prefs, from)}
      BY <1>2 DEF Open, dbVars
    <2>. QED
      BY <2>1 DEF SelectionIsStored, OnePreference
  <1>3. ASSUME NEW c \in Codes, DidSelectRow(c)
        PROVE  SelectionInv'
    <2>1. CASE Crash
      BY <2>1, <1>1 DEF Crash, dbVars, sheetVars
    <2>2. CASE UNCHANGED prefs /\ unsaved' = TRUE /\ UNCHANGED isFromButton
      BY <2>2 DEF SelectionIsStored, OnePreference
    <2>3. CASE /\ SaveSelectedItem(c, isFromButton)
               /\ selectedCurrencyCode' = {c}
               /\ UNCHANGED isFromButton
      <3>1. PICK from \in BOOLEAN : from = isFromButton
        BY Zenon
      <3>2. OnePreference' /\ PreferredCode(prefs', from) = c
        BY <2>3, <3>1, SaveSelectedItemEffect
      <3>. QED
        BY <2>3, <3>1, <3>2 DEF SelectionIsStored
    <2>. QED
      BY <1>3, <2>1, <2>2, <2>3 DEF DidSelectRow, SaveRow
  <1>4. CASE Close
    <2>1. UNCHANGED <<prefs, isFromButton>> /\ isOpen' = FALSE
      BY <1>4 DEF Close, dbVars
    <2>. QED
      BY <2>1 DEF SelectionIsStored, OnePreference
  <1>5. CASE \/ \E w \in Words : Search(w)
             \/ \E c \in Codes : DrawCell(c) \/ ScrollAway(c)
             \/ RealmRefreshed
             \/ \E r \in CurrencyListResponses : CurrenciesSaved(r)
             \/ UNCHANGED vars
    <2>1. UNCHANGED <<prefs, isOpen, isFromButton, selectedCurrencyCode, unsaved>>
      BY <1>5 DEF Search, DrawCell, ScrollAway, Crash, RealmRefreshed, CurrenciesSaved, vars, dbVars,
                  sheetVars
    <2>. QED
      BY <2>1, <1>1
  <1>. QED
    BY <1>2, <1>3, <1>4, <1>5 DEF Next

(***************************************************************************)
(* Unless the write of the last selection has failed, the open list shows  *)
(* the stored currency of its side as the selected one (didSelectRowAt,    *)
(* saveSelectedItem).                                                      *)
(***************************************************************************)
THEOREM SelectionIsStoredHolds == Spec => []SelectionIsStored
  <1>1. SelectionInv => SelectionIsStored
    BY DEF SelectionInv
  <1>. QED
    BY <1>1, InitSelection, NextSelection, PTL DEF Spec

-----------------------------------------------------------------------------
(***************************************************************************)
(* Type correctness.                                                       *)
(***************************************************************************)

FileTypeOK ==
  /\ currencyData \in Seq(CurrencyData)
  /\ IsTable(currencies, Codes, Nat)
  /\ rateData \in Seq(ExchangeRateData)
  /\ IsTable(rates, Pairs, RateValues)

\* The controller's rows, and the cells and selections the table view has of them.
TableTypeOK ==
  /\ IsTable(rows, Codes, Nat)
  /\ drawn \subseteq DOMAIN rows
  /\ marked \subseteq drawn
  /\ selectedRows \subseteq DOMAIN rows

FlagsTypeOK ==
  /\ running \in BOOLEAN
  /\ isOpen \in BOOLEAN
  /\ isFromButton \in BOOLEAN
  /\ unsaved \in BOOLEAN

TypeInv ==
  /\ OnePreference
  /\ FileTypeOK
  /\ FlagsTypeOK
  /\ TableTypeOK
  /\ selectedCurrencyCode \subseteq Codes
  /\ IsTable(shown, Codes, Nat)
  /\ answers \in 0 .. MaxAnswers

LEMMA TypeInvIsTypeOK == TypeInv => TypeOK
  BY DEF TypeInv, TypeOK, DBTypeOK, OnePreference, FileTypeOK, FlagsTypeOK, TableTypeOK

LEMMA InitTypeInv == Init => TypeInv
  <1> SUFFICES ASSUME Init PROVE TypeInv
    OBVIOUS
  <1>1. OnePreference
    BY InitSelection DEF SelectionInv
  <1>2. currencyData \in Seq(CurrencyData) /\ IsTable(currencies, Codes, Nat)
    <2>1. CASE currencyData = <<>> /\ currencies = NoRows
      BY <2>1 DEF NoRows, IsTable
    <2>2. ASSUME NEW r \in CurrencyListResponses, currencyData = << [savedAt |-> 0] >>,
                 currencies = [c \in r |-> 1]
          PROVE  currencyData \in Seq(CurrencyData) /\ IsTable(currencies, Codes, Nat)
      <3>1. [savedAt |-> 0] \in CurrencyData /\ r \subseteq Codes
        BY ResponsesDecode DEF CurrencyData
      <3>. QED
        BY <2>2, <3>1 DEF IsTable
    <2>. QED
      BY <2>1, <2>2 DEF Init
  <1>3. FileTypeOK
    BY <1>2 DEF Init, FileTypeOK, IsTable
  <1>4. FlagsTypeOK
    BY Zenon DEF Init, FlagsTypeOK
  <1>5. TableTypeOK
    BY DEF Init, TableTypeOK, NoRows, IsTable
  <1>6. IsTable(shown, Codes, Nat)
    BY <1>2 DEF Init, IsTable
  <1>7. selectedCurrencyCode \subseteq Codes /\ answers \in 0 .. MaxAnswers
    BY ListBoundsAreNaturals DEF Init
  <1>. QED
    BY <1>1, <1>3, <1>4, <1>5, <1>6, <1>7 DEF TypeInv

\* A new answer's rows and a reload keep the table view well typed.
LEMMA ReloadTypes ==
  ASSUME IsTable(shown, Codes, Nat), NEW codes \in SUBSET Codes, ShowCurrencyList(codes)
  PROVE  TableTypeOK'
  <1>1. rows' = [c \in codes \cap DOMAIN shown |-> shown[c]]
    BY DEF ShowCurrencyList, CurrencyListFromDB, Restrict
  <1>2. IsTable(rows', Codes, Nat)
    BY <1>1 DEF IsTable
  <1>. QED
    BY <1>2 DEF ShowCurrencyList, ReloadData, TableTypeOK

LEMMA NextTypeInv == TypeInv /\ [Next]_vars => TypeInv'
  <1> SUFFICES ASSUME TypeInv, [Next]_vars PROVE TypeInv'
    OBVIOUS
  <1> USE DEF TypeInv
  <1>1. ASSUME UNCHANGED <<currencyTables, rateTables>> PROVE FileTypeOK'
    BY <1>1 DEF FileTypeOK, currencyTables, rateTables, IsTable
  <1>2. ASSUME UNCHANGED tableVars, UNCHANGED rows PROVE TableTypeOK'
    BY <1>2 DEF TableTypeOK, tableVars, IsTable
  <1>3. ASSUME shown' \in {shown, currencies} PROVE IsTable(shown', Codes, Nat)
    BY <1>3 DEF FileTypeOK, IsTable
  <1>4. OnePreference'
    <2>1. CASE UNCHANGED prefs
      BY <2>1 DEF OnePreference
    <2>2. ASSUME NEW c \in Codes, SaveSelectedItem(c, isFromButton) PROVE OnePreference'
      <3>1. PICK from \in BOOLEAN : from = isFromButton
        BY Zenon DEF FlagsTypeOK
      <3>. QED
        BY <2>2, <3>1, SaveSelectedItemEffect
    <2>. QED
      BY <2>1, <2>2, WhoWritesPreference
  <1>5. ASSUME NEW from \in BOOLEAN, Open(from)
        PROVE  TypeInv'
    <2>1. TableTypeOK'
      BY <1>5, ReloadTypes DEF Open
    <2>2. FlagsTypeOK'
      BY <1>5, Zenon DEF Open, FlagsTypeOK
    <2>3. selectedCurrencyCode' \subseteq Codes
      <3>1. prefs # <<>> /\ 1 \in DOMAIN prefs /\ prefs[1] \in UserPreferenceData
        BY DEF OnePreference
      <3>2. prefs[1].fromCurrency \in Codes /\ prefs[1].toCurrency \in Codes
        BY <3>1 DEF UserPreferenceData
      <3>. QED
        BY <1>5, <3>2 DEF Open, PreferredCode
    <2>. QED
      BY <1>1, <1>3, <1>4, <1>5, <2>1, <2>2, <2>3 DEF Open, dbVars
  <1>6. ASSUME NEW w \in Words, Search(w)
        PROVE  TypeInv'
    <2>1. Matches[w] \in SUBSET Codes
      BY MatchesAreCodes
    <2>2. TableTypeOK'
      BY <1>6, <2>1, ReloadTypes DEF Search
    <2>3. FlagsTypeOK'
      BY <1>6, Zenon DEF Search, FlagsTypeOK
    <2>. QED
      BY <1>1, <1>3, <1>4, <1>6, <2>2, <2>3 DEF Search, dbVars
  <1>7. CASE Crash
    <2>1. FlagsTypeOK'
      BY <1>7, Zenon DEF Crash, FlagsTypeOK, sheetVars
    <2>. QED
      BY <1>1, <1>2, <1>3, <1>4, <1>7, <2>1 DEF Crash, dbVars, sheetVars
  <1>8. ASSUME NEW c \in Codes, DrawCell(c), ~Crash
        PROVE  TypeInv'
    <2>1. /\ c \in DOMAIN rows /\ CellForRow(c)
          /\ UNCHANGED <<dbVars, running, sheetVars, shown, answers>>
      BY <1>8 DEF DrawCell
    <2>2. TableTypeOK'
      BY <2>1 DEF CellForRow, TableTypeOK, sheetVars, IsTable
    <2>3. FlagsTypeOK'
      BY <2>1, Zenon DEF FlagsTypeOK, sheetVars
    <2>. QED
      BY <1>1, <1>3, <1>4, <2>1, <2>2, <2>3 DEF dbVars, sheetVars
  <1>9. ASSUME NEW c \in Codes, ScrollAway(c)
        PROVE  TypeInv'
    <2>1. TableTypeOK'
      BY <1>9 DEF ScrollAway, TableTypeOK, sheetVars, IsTable
    <2>2. FlagsTypeOK'
      BY <1>9, Zenon DEF ScrollAway, FlagsTypeOK, sheetVars
    <2>. QED
      BY <1>1, <1>3, <1>4, <1>9, <2>1, <2>2 DEF ScrollAway, dbVars, sheetVars
  <1>10. ASSUME NEW c \in Codes, DidSelectRow(c), ~Crash
         PROVE  TypeInv'
    <2>1. /\ c \in drawn /\ selectedCurrencyCode' = {c} /\ MoveCheckmark(c) /\ shown' = currencies
          /\ SaveRow(c, currencies)
          /\ UNCHANGED <<currencyTables, rateTables, running, isOpen, isFromButton, rows, drawn,
                         answers>>
      BY <1>10 DEF DidSelectRow
    <2>2. TableTypeOK'
      BY <2>1 DEF MoveCheckmark, TableTypeOK, IsTable
    <2>3. FlagsTypeOK'
      BY <2>1, Zenon DEF FlagsTypeOK, SaveRow
    <2>. QED
      BY <1>1, <1>3, <1>4, <2>1, <2>2, <2>3
  <1>11. CASE Close
    <2>1. TableTypeOK'
      BY <1>11 DEF Close, ReloadData, TableTypeOK, NoRows, IsTable
    <2>2. FlagsTypeOK'
      BY <1>11, Zenon DEF Close, FlagsTypeOK
    <2>. QED
      BY <1>1, <1>3, <1>4, <1>11, <2>1, <2>2 DEF Close, dbVars
  <1>12. CASE RealmRefreshed \/ UNCHANGED vars
    <2>1. FlagsTypeOK'
      BY <1>12, Zenon DEF RealmRefreshed, FlagsTypeOK, sheetVars, vars
    <2>. QED
      BY <1>1, <1>2, <1>3, <1>4, <1>12, <2>1 DEF RealmRefreshed, dbVars, sheetVars, vars
  <1>13. ASSUME NEW r \in CurrencyListResponses, CurrenciesSaved(r)
         PROVE  TypeInv'
    <2>1. FileTypeOK'
      <3>1. r \subseteq Codes /\ [savedAt |-> 0] \in CurrencyData
        BY ResponsesDecode DEF CurrencyData
      <3>2. currencyData' \in Seq(CurrencyData) /\ IsTable(currencies', Codes, Nat)
        BY <1>13, <3>1 DEF CurrenciesSaved, SaveCurrencyData, FileTypeOK, IsTable
      <3>. QED
        BY <1>13, <3>2 DEF CurrenciesSaved, FileTypeOK, rateTables, IsTable
    <2>2. FlagsTypeOK'
      BY <1>13, Zenon DEF CurrenciesSaved, FlagsTypeOK, sheetVars
    <2>3. answers' \in 0 .. MaxAnswers
      BY <1>13, ListBoundsAreNaturals DEF CurrenciesSaved
    <2>. QED
      BY <1>2, <1>3, <1>4, <1>13, <2>1, <2>2, <2>3 DEF CurrenciesSaved, sheetVars
  <1>. QED
    BY <1>5, <1>6, <1>7, <1>8, <1>9, <1>10, <1>11, <1>12, <1>13 DEF Next

(***************************************************************************)
(* Type correctness of the list screen: every cell and every selection of  *)
(* the table view belongs to a row the controller has, because each change *)
(* of the rows reloads the table (showCurrencyList).                       *)
(***************************************************************************)
THEOREM TypeOKHolds == Spec => []TypeOK
  BY InitTypeInv, NextTypeInv, TypeInvIsTypeOK, PTL DEF Spec
=============================================================================
