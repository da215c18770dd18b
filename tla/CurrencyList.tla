----------------------------- MODULE CurrencyList -----------------------------
(***************************************************************************)
(* The currency list screen: its rows, its table view with the checkmark,  *)
(* the search and the selection, while the delegate queue may commit a new *)
(* currency list.                                                          *)
(*                                                                         *)
(* The rows are managed Realm objects.  saveCurrencyData deletes them, and *)
(* from the moment the main thread's Realm shows that commit, reading a    *)
(* property of such a row throws, which Swift cannot catch: the process    *)
(* ends.  Realm shows the commit when the run loop refreshes it or when    *)
(* the main thread begins a write.                                         *)
(***************************************************************************)
EXTENDS RealmDB, Functions, FiniteSets

CONSTANTS
  Words,      \* search words
  Matches,    \* Matches[w]: the codes whose code or full name contains w
  Cells,      \* bound: cells that fit on the screen
  MaxAnswers  \* bound: currency answers committed in a behavior

ASSUME MatchesAreCodes == Matches \in [Words -> SUBSET Codes]

ASSUME ListBoundsAreNaturals == Cells \in Nat \ {0} /\ MaxAnswers \in Nat

VARIABLES
  running,               \* the process has not ended
  isOpen,                \* the list screen is presented
  isFromButton,          \* which side of the preference it edits
  rows,                  \* the controller's currencies: code -> owner of the row object
  selectedCurrencyCode,  \* {code}, or {} before the first list
  unsaved,               \* history: the write of the last selection has failed
  drawn,                 \* codes of the rows that have a cell on the screen
  marked,                \* codes of the cells with a checkmark
  selectedRows,          \* the table view's own selection, at most one row
  shown,                 \* the Currency table the main thread's Realm shows
  answers                \* currency answers committed so far

sheetVars == <<isOpen, isFromButton, rows, selectedCurrencyCode, unsaved>>

tableVars == <<drawn, marked, selectedRows>>

vars == <<dbVars, running, sheetVars, tableVars, shown, answers>>

NoRows == [c \in {} |-> 0]

\* The row object of code c still exists in version v of the Currency table.
Attached(c, v) == c \in DOMAIN v /\ v[c] = rows[c]

\* The side of the preference this list edits.
PreferredCode(p, from) == IF from THEN p[1].fromCurrency ELSE p[1].toCurrency

\* The Top screen is up, with the list of an earlier launch in the file or none.
Init ==
  /\ prefs = << [fromCurrency |-> defaultFromCurrency, toCurrency |-> defaultToCurrency] >>
  /\ \/ currencyData = <<>> /\ currencies = NoRows
     \/ \E r \in CurrencyListResponses :
          /\ currencyData = << [savedAt |-> 0] >>
          /\ currencies = [c \in r |-> 1]
  /\ rateData = <<>>
  /\ rates = [p \in {} |-> 0]
  /\ running = TRUE
  /\ isOpen = FALSE
  /\ isFromButton = TRUE
  /\ rows = NoRows
  /\ selectedCurrencyCode = {}
  /\ unsaved = FALSE
  /\ drawn = {}
  /\ marked = {}
  /\ selectedRows = {}
  /\ shown = currencies
  /\ answers = 0

-----------------------------------------------------------------------------

\* reloadData drops the cells and the selection; the cells are then drawn anew.
ReloadData ==
  /\ drawn' = {}
  /\ marked' = {}
  /\ selectedRows' = {}

\* Variant with a bug: the rows change under the table view.
ReplaceRowsOnly(codes) ==
  /\ rows' = Restrict(shown, codes \cap DOMAIN shown)
  /\ UNCHANGED tableVars

\* getCurrencyListFromDB: the rows that match, in the version Realm shows.
CurrencyListFromDB(codes) == Restrict(shown, codes \cap DOMAIN shown)

ShowCurrencyList(codes) ==
  /\ rows' = CurrencyListFromDB(codes)
  /\ ReloadData

\* An uncaught exception: "Object has been deleted or invalidated."
Crash ==
  /\ running' = FALSE
  /\ UNCHANGED <<dbVars, sheetVars, tableVars, shown, answers>>

\* A currency button of the Top screen: the new controller is told the code on
\* the button, which is the stored one; its viewDidLoad reads the whole list.
Open(from) ==
  /\ running
  /\ ~isOpen
  /\ isOpen' = TRUE
  /\ isFromButton' = from
  /\ selectedCurrencyCode' = {PreferredCode(prefs, from)}
  /\ unsaved' = FALSE
  /\ ShowCurrencyList(Codes)
  /\ UNCHANGED <<dbVars, running, shown, answers>>

\* searchBar(textDidChange:) and searchBarSearchButtonClicked
Search(word) ==
  /\ running
  /\ isOpen
  /\ ShowCurrencyList(Matches[word])
  /\ UNCHANGED <<dbVars, running, isOpen, isFromButton, selectedCurrencyCode, unsaved, shown,
                 answers>>

\* Variant with a bug: the checkmark without the table's selection.
CellForRowUnselected(c) ==
  /\ drawn' = drawn \cup {c}
  /\ marked' = IF c \in selectedCurrencyCode THEN marked \cup {c} ELSE marked
  /\ UNCHANGED selectedRows

\* tableView(cellForRowAt:) for a row that comes onto the screen; the cell is
\* a reused one, and selectRow moves the table's selection without a callback.
CellForRow(c) ==
  /\ drawn' = drawn \cup {c}
  /\ IF c \in selectedCurrencyCode
     THEN /\ marked' = marked \cup {c}
          /\ selectedRows' = {c}
     ELSE UNCHANGED <<marked, selectedRows>>

DrawCell(c) ==
  /\ running
  /\ isOpen
  /\ c \in DOMAIN rows \ drawn
  /\ Cardinality(drawn) < Cells
  /\ \/ /\ ~Attached(c, shown)
        /\ Crash
     \/ /\ Attached(c, shown)
        /\ CellForRow(c)
        /\ UNCHANGED <<dbVars, running, sheetVars, shown, answers>>

ScrollAway(c) ==
  /\ running
  /\ c \in drawn
  /\ drawn' = drawn \ {c}
  /\ marked' = marked \ {c}
  /\ UNCHANGED <<dbVars, running, sheetVars, selectedRows, shown, answers>>

\* tableView(didDeselectRowAt:) for the row selected before, if its cell is on
\* the screen, then the checkmark of didSelectRowAt.
MoveCheckmark(c) ==
  /\ marked' = (marked \ selectedRows) \cup {c}
  /\ selectedRows' = {c}

\* Variant with a bug: the code read before the write is saved.
SaveCodeReadBefore(c, v) ==
  \/ SaveSelectedItem(c, isFromButton) /\ unsaved' = FALSE
  \/ UNCHANGED prefs /\ unsaved' = TRUE

\* Variant with a bug: the currency goes to the other side.
SaveRowOtherSide(c, v) ==
  /\ Attached(c, v)
  /\ SaveSelectedItem(c, ~isFromButton)
  /\ unsaved' = FALSE

\* saveSelectedItem of the row c: the write first moves Realm to the newest
\* version v, in which the row is read; the commit may fail, which is caught.
SaveRow(c, v) ==
  /\ Attached(c, v)
  /\ \/ SaveSelectedItem(c, isFromButton) /\ unsaved' = FALSE
     \/ UNCHANGED prefs /\ unsaved' = TRUE

\* tableView(didSelectRowAt:) reads the row before the write and inside it.
DidSelectRow(c) ==
  /\ running
  /\ c \in drawn
  /\ \/ /\ ~Attached(c, shown) \/ ~Attached(c, currencies)
        /\ Crash
     \/ /\ Attached(c, shown)
        /\ selectedCurrencyCode' = {c}
        /\ SaveRow(c, currencies)
        /\ MoveCheckmark(c)
        /\ shown' = currencies
        /\ UNCHANGED <<currencyTables, rateTables, running, isOpen, isFromButton, rows,
                       drawn, answers>>

\* The sheet is dismissed; the controller goes, and its row objects with it.
Close ==
  /\ running
  /\ isOpen
  /\ isOpen' = FALSE
  /\ rows' = NoRows
  /\ selectedCurrencyCode' = {}
  /\ unsaved' = FALSE
  /\ ReloadData
  /\ UNCHANGED <<dbVars, running, isFromButton, shown, answers>>

-----------------------------------------------------------------------------

RealmRefreshed ==
  /\ running
  /\ shown # currencies
  /\ shown' = currencies
  /\ UNCHANGED <<dbVars, running, sheetVars, tableVars, answers>>

\* The delegate queue commits an answer of the list endpoint, at any time.
CurrenciesSaved(response) ==
  /\ running
  /\ answers < MaxAnswers
  /\ answers' = answers + 1
  /\ SaveCurrencyData(response, 0)
  /\ UNCHANGED <<prefs, rateTables, running, sheetVars, tableVars, shown>>

Next ==
  \/ \E from \in BOOLEAN : Open(from)
  \/ \E w \in Words : Search(w)
  \/ \E c \in Codes : DrawCell(c) \/ ScrollAway(c) \/ DidSelectRow(c)
  \/ Close
  \/ RealmRefreshed
  \/ \E r \in CurrencyListResponses : CurrenciesSaved(r)

Spec == Init /\ [][Next]_vars

-----------------------------------------------------------------------------
(***************************************************************************)
(* Properties.                                                             *)
(***************************************************************************)

TypeOK ==
  /\ DBTypeOK
  /\ Len(prefs) = 1
  /\ running \in BOOLEAN
  /\ isOpen \in BOOLEAN
  /\ isFromButton \in BOOLEAN
  /\ IsTable(rows, Codes, Nat)
  /\ selectedCurrencyCode \subseteq Codes
  /\ unsaved \in BOOLEAN
  /\ drawn \subseteq DOMAIN rows
  /\ marked \subseteq drawn
  /\ selectedRows \subseteq DOMAIN rows
  /\ IsTable(shown, Codes, Nat)
  /\ answers \in 0 .. MaxAnswers

(***************************************************************************)
(* Of the cells on the screen exactly the one of selectedCurrencyCode has  *)
(* the checkmark, whatever was scrolled away, searched and selected in     *)
(* between: cellForRowAt sets it from the code, didSelectRowAt and         *)
(* didDeselectRowAt move it by the table's own selection, and the two must *)
(* agree.                                                                  *)
(***************************************************************************)
CheckmarkIsSelection == marked = drawn \cap selectedCurrencyCode

(***************************************************************************)
(* The stored preference only ever becomes a currency that the stored list *)
(* contains at that moment: a row that a new list has dropped cannot be    *)
(* saved, since saveSelectedItem reads it inside the write.  And a list    *)
(* opened for one side never changes the other.                            *)
(***************************************************************************)
OnlyStoredCurrencyIsSaved ==
  [][prefs' # prefs =>
       /\ PreferredCode(prefs', isFromButton) \in DOMAIN currencies
       /\ PreferredCode(prefs', ~isFromButton) = PreferredCode(prefs, ~isFromButton)]_vars

(***************************************************************************)
(* The currency the open list shows as selected is the stored one, after   *)
(* any sequence of selections, searches and new lists.  didSelectRowAt     *)
(* moves the selection before saveSelectedItem writes, and the error of    *)
(* the write is caught and printed: only a failed write of the last        *)
(* selection makes the two differ, and the next selection mends it.        *)
(***************************************************************************)
SelectionIsStored ==
  isOpen /\ ~unsaved => selectedCurrencyCode = {PreferredCode(prefs, isFromButton)}

(***************************************************************************)
(* Drawing or tapping a row of the list never ends the process.  A list    *)
(* answer that arrives while the screen is open deletes the rows it shows. *)
(***************************************************************************)
RowsOnScreenAreUsable == running
=============================================================================
