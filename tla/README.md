# CheckExchangeRate: TLA+ models and proofs

CheckExchangeRate is an iOS application (Swift, VIPER) that converts an amount
between two currencies. It loads a currency list and exchange rates from a web
service, keeps them in a Realm file for 30 minutes, and has two screens: Top
(amount, two currency buttons, exchange button, result) and the currency list.
The repository also carries the Realm database it links, as source: the Object
Store (C++) with its own threads, locks and persistent state.

This directory holds TLA+ models of the application's logic and of the three
parts of the Object Store where concurrency and crashes matter, TLC
configurations, and proofs checked by TLAPS. Paths of the application are
relative to `src/CheckExchangeRate/CheckExchangeRate/`, paths of the Object
Store to `src/CheckExchangeRate/Pods/Realm/Realm/ObjectStore/src/`.

## 1. Inventory

| Component | State | Operations | Talks to |
|---|---|---|---|
| Realm file (`Models/Realm`) | tables UserPreferenceData, CurrencyData, Currency, ExchangeRateData, Rate | the write blocks of both interactors | read and written by the main thread and by URLSession's delegate queue |
| Top: loading (`TopInteractor.fetch*`, `save*`, `TopPresenter.viewDidLoad`, `got*List`) | two data tasks per scene, blocks on the main queue | viewDidLoad, two fetches, two completion handlers, hide blocks | file, web service, PKHUD |
| Progress indicator (`showIndicator`, `hideIndicator`; PKHUD, vendored) | one shared HUD, running hide animations | show, hide, end of an animation | Top view |
| Life cycle (`AppDelegate`, `SceneDelegate`, `RootRouter`, routers) | process, scene, one Top module per scene | launch, connect, disconnect, end of the process | builds the Top module |
| Top: conversion (`TopViewController`, `TopPresenter`, `TopInteractor.calcurate`, `exchangeCurrency`) | text field, label, button titles | typing, exchange, currency buttons, viewWillAppear, calcurate | file (in the version Realm shows), list |
| Number format (`Double+Formater`) | none | formatWithComma | calcurate's result |
| Currency list (`Modules/CurrencyList`) | row objects, selectedCurrencyCode, cells, table selection | open, search, draw, scroll, select, close | file, Top screen (appearance transition) |
| Sync metadata and file actions (`sync/sync_manager.cpp`, `sync/impl/sync_file.cpp`, `sync/impl/sync_metadata.cpp`) | metadata Realm (one row per flagged Realm, one per account), Realm files, recovery copies, user directories | `configure` at startup, `run_file_action`, log in and out, client reset, permission error | file system, SyncSession's error handling |
| SyncSession (`sync/sync_session.cpp`) | state, underlying session, two callback lists, deferred close and commit, death and resync counters | revive, close, log_out, refresh_access_token, wait_for_*_completion, handle_error, update_configuration, external references | sync client (event loop thread), SyncManager, SyncUser, binding |
| SyncManager, SyncUser (`sync/sync_manager.cpp`, `sync/sync_user.cpp`) | maps of sessions and users, two mutexes | get_session, register and unregister, log out | SyncSession; modelled as far as one session sees it |
| RealmCoordinator and collection notifiers (`impl/realm_coordinator.cpp`, `impl/collection_notifier.cpp`, `impl/results_notifier.cpp`) | new and running notifiers, advancer, skip version, accumulated changes per callback | register, on_change, run, deliver, refresh, begin and commit a write, suppress | background worker, the thread of each Realm, other processes |
| Rest of the Object Store, Realm core headers, Objective-C++ binding | schema, tables, queries, accessors | many | not modelled, see section 5 |
| Contracts, storyboards, `UIView+Border`, resources, R.swift, `src/test/` | none read back | none | not modelled |

What is hard to get right here, and hard to reach by a test:

- Two threads share the file. The delegate queue commits answers at any time,
  also inside a handler of the main thread and also for a scene that is gone
  (the data task holds its interactor strongly; presenter and view are weak).
- All scenes of a process share one HUD, whose hide animation is asynchronous
  and is not cancelled by `show`.
- The cache test looks at `.first` of a table, so it depends on what earlier
  writes have deleted.
- The list screen keeps managed Realm objects that another thread deletes.
- Failure paths are early returns: nobody is told.
- The checkmark lives in three places (cells, table selection,
  `selectedCurrencyCode`) that different callbacks update.
- The process may end at every point; only the file survives.
- A client reset copies, erases, and forgets in separate steps, over several
  launches, and each step may be the last one of a process.
- SyncSession releases its lock inside state changes, and handlers of sessions
  and deaths that are over still run.
- Notifications are computed by one thread at one version, and delivered by
  another thread at another, in between commits, refreshes and writes.

`PROJECT.json` lists these as hazards, each at its line with the properties
that would catch it.

## 2. Modules

```
RealmDB ──┬── TopFetch ──── MCTopFetch       TopFetch_proofs
          ├── TopScreen ─── MCTopScreen      TopScreen_proofs
          │      └ Conversion
          └── CurrencyList ─ MCCurrencyList  CurrencyList_proofs

SyncFileActions ──────────── MCSyncFileActions  SyncFileActions_proofs
SessionContract ◁─ SyncSession ─ MCSyncSession  SyncSession_proofs
AsyncNotifiers ───────────── MCAsyncNotifiers   AsyncNotifiers_proofs ◁─ AsyncCallbacks_proofs
```

**RealmDB.** The tables and every write transaction. A Realm write block is
atomic and durable, so each is one step. Tables read with `.first` are
sequences in insertion order; tables with a primary key are functions from the
key. `CurrencyData.currencies` is a list of links, which lose their targets
when Currency rows are deleted; each Currency row carries the CurrencyData row
it was added with instead. `savedAt` is the clock at the commit; in the
code it is read a few instructions earlier on the same thread.

**TopFetch.** Loading. `SceneConnect` is scene connection with viewDidLoad up
to the first fetch, `ViewDidLoadRates` the rest; the delegate queue can commit
between them. A completion handler is two steps, the commit (`CurrencyAnswer`,
`RateAnswer`) and the call of `output` (`CallOutput`), because the main thread
runs in between; the delegate queue is serial (`QueueIdle`). `RunMainBlock` is
a `DispatchQueue.main.async` block, `FadeDone` the completion of a hide
animation. `AnswerWithoutData` is the early return, `AnswerNotDecodable` the
`try!` on a body of another shape. `Kill`, `SceneDisconnect` and `Tick` are the
system; the clock is a wall clock and moves both ways.

**Conversion.** `Double(fromAmount) / rateFrom * rateTo` in Double: the
conversion of the amount, the division and the multiplication are each rounded
to a significand of fixed length, half to even (`RoundToDouble`), and
`formatWithComma` rounds what comes out to three digits, half to even. The length
(`MinSignificand`, 2^52 for Double) and the exponents (`Scales`) are constants;
under- and overflow are excluded by an assumption (`ConversionsAreInRange`).
Rates are integers in one unit, which cancels.

**TopScreen.** The Top screen in use. `calcurate` is up to three steps
(`Calcurate`, `LookUpRateFrom`, `LookUpRateTo`), so that a commit of new rates
may fall between its reads. `shown` is the version the main thread's Realm
shows. Nothing on Top keeps a Realm between events, so that an event's first
`try! Realm()` opens the newest version; while the list is open, its rows keep
one, which moves between events (`RealmRefreshed`) or when an event begins a
write. The list appears as a sheet: `RowSelected` writes the preference,
`SheetWillDisappear` runs Top's viewWillAppear, and the dismissal ends
(`SheetGone`) or is cancelled (`DismissalCancelled`). The answers are an
environment action (`RatesSaved`); the indicator is one flag.

**CurrencyList.** The list screen. `rows` remembers for each code which row
object the controller holds; the object is usable in a version only if that
version still has it (`Attached`). Reading another one throws an exception that
Swift cannot catch (`Crash`). `DidSelectRow` is didDeselectRowAt of the old
row, didSelectRowAt and saveSelectedItem, whose write first moves Realm to the
newest version; a failed write is caught and leaves the preference alone.
`DrawCell` and `ScrollAway` are cell reuse. The search predicate is the
constant `Matches`.

The history variable `unsaved` of CurrencyList remembers that the write of
the last selection has failed.

**SyncFileActions.** What survives a launch: the file action of each Realm
(`row`), the Realm files, the recovery copies, the accounts and their
directories. `SyncManager::configure` is a sequence of steps (`Launch`,
`NextAction`, the steps of `run_file_action`, `RemoveRow`, `RowsDone`,
`RemoveUserDirectory`, `RemoveAccount`, `ConfigureDone`); `Kill` ends the
process between any two, `CopyFails` and `RemoveUserDirectoryFails` are the
AccessErrors the code catches. A running process logs in and out, opens and
writes Realms, and gets client resets and permission errors, which write rows,
and may carry out an action at once (`ImmediatelyRunFileActions`). `session` is
the set of Realms whose SyncSession may have an error handled: also one whose
Realm the app has closed, or whose user was logged out, until `EndSession`. (The
dying state takes errors itself, sync_session.cpp:311; one that is being handled
when the session starts to die goes on.) Such an error may overwrite the row while
`run_file_action` is at work, which goes on with what it has read (`run`), and such
a session may write. A user directory is removed file by file
(`RemoveDirectoryEntry`). Contents are numbers, so that a copy can be compared with
what was erased.

**SyncSession.** One session object. An action is one critical section of
`m_state_mutex`, or of `m_session_mutex` in `unregister_session`, which comes
some time after the state change that calls for it (`Unregister`, then
`UnregisterSession`; `unregisters` counts the threads in between); a handler
that releases the lock half way (`handle_error`, a resync) is several, and
`loop` says where the event loop thread stands. `waits` are the operations
started on underlying sessions, each with the counter its handler captured; the
handler of a destroyed session is cancelled and still runs (`Outcomes`).
`EnterInactive`, `EnterDying`, `NewWaits` are the `enter_state` functions,
shared by the actions that call `advance_state`. `Commit` is a local commit and
`nonsync_transact_notify`; `DropReference` and `DidDropExternalReference` are
the two halves of the destructor of an external reference, `GetSession` and
`ExternalReference` those of `get_session`. `missed` is a history variable.

**SessionContract.** What a SyncSession promises: the arrows of the state
diagram in the comment above `SyncSession::State`, and a completion callback
that is called once, by its direction's completion, by an error, or by the step
to INACTIVE. After an automatic resync some callbacks may be out of reach, and
the contract says no more of them than that they are not called twice.
SyncSession implements it with `state` and `status` as they are and `resynced`
as a nonzero resync counter.

**AsyncNotifiers.** One coordinator. A commit is the version it makes, and a set
of changes is the set of commits it covers, so that "every commit is told once"
can be said. `OnChange`, `RunToSkipVersion`, `HandoverAtSkipVersion`,
`RunToVersion` and `HandoverAtVersion` are the worker: in each of its two phases
`run()` of the notifiers is without the lock and `prepare_handover()` with it,
and a callback may be registered in between. (Within one `run()` the reads of
`m_have_callbacks` are taken as one.) `Notify`, `Refresh`/`RefreshDone` and
`BeginTransaction`/`BeginDone` the ways in which a thread advances its Realm and
calls callbacks; `Notify` does so only with autorefresh on (`SetAutoRefresh`);
`SuppressNextNotification` and `CommitTransaction` are the binding's commit
without notifying; `OtherCommit` is another process. Callbacks run while `at[r]`
is "sending", may begin a write and register others; `nested` remembers that one
did. `add_callback` is two steps, `WakeUp` and `AddCallback`, since it wakes the
worker before it sets `m_have_callbacks`; it wakes nobody while its own notifier
is calling callbacks. `overtaken` remembers whose skip version another Realm
instance has replaced. `looked` and `late` remember which notifiers looked for
changes in their last `run()`, and which callbacks came between such a `run()`
that did not and its handover.

**MC modules** hold the values of the constants. Definitions commented "Variant
with a bug" are not used by the specifications: they are alternative forms of
one definition, and replacing it by its variant makes the property named in
`PROJECT.json` fail.

## 3. Runs

| Run | Instance | Result |
|---|---|---|
| `top_fetch` | 2 scenes, clock 0..2, TTL 2, two answers, fair | `TypeOK`, `IndicatorAccountedFor`, `HiddenOnlyAfterData`, `RatesAreOneAnswer`, `RateRequestOnlyWhenStale`, `IndicatorEventuallyHidden` hold |
| `top_screen` | 3 codes, 3 answers, amounts 0, 1, 513, significands of 9 bits | `TypeOK`, `LabelIsOneConversion`, `LabelIsAccurate`, `TitlesArePreference` hold |
| `currency_list` | 3 codes, 2 cells, 2 answers | `TypeOK`, `CheckmarkIsSelection`, `SelectionIsStored`, `OnlyStoredCurrencyIsSaved` hold |
| `file_actions` | 2 Realms of a user, 3 contents, 2 recovery paths, 2 faults, fair | `TypeOK`, `EveryDirectoryHasAnAccount`, `ErasedOnlyAfterBackup`, `RecoveryFilesAreKept`, `RowsOutliveTheirRealms`, `FileActionsHappen` hold |
| `sync_session` | 3 configurations, all errors, 2 underlying sessions, 1 commit, 1 callback, 2 deaths, 1 resync | `TypeOK`, `SessionMatchesState`, `QueuedCallbacksHaveAWait`, `NoCallbackIsLost`, `ActiveSessionKnowsAllCommits`, `DeathWaitsForUploads`, `ImplementsContract`, `HeldSessionIsRegistered` hold |
| `notifiers` | 1 Realm, 1 notifier, 1 callback, 4 versions, fair | `TypeOK`, `EveryCommitIsTold`, `NothingIsToldTwiceOrEarly`, `OnlySuppressedCommitsAreDropped`, `NothingIsDiscarded`, `WorkerAssertionsHold`, `CallbacksCatchUp` hold |
| `currency_restriction` | 3 scenes, clock 0..3 | `CurrencyRequestOnlyWhenStale` is violated |
| `failed_fetches` | 1 scene, fair | `IndicatorEndsWithFetches` is violated |
| `late_rates` | 1 answer, fair | `AmountIsConverted` is violated |
| `deleted_rows` | 2 answers | `RowsOnScreenAreUsable` is violated |
| `two_realms` | 2 Realms, a notifier each, 3 versions | `SuppressionIsForItsCommit` is violated |
| `unregistered_twice` | no errors, 2 threads before unregister_session | `NoAssertionFails` is violated |

What the passing runs show.

- *Application.* While the indicator covers the screen, a fetch, a queued block
  or an animation is under way, or both fetches have failed; it goes only after
  this scene's own data has come, and then it does go. The stored rates are
  those of one answer, also when answers come late, and rates younger than 30
  minutes are not requested again. The label is one conversion, from one answer,
  of what the screen shows, or zero, and differs from the exact quotient by no
  more than half a thousandth and four half units in the last place of Double
  (513 does not fit 9 bits, so that `Double(fromAmount)` already loses a digit);
  the titles of an uncovered screen are the stored preference. The checkmark is
  on the selected currency only, the selection is what is stored unless its
  write failed, and a currency that the stored list has lost is never saved.
- *File actions.* Whatever is killed or fails, a Realm to be backed up is erased
  only when the recovery file that the run read from the row is whole and holds
  the same contents, or what it held before a session that is still up wrote to it;
  no whole recovery file is replaced; a row is forgotten only when its Realm is gone; a
  directory always has an account by which a later launch finds it. Some later
  launch deals with every flagged Realm, except one whose recovery path is taken
  by the file an interrupted run left there: `run_file_action` does not replace
  it, so that reset stays pending.
- *Sync session.* The underlying session is there whenever it is dereferenced
  without a test. The handler of an earlier death never ends a later one. A
  session that becomes active has been told of every commit. Until an automatic
  resync, every queued callback is waited for on the current session. A session
  that somebody holds or is getting is in the manager's map, so that no second one
  is made for its file, although `unregister_session` may come after the session
  was handed out again.
- *Notifiers.* From its first call on a callback hears of each commit once, not
  before its thread shows it, and in the end of all, except of the commits it
  asked not to hear of. The last half holds while autorefresh is on, the
  default: with it off `Realm::notify` passes over the commit
  (shared_realm.cpp:847), and only `refresh()`, a write or a later commit brings
  it. A Realm that refreshes or writes never overtakes its notifiers.

Some properties of the Object Store name the case in which the code does not
keep them, instead of leaving the case out of the model.

- A resync moves the callbacks aside, releases the lock in
  `advance_state(inactive)` and puts them back: what another thread queues in
  between is overwritten (`NotResynced`, `resynced` in the contract).
- `handle_error` releases the lock between its sections. When the session has
  become inactive in between, the assertion in `advance_state` fails; the model
  stops there (`failed`), which is why deadlock is not checked. With errors in the
  instance TLC finds this violation of `NoAssertionFails` in five steps;
  `unregistered_twice` leaves them out and finds the other one.
- When `immediately_run_file_actions` works on a Realm whose session is still up,
  what the sync client writes between the copy and the erasure is lost (`wrote` in
  `ErasedOnlyAfterBackup`). And when an error overwrites the row meanwhile, the row
  that is removed in the end is the new one: after a permission error is overtaken by
  a client reset, the Realm is erased without a backup, and the recovery path that
  the app was told stays empty.
- `get_session` revives a known session before it takes the reference. The
  destructor of the previous reference may close the session in between, and a
  commit through the new reference is then not announced by the dying state
  (`missed`).
- A callback that begins a write transaction moves its Realm past the version
  its notifiers ran for, and a callback registered by a callback may wake nobody
  (`nested`).
- `run()` reads `m_have_callbacks` without the lock. The first callback of a
  notifier that was used without one, registered and called between that read and
  `prepare_handover()`, is not told of what the run passed over (`late`).
- A run without callbacks may leave `m_previous_rows` at an earlier version than
  the notifier. A callback whose first call comes before the next run is then told
  once more of commits that its first call has shown: `EveryCommitIsTold`,
  `NothingIsDiscarded` and `OnlySuppressedCommitsAreDropped` speak of the commits
  after the first call (`since`), and the debug assertion of `add_changes`, that
  nothing is accumulated when a callback skips, does not hold for such commits.
- `m_notifier_skip_version` is one for all Realm instances of a file. Once a commit of
  another instance that has notifiers has replaced it, a commit that nobody suppressed
  may be dropped with the suppressed one: `OnlySuppressedCommitsAreDropped` speaks of
  callbacks that are not `overtaken`, and the run `two_realms` shows what happens to
  the others.
- `skip_next` is set inside the write transaction and cleared by the next
  `add_changes`, whatever that hands over. When the worker, woken by an earlier
  commit, hands over between `suppress_next_notification` and the commit, that run
  uses the flag up and the callback is told of the commit it suppressed, although
  `RLMRealm.h` says that it is made "without notifying specific notification
  blocks". The model has this behaviour; `OnlySuppressedCommitsAreDropped` states
  the other half, that no other commit is lost.

What the violations show (each is a finding in `PROJECT.json` with the line of
the repository it contradicts).

- `saveCurrencyData` deletes Currency rows but no CurrencyData row. `.first`
  stays the oldest row: after 30 minutes the list is requested at every launch.
  Until then the cached branch hands out the links of that row, which are empty
  once a second answer has replaced the Currency rows; the presenter does not look
  at them, so nothing on the screen depends on it.
- Two fetches without data leave the indicator up for good.
- The first answer unlocks the screen. An amount typed before the rates arrive
  stays at 0. (By the same token a list opened before the currencies arrive stays
  empty, since viewDidLoad reads the rows once.)
- A currency answer that arrives while the list is open deletes the rows the
  controller holds; the next draw or tap ends the process.
- Two Realm instances r1 and r2 of one file have notifiers. r1 commits and
  suppresses, r2 commits before the worker runs: the worker stops at the commit of
  r2 only, and the callback of r1 misses both, although `RLMRealm.h` promises
  silence for "the changes made in this write transaction" only.
- `log_out` makes a session inactive and releases the lock; before it reaches
  `unregister_session`, the last reference goes and its destructor closes the
  inactive session, which unregisters it as well. The second of the two fails
  `REALM_ASSERT(it != m_sessions.end())`, which this build keeps.

**Bounds.** `MaxScenes` 2 lets one scene be connected while answers of an
earlier one are late, over any number of launches (3 in the violation runs that
need two earlier ones). `TTL` 2 with a clock of 0..2 gives fresh, just expired
and, set back, negative ages; `currency_restriction` needs one more tick,
because a fresh row must follow an expired one. `MaxAnswers` 2 allows a commit
inside and another after an event. Two cells for three rows force scrolling. The
three rate answers differ in every rate; one has another source and lacks a
rate; the quotients do not end after three digits, so that rounding matters, and
513 needs ten bits where a significand has nine, so that every rounding of Double
happens (`late_rates` needs none of this and has one answer of simple rates). The UI
test's expectation that twice the amount shows twice the result
(TopScreeenUITests.swift:64) is not a property: rounded results do not double in
general. Amount 0 is also every text that is not an `Int` typed by the
user (`Int(text) ?? 0`), the empty text is the `nil` that viewWillAppear sees.

`SyncFileActions`: two Realms, so that one action is interrupted while another
waits; two recovery paths and three contents, so that a Realm is reset, opened
again and reset again, also while a run is at work on it; two faults, so that a
retry fails too. `SyncSession`: two
underlying sessions, so that handlers of a destroyed one meet the next; two
deaths with a revival between; one automatic resync; two waits at a time, a
completion and a death; one thread of the application and the event loop before
`unregister_session` (two of the application in `unregistered_twice`); the proofs
below need no bound. `AsyncNotifiers`: four versions are a first delivery, a
suppressed commit, one of another process and one more; the proofs need no bound.
`two_realms` explores the behaviours in which autorefresh stays on, which are
enough for its violation. The largest passing runs have 4.5 million
(`sync_session`), 1.0 million (`file_actions`) and 0.24 million distinct states
(`notifiers`, whose liveness property makes it the slower one).

Deadlock checking is off for CurrencyList, whose process has ended after
`Crash`, for SyncSession (`failed`, and sessions that are torn down for good)
and for AsyncNotifiers (everything delivered and every version used).

**Fairness.** Weak fairness for what the platform promises: the run loop goes
on with a handler and with queued blocks, animations end, a data task calls its
handler (URLSession has a request timeout), a started handler goes on, the
refresh notification of a Realm that is kept is delivered. In
TopScreen also that the indicator goes, which is `IndicatorEventuallyHidden` of
TopFetch when a fetch has data. Nothing is assumed of the user, the scene, the
clock, a relaunch or the success of a request.

In SyncFileActions the steps of a startup are calls of one thread that waits
for nobody (weak fairness), and an app that runs is ended and started again
(strong fairness of `Quit`; a launch is a startup step): without it no later
launch would come, which is when pending actions are carried out. Faults are
bounded, which says that a launch is not interrupted for ever. In AsyncNotifiers
the worker runs when woken, run loops deliver what is scheduled, a callback
returns, a wait whose condition holds again and again ends (strong fairness, a
condition variable that is notified each time; likewise a run loop that is free
again and again delivers a notification), and nobody stays in a write
transaction.

## 4. Proofs

All are for every value of the constants that satisfies the ASSUMEs: the
defaults are codes, the TTL is positive, bodies that decode have the decoded
shape, bounds are naturals, rates are positive integers that a Double holds,
amounts are integers, a significand has at least two bits and no conversion leaves
the exponent range; every Realm has an owner; upload and download callbacks are
different ones; every notifier is of a Realm instance and every callback of a
notifier.

| Module | Theorem | Says |
|---|---|---|
| TopFetch | `TypeCorrect` | types |
| | `HiddenOnlyAfterDataHolds` | no block, answer or animation of an earlier scene lifts the indicator |
| | `IndicatorAccountedForHolds` | a covered screen is explained |
| | `RateRequestOnlyWhenStaleHolds` | the 30 minute restriction on rates |
| | `RatesAreOneAnswerHolds` | the stored rates are those of one answer |
| TopScreen | `TypeOKHolds` | types |
| | `TitlesArePreferenceHolds` | an uncovered Top screen shows the stored preference |
| | `LabelIsOneConversionHolds` | the label never mixes answers, amounts or currencies |
| | `LabelIsAccurateHolds` | the error of the label, Double's roundings included |
| CurrencyList | `TypeOKHolds` | types |
| | `CheckmarkIsSelectionHolds` | the checkmark is the selection |
| | `SelectionIsStoredHolds` | the selection is stored unless its write failed |
| | `OnlyStoredCurrencyIsSavedHolds` | only a stored currency becomes the preference, on the list's own side |
| SyncFileActions | `TypeOKHolds` | types |
| | `EveryDirectoryHasAnAccountHolds` | no directory is forgotten |
| | `ErasedOnlyAfterBackupHolds` | nothing is erased before its copy is whole, whatever the row says by then |
| | `RecoveryFilesAreKeptHolds` | whole recovery files stay |
| | `RowsOutliveTheirRealmsHolds` | an action is forgotten only when its Realm is gone |
| SyncSession | `TypeOKHolds` | types |
| | `SessionMatchesStateHolds` | the underlying session exists when it is dereferenced |
| | `NoCallbackIsLostHolds`, `QueuedCallbacksHaveAWaitHolds` | queued callbacks stay queued and are waited for |
| | `ActiveSessionKnowsAllCommitsHolds` | an active session was told of every commit |
| | `DeathWaitsForUploadsHolds` | a death is ended by its own wait |
| | `HeldSessionIsRegisteredHolds` | late unregistering leaves a held session in the map |
| | `ImplementsContractHolds` | SyncSession refines SessionContract |
| AsyncNotifiers | `TypeOKHolds` | types |
| | `WorkerAssertionsHoldAlways` | the assertions of run_async_notifiers, and what the advancer may read |
| | `NothingIsToldTwiceOrEarlyHolds` | no commit is told twice or too early |
| | `EveryCommitIsToldHolds` | a callback hears of each commit, or has suppressed it |
| | `NothingIsDiscardedHolds` | no package that matters is made in vain |
| | `OnlySuppressedCommitsAreDroppedHolds` | what is dropped was asked for, until another instance overtakes |

The arguments:

- *Indicator* (`IndicatorInv`). The two indicator properties are not inductive.
  They need that only presenters with data have queued a block (`QueueInv`),
  that only a loaded scene with data is fading (`FadeInv`, true because entering
  the background ends animations), that data that has arrived is on its way to
  hide the indicator (`HideInv`), that viewDidLoad starts both fetches behind
  the indicator (`LoadInv`), and that a new scene starts with nothing
  (`ScenesInv`).
- *Rate restriction* (`OneRateRow`). saveRateData deletes all old rows, so
  `.first` is the only row. CurrencyData lacks just this, and the restriction
  fails there.
- *Label* (`LabelInv`). The tables of every version come from one answer
  (`OneAnswer`), and calcurate in progress holds what the screen shows and a
  rate of the version it began with (`CalcInv`); it uses that a handler's
  version does not move. An empty text has a zero label (`EmptyShowsZero`),
  which is why the titles may change under it.
- *Checkmark* (`MarkInv`). Whoever sets a checkmark also selects the row, so
  didDeselectRowAt reaches every checkmark that must go.
- *Saving*. Only a selection writes the preference, and `SaveRow` reads the row
  in the version the write has just moved to.
- *Accurate label*. `DoubleIsNear`: an operation of Double is off by at most half a
  unit, that is, by the exact result over twice MinSignificand. `ThreeErrors` and
  `ErrorsAddUp` put three of them and the rounding to thousandths together; that four
  half units suffice for three roundings uses that a significand is long enough for
  the products of the errors to stay below the fourth.
- *File actions*. What a run has read of the row (`RunInv`) is kept apart from the
  row, which an error may overwrite; no two of the paths in rows and runs are the
  same (`RowInv`, `RunInv`), so nobody else touches the copy; `WorkInv` says what is
  on disk at each point of `run_file_action`, and that only a write of the Realm's own
  session makes it differ from the copy. A Realm under work is not open and has a row
  (`StageInv`).
  That a directory has an account (`AccountInv`) needs that the directories of
  the accounts in `cleared` are gone and are not made again before the accounts
  are removed.
- *Sync session*. `StepForms` reduces the many actions to fourteen forms of what
  a step can do to the core state; each invariant is then preserved form by
  form. `CallbackInv` adds to NoCallbackIsLost what a resync has moved aside:
  those callbacks are still waiting and none is queued. `CommitInv` says what is
  announced or deferred in each state. `DeathInv` says that a death wait with
  the current count is one on the current session that covers all it was told
  of, and that older waits cover no more: revival and closing again raises the
  count. The refinement uses `SessionInv`, `CallbackInv` and `DirectionInv`.
  `HeldSessionIsRegistered` is inductive over `UnregisterForms`: only
  `unregister_session` shrinks the map, and it looks at the reference under the
  mutex that `get_session` holds until the reference exists.
- *Notifiers* (`WorkerInv`). The pin is set exactly while there are new notifiers
  and is not newer than any of them (`PinInv`); a skip version is set only while
  a notifier is in the main list and none of them is past it (`SkipInv`). Both
  are dropped by clean_up_dead_notifiers with the last notifier they are for, so
  what a run of the worker takes over satisfies its assertions, and while it runs
  without the mutex its notifiers are no longer new and no later commit sets a
  skip version behind it (`RunInv`).
- *Callbacks* (module AsyncCallbacks_proofs). The invariants follow a change on its
  way. `ThreadInv`: a Realm that writes is at the latest version, and a wait is for
  a version its Realm is not past. `PlaceInv`: the notifiers that have run are at
  one version whenever somebody may package, so it does not matter whose version a
  package takes. `FoundInv`: a run finds commits after those it has seen, and one
  that looked has found all that its handover passes. `ToldInv`: found, accumulated
  and told are disjoint, and the Realm shows what is told; this is enough for
  `NothingIsToldTwiceOrEarly`.
- For an undisturbed callback, `CallbackInv` keeps its notifier alive and looking,
  `LateInv` says that the notifier has looked for what it is handing over, and
  `WriteInv` that a write transaction that has begun has called it at the latest
  version. `PaceInv` is the centre: what its notifier has passed was told, dropped
  or is accumulated (`Covered`); its Realm is at most one commit ahead of the
  notifier, the one it made itself, and while it is ahead or writes nothing new is
  accumulated (`Ahead`); a run at the version of the notifier finds nothing new
  (`Compared`). With the predicate of package_and_wait the callback is called
  whenever a wait ends (`CalledAfterWait`), so packaging in vain loses nothing.
- *Suppression* (`SuppressInv`). A callback with skip_next either has its commit
  before it, and then its notifier is at the latest version and hands over nothing
  new, or the version after that of its notifier is suppressed and is the skip
  version, in the coordinator or in the worker (`Awaits`): the next handover that
  brings anything new brings just that commit. The step that breaks `Awaits` is the
  commit of another instance that has notifiers, and it puts the callback into
  `overtaken`.

The attempt to prove `NothingIsDiscarded` and `EveryCommitIsTold` changed the
model: `run()` and `prepare_handover()` had been one step, which hid the late
callbacks, and "nothing is ever packaged in vain" is false with two callbacks
(one that was not called yet loses nothing by it).

Only model-checked: the liveness properties (`IndicatorEventuallyHidden`,
`FileActionsHappen`, `CallbacksCatchUp`), since liveness under fairness is out of
the prover's reach, and the six violations.

## 5. Not modelled

*Application.* Layout and resources, the contracts (protocols without
behaviour), generated code; NaN, infinities and subnormal numbers, and the grouping
commas; the key `source + currency` is a pair of codes; a write that fails under
`try! realm.write` (a full disk) ends the process, as `Kill` does. `Define`'s
URLs are constants that parse, so the early return on a bad URL is unreachable.
TopFetch, TopScreen and CurrencyList are not composed: each takes what the
others do to the file as an environment action. PKHUD is modelled as far as the
Top screen calls it (show, hide).

*Realm.* By far most lines of the repository are vendored C++: about 100 000
lines, of which most are headers of Realm core (arrays, B+trees, columns, query
expressions, transaction logs, networking). They are templates and inline
accessors of a library whose implementation ships as a binary and is not in the
repository, so that there is no algorithm to translate behind most of them; a
model of the headers would restate declarations. Of the Object Store, whose
source is there, the three parts above carry the protocols between threads,
processes and launches. Left out of them: progress and connection callbacks, the
server override and the configuration of the underlying session (SyncSession);
the maps of several sessions and of users, the mutex of a user, the reference
count of an external reference (a temporary one in `unregister_session` may be
the last), admin users, and invalidated users; errors of the helper SharedGroup,
KVO observers, the cache of Realms, and the branch of `Realm::notify` without a
read transaction (shared_realm.cpp:857, only after `invalidate()`)
(RealmCoordinator). Left out altogether: schema and migrations, object and list
accessors, partial sync, permissions and async open, which keep no concurrent
state of their own or are not reached by the application, and the Objective-C++
binding, which wraps Object Store calls.

## 6. Plan

Done: RealmDB, TopFetch, Conversion, TopScreen and CurrencyList with their
proofs; SyncFileActions, SyncSession with SessionContract, and their proofs;
AsyncNotifiers and the proofs of all its invariants. What remains, in order of
worth:

1. `App`: TopFetch, TopScreen and CurrencyList over one file, with the real
   indicator in place of `blocked` and the real answers in place of
   `RatesSaved` and `CurrenciesSaved`.
2. An abstract cache that refreshes at most once per TTL, implemented by the
   rate side of TopFetch.
3. SyncManager and SyncUser as owners of several sessions, with their two
   mutexes, which `log_out` and `get_session` take in opposite orders.
