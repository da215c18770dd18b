------------------------------- MODULE TopFetch -------------------------------
(***************************************************************************)
(* Loading the data of the Top screen: the life of the process and of its  *)
(* one scene, TopPresenter.viewDidLoad with its two fetches, the           *)
(* completion handlers of the two data tasks, and the progress indicator.  *)
(*                                                                         *)
(* Three threads of control meet here.  The main thread runs viewDidLoad,  *)
(* then the blocks of DispatchQueue.main.  The delegate queue of           *)
(* URLSession.shared runs the completion handlers, one at a time.  The     *)
(* system kills the process, takes the scene away and gives it back, and   *)
(* moves the wall clock.                                                   *)
(*                                                                         *)
(* A scene number stands for one Top module (view, presenter, interactor): *)
(* its view and presenter live exactly as long as the scene is connected,  *)
(* its interactor as long as a completion handler holds it.                *)
(***************************************************************************)
EXTENDS RealmDB

CONSTANTS
  MaxScenes,  \* bound: scenes connected in a behavior
  MaxNow      \* bound: the clock shows 0 .. MaxNow

ASSUME BoundsAreNaturals == MaxScenes \in Nat /\ MaxNow \in Nat

VARIABLES
  now,        \* what Date() returns
  running,    \* the process exists
  scene,      \* the connected scene, 0 when there is none
  opened,     \* scenes connected so far
  loading,    \* the main thread is inside viewDidLoad, between the two fetches
  task,       \* task[s][k]: where the fetch k of scene s stands
  mainQueue,  \* blocks on DispatchQueue.main, each named by its presenter's scene
  hud         \* PKHUD.sharedHUD

appVars == <<running, scene, opened, loading>>

vars == <<dbVars, now, appVars, task, mainQueue, hud>>

Scenes == 1 .. MaxScenes

Kinds == {"currency", "rate"}

(***************************************************************************)
(* none    the fetch was not started                                       *)
(* cached  answered from the Realm file                                    *)
(* sent    the data task is resumed, its completion handler not yet called *)
(* saved   the handler has committed its write, output not yet called      *)
(* done    the handler has returned after calling output                   *)
(* failed  the handler returned early: there was no data                   *)
(***************************************************************************)
TaskStates == {"none", "cached", "sent", "saved", "done", "failed"}

NoTask == [k \in Kinds |-> "none"]

Clock == 0 .. MaxNow

(***************************************************************************)
(* The shared HUD: visible is the negation of its container's isHidden,    *)
(* fades counts the hide animations whose completion has not run.  The     *)
(* container is a subview of the Top view whenever it is visible and a     *)
(* scene is connected, since show(onView:) puts it there.                  *)
(***************************************************************************)
HiddenHUD == [visible |-> FALSE, fades |-> 0]

TypeOK ==
  /\ DBTypeOK
  /\ now \in Clock
  /\ running \in BOOLEAN
  /\ scene \in 0 .. MaxScenes
  /\ opened \in 0 .. MaxScenes
  /\ loading \in BOOLEAN
  /\ task \in [Scenes -> [Kinds -> TaskStates]]
  /\ mainQueue \in Seq(Scenes)
  /\ hud \in [visible : BOOLEAN, fades : Nat]

Init ==
  /\ DBInit
  /\ now = 0
  /\ running = FALSE
  /\ scene = 0
  /\ opened = 0
  /\ loading = FALSE
  /\ task = [s \in Scenes |-> NoTask]
  /\ mainQueue = <<>>
  /\ hud = HiddenHUD

-----------------------------------------------------------------------------
(***************************************************************************)
(* The indicator.                                                          *)
(***************************************************************************)

\* TopViewController.showIndicator: un-hides the container; the completion of
\* a running hide animation is not cancelled.
ShowIndicator == hud' = [hud EXCEPT !.visible = TRUE]

\* PKHUD.hide: returns early when hidden, else starts an animation of 0.8 s.
Hide == IF hud.visible THEN [hud EXCEPT !.fades = @ + 1] ELSE hud

\* The completion of a hide animation hides the container, whatever was asked
\* for since the animation began.
Finalize == [visible |-> FALSE, fades |-> hud.fades - 1]

-----------------------------------------------------------------------------
(***************************************************************************)
(* The main thread.                                                        *)
(***************************************************************************)

\* The main thread takes its next event only when it is not inside a handler.
MainIdle == running /\ ~loading

\* A new process; its Realm file is the old one.
Launch ==
  /\ ~running
  /\ running' = TRUE
  /\ UNCHANGED <<dbVars, now, scene, opened, loading, task, mainQueue, hud>>

\* Variant with a bug: the cached branch returns without calling output.
FetchSilently(s, k, table) ==
  /\ task' = [task EXCEPT ![s][k] = IF IsFresh(table, now) THEN "cached" ELSE "sent"]
  /\ UNCHANGED mainQueue

(***************************************************************************)
(* One of the two fetch functions of the interactor of scene s, called on  *)
(* the main thread.  A fresh first row is answered from the file, and the  *)
(* presenter at once puts its hide block on the main queue; otherwise a    *)
(* data task is started.                                                   *)
(***************************************************************************)
Fetch(s, k, table) ==
  \/ /\ IsFresh(table, now)
     /\ task' = [task EXCEPT ![s][k] = "cached"]
     /\ mainQueue' = Append(mainQueue, s)
  \/ /\ ~IsFresh(table, now)
     /\ task' = [task EXCEPT ![s][k] = "sent"]
     /\ UNCHANGED mainQueue

FetchCurrencyListData(s) == Fetch(s, "currency", currencyData)

FetchRateData(s) == Fetch(s, "rate", rateData)

FetchCurrencyListDataFromAPI(s) == ShowIndicator /\ FetchCurrencyListData(s)

FetchRateDataFromAPI(s) == ShowIndicator /\ FetchRateData(s)

(***************************************************************************)
(* scene(_:willConnectTo:) builds the window and the Top module; loading   *)
(* the view runs viewDidLoad: the preference is reset, the indicator shown *)
(* and the currency list fetched.  The rest of viewDidLoad is the next     *)
(* action: the delegate queue may commit a late answer in between.  A     *)
(* Realm that still shows the rest of viewDidLoad the version of before    *)
(* that commit gives a behavior in which the commit comes afterwards.      *)
(***************************************************************************)
ViewDidLoadCurrencies(s) ==
  /\ SetDefaultUserPreferenceData
  /\ FetchCurrencyListDataFromAPI(s)

SceneConnect ==
  /\ MainIdle
  /\ scene = 0
  /\ opened < MaxScenes
  /\ opened' = opened + 1
  /\ scene' = opened + 1
  /\ loading' = TRUE
  /\ ViewDidLoadCurrencies(opened + 1)
  /\ UNCHANGED <<currencyTables, rateTables, now, running>>

ViewDidLoadRates ==
  /\ running
  /\ loading
  /\ loading' = FALSE
  /\ FetchRateDataFromAPI(scene)
  /\ UNCHANGED <<dbVars, now, running, scene, opened>>

(***************************************************************************)
(* The system releases the scene while it is in the background: window,    *)
(* view and presenter go.  Entering the background has ended the running   *)
(* animations, their completions included.                                 *)
(***************************************************************************)
SceneDisconnect ==
  /\ MainIdle
  /\ scene # 0
  /\ scene' = 0
  /\ hud' = IF hud.fades > 0 THEN HiddenHUD ELSE hud
  /\ UNCHANGED <<dbVars, now, running, opened, loading, task, mainQueue>>

\* Variant with a bug: the block hides the shared HUD whether or not its own
\* view still exists.
RunMainBlockOfAnyView ==
  /\ MainIdle
  /\ mainQueue # <<>>
  /\ mainQueue' = Tail(mainQueue)
  /\ hud' = Hide
  /\ UNCHANGED <<dbVars, now, appVars, task>>

\* The block of gotCurrencyList and gotRateList: the presenter holds its view
\* weakly, so the block of a gone scene does nothing.
RunMainBlock ==
  /\ MainIdle
  /\ mainQueue # <<>>
  /\ mainQueue' = Tail(mainQueue)
  /\ hud' = IF Head(mainQueue) = scene THEN Hide ELSE hud
  /\ UNCHANGED <<dbVars, now, appVars, task>>

\* Variant with a bug: the completion of a hide that another hide has
\* interrupted is dropped.
FadeDoneUninterrupted ==
  /\ MainIdle
  /\ hud.fades = 1
  /\ hud' = Finalize
  /\ UNCHANGED <<dbVars, now, appVars, task, mainQueue>>

FadeDone ==
  /\ MainIdle
  /\ hud.fades > 0
  /\ hud' = Finalize
  /\ UNCHANGED <<dbVars, now, appVars, task, mainQueue>>

-----------------------------------------------------------------------------
(***************************************************************************)
(* The delegate queue.                                                     *)
(***************************************************************************)

\* The queue of URLSession.shared runs one completion handler at a time.
QueueIdle == \A s \in Scenes, k \in Kinds : task[s][k] # "saved"

HandlerCalled(s, k) ==
  /\ running
  /\ QueueIdle
  /\ task[s][k] = "sent"

\* guard let data = data else { return }: output is not told.
AnswerWithoutData(s, k) ==
  /\ HandlerCalled(s, k)
  /\ task' = [task EXCEPT ![s][k] = "failed"]
  /\ UNCHANGED <<dbVars, now, appVars, mainQueue, hud>>

CurrencyAnswer(s, response) ==
  /\ HandlerCalled(s, "currency")
  /\ SaveCurrencyData(response, now)
  /\ task' = [task EXCEPT ![s]["currency"] = "saved"]
  /\ UNCHANGED <<prefs, rateTables, now, appVars, mainQueue, hud>>

RateAnswer(s, response) ==
  /\ HandlerCalled(s, "rate")
  /\ SaveRateData(response, now)
  /\ task' = [task EXCEPT ![s]["rate"] = "saved"]
  /\ UNCHANGED <<prefs, currencyTables, now, appVars, mainQueue, hud>>

\* Variant with a bug: the block is queued for whatever scene is connected.
CallOutputOfConnectedScene(s, k) ==
  /\ running
  /\ task[s][k] = "saved"
  /\ task' = [task EXCEPT ![s][k] = "done"]
  /\ mainQueue' = Append(mainQueue, scene)
  /\ UNCHANGED <<dbVars, now, appVars, hud>>

\* The handler goes on to self.output?.gotCurrencyList / gotRateList; output
\* is weak, so only the presenter of a connected scene queues its block.
CallOutput(s, k) ==
  /\ running
  /\ task[s][k] = "saved"
  /\ task' = [task EXCEPT ![s][k] = "done"]
  /\ mainQueue' = IF scene = s THEN Append(mainQueue, s) ELSE mainQueue
  /\ UNCHANGED <<dbVars, now, appVars, hud>>

-----------------------------------------------------------------------------
(***************************************************************************)
(* The end of the process, and the clock.                                  *)
(***************************************************************************)

\* Everything that is not in the file is gone.
Die ==
  /\ running' = FALSE
  /\ scene' = 0
  /\ loading' = FALSE
  /\ task' = [s \in Scenes |-> NoTask]
  /\ mainQueue' = <<>>
  /\ hud' = HiddenHUD
  /\ UNCHANGED <<dbVars, now, opened>>

\* try! JSONDecoder().decode: a body that is not the expected object (the
\* service's error object, an HTML page) ends the process.
AnswerNotDecodable(s, k) ==
  /\ HandlerCalled(s, k)
  /\ Die

\* The user or the system ends the process at any point.
Kill ==
  /\ running
  /\ Die

\* The wall clock moves; the user or the network time may also set it back.
Tick ==
  /\ now' \in Clock \ {now}
  /\ UNCHANGED <<dbVars, appVars, task, mainQueue, hud>>

-----------------------------------------------------------------------------

\* A resumed data task calls its handler, with data or with an error.
TaskEnds(s, k) ==
  \/ AnswerWithoutData(s, k)
  \/ AnswerNotDecodable(s, k)
  \/ k = "currency" /\ \E r \in CurrencyListResponses : CurrencyAnswer(s, r)
  \/ k = "rate" /\ \E r \in RateListResponses : RateAnswer(s, r)

Next ==
  \/ Launch
  \/ SceneConnect
  \/ ViewDidLoadRates
  \/ SceneDisconnect
  \/ RunMainBlock
  \/ FadeDone
  \/ \E s \in Scenes, k \in Kinds : TaskEnds(s, k) \/ CallOutput(s, k)
  \/ Kill
  \/ Tick

Spec == Init /\ [][Next]_vars

(***************************************************************************)
(* What the platform guarantees: the main run loop goes on, animations     *)
(* end, every data task ends (URLSession's request timeout sees to it) and *)
(* a completion handler that has started goes on.  Nothing is promised     *)
(* about the user, the scene, the clock or a relaunch.                     *)
(***************************************************************************)
Fairness ==
  /\ WF_vars(ViewDidLoadRates)
  /\ WF_vars(RunMainBlock)
  /\ WF_vars(FadeDone)
  /\ \A s \in Scenes, k \in Kinds :
       WF_vars(TaskEnds(s, k)) /\ WF_vars(CallOutput(s, k))

FairSpec == Spec /\ Fairness

-----------------------------------------------------------------------------
(***************************************************************************)
(* Properties.                                                             *)
(***************************************************************************)

Outstanding(s) == \E k \in Kinds : task[s][k] \in {"sent", "saved"}

GotData(s) == \E k \in Kinds : task[s][k] \in {"cached", "done"}

HideQueued(s) == \E i \in 1 .. Len(mainQueue) : mainQueue[i] = s

Loaded == scene # 0 /\ ~loading

(***************************************************************************)
(* While the indicator blocks the connected Top screen, something explains *)
(* it: a fetch of this scene is outstanding, its hide block is queued, the *)
(* HUD is fading, or both fetches of this scene came back without data.    *)
(* The last case is the only one in which the indicator stays: no lost or  *)
(* late callback, reconnection or kill leaves it behind (viewDidLoad,      *)
(* gotCurrencyList, gotRateList, PKHUD.hide).                              *)
(***************************************************************************)
IndicatorAccountedFor ==
  Loaded /\ hud.visible =>
    \/ Outstanding(scene)
    \/ HideQueued(scene)
    \/ hud.fades > 0
    \/ \A k \in Kinds : task[scene][k] = "failed"

(***************************************************************************)
(* The indicator leaves a connected Top screen only after a fetch of this  *)
(* very scene has its data: neither a failed fetch nor the late answer or  *)
(* the left-over hide block of an earlier scene unlocks the screen         *)
(* (weak output and weak view against the shared HUD).                     *)
(***************************************************************************)
HiddenOnlyAfterData ==
  scene # 0 /\ ~hud.visible => GotData(scene)

(***************************************************************************)
(* fetchRateData asks the service only when everything stored is at least  *)
(* 30 minutes old, whatever late answers of earlier scenes have stored in  *)
(* between: the test on ".first" is a test on the newest rates.            *)
(***************************************************************************)
RateRequestOnlyWhenStale ==
  [][\A s \in Scenes :
       task[s]["rate"] # "sent" /\ task'[s]["rate"] = "sent" =>
         \A i \in 1 .. Len(rateData) : now - rateData[i].savedAt >= TTL]_vars

(***************************************************************************)
(* Answers reach saveRateData in any order, the late one of an earlier     *)
(* scene after a newer one too, and their timestamps are not compared.     *)
(* Whichever came last, the stored rates and the row that dates them are   *)
(* those of one answer: rates of two moments never mix in a calculation.   *)
(***************************************************************************)
RatesAreOneAnswer ==
  rateData # <<>> =>
    \E r \in RateListResponses :
      /\ rates = r.quotes
      /\ \A i \in 1 .. Len(rateData) :
           rateData[i].timestamp = r.timestamp /\ rateData[i].source = r.source

(***************************************************************************)
(* The same for fetchCurrencyListData: the 30 minute restriction on        *)
(* refreshing CurrencyData.  saveCurrencyData never deletes a CurrencyData *)
(* row, so ".first" stays the oldest one and the restriction fails.        *)
(***************************************************************************)
CurrencyRequestOnlyWhenStale ==
  [][\A s \in Scenes :
       task[s]["currency"] # "sent" /\ task'[s]["currency"] = "sent" =>
         \A i \in 1 .. Len(currencyData) : now - currencyData[i].savedAt >= TTL]_vars

(***************************************************************************)
(* Once a fetch of the connected scene has data, the indicator goes away   *)
(* (unless the scene does), in whatever order the two handlers, their      *)
(* blocks and the animations run.                                          *)
(***************************************************************************)
IndicatorEventuallyHidden ==
  \A s \in Scenes :
    (scene = s /\ ~loading /\ GotData(s)) ~> (~hud.visible \/ scene # s)

(***************************************************************************)
(* "Fetching Data..." is shown only while data is being fetched: once both *)
(* fetches of the connected scene have ended, the indicator goes away.     *)
(* The early returns of the completion handlers on missing data tell       *)
(* nobody, so two failed fetches leave it on the screen.                   *)
(***************************************************************************)
IndicatorEndsWithFetches ==
  \A s \in Scenes :
    (scene = s /\ ~loading /\ ~Outstanding(s)) ~> (~hud.visible \/ scene # s)
=============================================================================
