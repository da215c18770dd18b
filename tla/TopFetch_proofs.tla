--------------------------- MODULE TopFetch_proofs ---------------------------
(***************************************************************************)
(* Proofs about TopFetch, for every set of codes, every pair of responses, *)
(* every TTL and every bound on scenes and clock.                          *)
(***************************************************************************)
EXTENDS TopFetch, TLAPS

-----------------------------------------------------------------------------
(***************************************************************************)
(* The write transactions keep the tables well typed.                      *)
(***************************************************************************)

\* saveRateData: the new row and the new Rate table are well typed.
LEMMA SaveRateDataTypes ==
  ASSUME NEW r \in RateListResponses, NEW t \in Int, SaveRateData(r, t)
  PROVE  /\ rateData' \in Seq(ExchangeRateData)
         /\ IsTable(rates', Pairs, RateValues)
  <1>1. /\ r.timestamp \in Nat
        /\ r.source \in Codes
        /\ IsTable(r.quotes, Pairs, RateValues)
    BY ResponsesDecode
  <1>2. [timestamp |-> r.timestamp, source |-> r.source, savedAt |-> t] \in ExchangeRateData
    BY <1>1 DEF ExchangeRateData
  <1>. QED
    BY <1>1, <1>2 DEF SaveRateData

\* saveCurrencyData: the longer table and the new Currency table are well typed.
LEMMA SaveCurrencyDataTypes ==
  ASSUME NEW r \in CurrencyListResponses, NEW t \in Int, SaveCurrencyData(r, t),
         currencyData \in Seq(CurrencyData)
  PROVE  /\ currencyData' \in Seq(CurrencyData)
         /\ IsTable(currencies', Codes, Nat)
  <1>1. r \subseteq Codes
    BY ResponsesDecode
  <1>2. [savedAt |-> t] \in CurrencyData
    BY DEF CurrencyData
  <1>3. Len(currencyData) + 1 \in Nat
    OBVIOUS
  <1>. QED
    BY <1>1, <1>2, <1>3 DEF SaveCurrencyData, IsTable

\* setDefaultUserPreferenceData: one row with the default codes.
LEMMA SetDefaultTypes ==
  ASSUME SetDefaultUserPreferenceData
  PROVE  prefs' \in Seq(UserPreferenceData)
  BY DefaultsAreCodes DEF SetDefaultUserPreferenceData, UserPreferenceData

LEMMA DBUnchanged ==
  ASSUME DBTypeOK, UNCHANGED dbVars
  PROVE  DBTypeOK'
  BY DEF DBTypeOK, dbVars, currencyTables, rateTables, IsTable

-----------------------------------------------------------------------------
(***************************************************************************)
(* Type correctness.                                                       *)
(***************************************************************************)

LEMMA InitType == Init => TypeOK
  <1> SUFFICES ASSUME Init PROVE TypeOK
    OBVIOUS
  <1>1. DBTypeOK
    BY DEF Init, DBInit, DBTypeOK, IsTable
  <1>2. now \in Clock
    BY BoundsAreNaturals DEF Init, Clock
  <1>3. task \in [Scenes -> [Kinds -> TaskStates]]
    BY DEF Init, NoTask, TaskStates
  <1>4. hud \in [visible : BOOLEAN, fades : Nat]
    BY DEF Init, HiddenHUD
  <1>5. scene \in 0 .. MaxScenes /\ opened \in 0 .. MaxScenes
    BY BoundsAreNaturals DEF Init
  <1>6. running \in BOOLEAN /\ loading \in BOOLEAN
    BY Zenon DEF Init
  <1>7. mainQueue \in Seq(Scenes)
    BY DEF Init
  <1>. QED
    BY <1>1, <1>2, <1>3, <1>4, <1>5, <1>6, <1>7, Zenon DEF TypeOK

\* Fetch keeps the task table and the main queue well typed.
LEMMA FetchTypes ==
  ASSUME TypeOK, NEW s \in Scenes, NEW k \in Kinds, NEW table, Fetch(s, k, table)
  PROVE  /\ task' \in [Scenes -> [Kinds -> TaskStates]]
         /\ mainQueue' \in Seq(Scenes)
  <1>1. PICK x \in {"cached", "sent"} :
          /\ task' = [task EXCEPT ![s][k] = x]
          /\ mainQueue' \in {mainQueue, Append(mainQueue, s)}
    BY DEF Fetch
  <1>2. x \in TaskStates
    BY DEF TaskStates
  <1>3. task \in [Scenes -> [Kinds -> TaskStates]] /\ mainQueue \in Seq(Scenes)
    BY DEF TypeOK
  <1>4. task' \in [Scenes -> [Kinds -> TaskStates]]
    BY <1>1, <1>2, <1>3
  <1>5. mainQueue' \in Seq(Scenes)
    BY <1>1, <1>3
  <1>. QED
    BY <1>4, <1>5

LEMMA DieType ==
  ASSUME TypeOK, Die
  PROVE  TypeOK'
  <1>1. DBTypeOK'
    BY DBUnchanged DEF TypeOK, Die
  <1>2. task' \in [Scenes -> [Kinds -> TaskStates]]
    BY DEF Die, NoTask, TaskStates
  <1>3. scene' \in 0 .. MaxScenes
    BY BoundsAreNaturals DEF Die
  <1>4. hud' \in [visible : BOOLEAN, fades : Nat]
    BY DEF Die, HiddenHUD
  <1>5. running' \in BOOLEAN /\ loading' \in BOOLEAN
    BY Zenon DEF Die
  <1>6. mainQueue' \in Seq(Scenes)
    BY DEF Die
  <1>7. now' \in Clock /\ opened' \in 0 .. MaxScenes
    BY DEF TypeOK, Die, Clock
  <1>. QED
    BY <1>1, <1>2, <1>3, <1>4, <1>5, <1>6, <1>7, Zenon DEF TypeOK

\* Loading happens on a connected scene: what makes TypeOK inductive.
TypeInv ==
  /\ TypeOK
  /\ loading => scene \in Scenes

LEMMA NextType == TypeInv /\ [Next]_vars => TypeInv'
  <1> SUFFICES ASSUME TypeInv, [Next]_vars PROVE TypeInv'
    OBVIOUS
  <1> USE DEF TypeInv
  <1>0. TypeOK
    OBVIOUS
  <1>1. CASE Launch
    <2>1. DBTypeOK'
      BY <1>1, <1>0, DBUnchanged DEF Launch, TypeOK
    <2>2. UNCHANGED <<now, scene, opened, loading, task, mainQueue, hud>> /\ running' = TRUE
      BY <1>1 DEF Launch
    <2>. QED
      BY <2>1, <2>2, <1>0, Zenon DEF TypeOK, Clock
  <1>2. CASE SceneConnect
    <2>1. opened + 1 \in Scenes /\ opened + 1 \in 0 .. MaxScenes
      BY <1>0, <1>2, BoundsAreNaturals DEF TypeOK, SceneConnect, Scenes
    <2>2. task' \in [Scenes -> [Kinds -> TaskStates]] /\ mainQueue' \in Seq(Scenes)
      BY <1>0, <1>2, <2>1, FetchTypes
      DEF SceneConnect, ViewDidLoadCurrencies, FetchCurrencyListDataFromAPI,
          FetchCurrencyListData, Kinds
    <2>3. DBTypeOK'
      BY <1>0, <1>2, SetDefaultTypes
      DEF SceneConnect, ViewDidLoadCurrencies, TypeOK, DBTypeOK, currencyTables, rateTables, IsTable
    <2>4. hud' \in [visible : BOOLEAN, fades : Nat]
      BY <1>0, <1>2
      DEF TypeOK, SceneConnect, ViewDidLoadCurrencies, FetchCurrencyListDataFromAPI,
          ShowIndicator
    <2>5. /\ scene' = opened + 1 /\ opened' = opened + 1 /\ loading' = TRUE
          /\ UNCHANGED <<now, running>>
      BY <1>2 DEF SceneConnect
    <2>. QED
      BY <1>0, <2>1, <2>2, <2>3, <2>4, <2>5, Zenon DEF TypeOK, Clock, Scenes
  <1>3. CASE ViewDidLoadRates
    <2>1. scene \in Scenes
      BY <1>3 DEF ViewDidLoadRates
    <2>2. task' \in [Scenes -> [Kinds -> TaskStates]] /\ mainQueue' \in Seq(Scenes)
      BY <1>0, <1>3, <2>1, FetchTypes
      DEF ViewDidLoadRates, FetchRateDataFromAPI, FetchRateData, Kinds
    <2>3. DBTypeOK'
      BY <1>0, <1>3, DBUnchanged DEF ViewDidLoadRates, TypeOK
    <2>4. hud' \in [visible : BOOLEAN, fades : Nat]
      BY <1>0, <1>3 DEF TypeOK, ViewDidLoadRates, FetchRateDataFromAPI, ShowIndicator
    <2>5. loading' = FALSE /\ UNCHANGED <<now, running, scene, opened>>
      BY <1>3 DEF ViewDidLoadRates
    <2>. QED
      BY <1>0, <2>2, <2>3, <2>4, <2>5, Zenon DEF TypeOK, Clock
  <1>4. CASE SceneDisconnect
    <2>1. hud' \in [visible : BOOLEAN, fades : Nat]
      BY <1>0, <1>4 DEF TypeOK, SceneDisconnect, HiddenHUD
    <2>2. DBTypeOK'
      BY <1>0, <1>4, DBUnchanged DEF SceneDisconnect, TypeOK
    <2>3. /\ scene' = 0 /\ 0 \in 0 .. MaxScenes /\ loading' = FALSE
          /\ UNCHANGED <<now, running, opened, task, mainQueue>>
      BY <1>0, <1>4, BoundsAreNaturals DEF SceneDisconnect, MainIdle, TypeOK
    <2>. QED
      BY <1>0, <2>1, <2>2, <2>3, Zenon DEF TypeOK, Clock
  <1>5. CASE RunMainBlock
    <2>1. hud' \in [visible : BOOLEAN, fades : Nat]
      <3>1. hud \in [visible : BOOLEAN, fades : Nat]
        BY <1>0 DEF TypeOK
      <3>2. hud' = hud \/ hud' = [hud EXCEPT !.fades = @ + 1]
        BY <1>5 DEF RunMainBlock, Hide
      <3>3. CASE hud' = hud
        BY <3>1, <3>3
      <3>4. CASE hud' = [hud EXCEPT !.fades = @ + 1]
        BY <3>1, <3>4
      <3>. QED
        BY <3>2, <3>3, <3>4
    <2>2. mainQueue' \in Seq(Scenes)
      <3>1. mainQueue \in Seq(Scenes)
        BY <1>0 DEF TypeOK
      <3>2. mainQueue # <<>> /\ mainQueue' = Tail(mainQueue)
        BY <1>5 DEF RunMainBlock
      <3>. QED
        BY <3>1, <3>2
    <2>3. DBTypeOK'
      BY <1>0, <1>5, DBUnchanged DEF RunMainBlock, TypeOK
    <2>4. UNCHANGED <<now, running, scene, opened, loading, task>>
      BY <1>5 DEF RunMainBlock, appVars
    <2>. QED
      BY <1>0, <2>1, <2>2, <2>3, <2>4, Zenon DEF TypeOK, Clock
  <1>6. CASE FadeDone
    <2>1. hud' \in [visible : BOOLEAN, fades : Nat]
      BY <1>0, <1>6 DEF TypeOK, FadeDone, Finalize
    <2>2. DBTypeOK'
      BY <1>0, <1>6, DBUnchanged DEF FadeDone, TypeOK
    <2>3. UNCHANGED <<now, running, scene, opened, loading, task, mainQueue>>
      BY <1>6 DEF FadeDone, appVars
    <2>. QED
      BY <1>0, <2>1, <2>2, <2>3, Zenon DEF TypeOK, Clock
  <1>7. ASSUME NEW s \in Scenes, NEW k \in Kinds, TaskEnds(s, k) \/ CallOutput(s, k)
        PROVE  TypeInv'
    <2>1. CASE AnswerNotDecodable(s, k)
      <3>1. Die
        BY <2>1 DEF AnswerNotDecodable
      <3>. QED
        BY <1>0, <3>1, DieType, Zenon DEF Die
    <2>2. ASSUME ~AnswerNotDecodable(s, k)
          PROVE  /\ task' \in [Scenes -> [Kinds -> TaskStates]]
                 /\ UNCHANGED <<now, running, scene, opened, loading, hud>>
      <3>1. PICK x \in TaskStates :
              /\ task' = [task EXCEPT ![s][k] = x]
              /\ UNCHANGED <<now, running, scene, opened, loading, hud>>
        BY <1>7, <2>2
        DEF appVars, TaskEnds, AnswerWithoutData, CurrencyAnswer, RateAnswer, CallOutput, TaskStates
      <3>. QED
        BY <1>0, <3>1 DEF TypeOK
    <2>3. ASSUME ~AnswerNotDecodable(s, k)
          PROVE  mainQueue' \in Seq(Scenes)
      <3>1. mainQueue \in Seq(Scenes)
        BY <1>0 DEF TypeOK
      <3>2. mainQueue' \in {mainQueue, Append(mainQueue, s)}
        BY <1>7, <2>3
        DEF TaskEnds, AnswerWithoutData, CurrencyAnswer, RateAnswer, CallOutput
      <3>. QED
        BY <3>1, <3>2
    <2>4. ASSUME ~AnswerNotDecodable(s, k)
          PROVE  DBTypeOK'
      <3>1. now \in Int
        BY <1>0 DEF TypeOK, Clock
      <3>2. CASE AnswerWithoutData(s, k) \/ CallOutput(s, k)
        BY <1>0, <3>2, DBUnchanged DEF AnswerWithoutData, CallOutput, TypeOK
      <3>3. ASSUME NEW r \in CurrencyListResponses, CurrencyAnswer(s, r)
            PROVE  DBTypeOK'
        BY <1>0, <3>1, <3>3, SaveCurrencyDataTypes
        DEF CurrencyAnswer, TypeOK, DBTypeOK, rateTables, IsTable
      <3>4. ASSUME NEW r \in RateListResponses, RateAnswer(s, r)
            PROVE  DBTypeOK'
        BY <1>0, <3>1, <3>4, SaveRateDataTypes
        DEF RateAnswer, TypeOK, DBTypeOK, currencyTables, IsTable
      <3>. QED
        BY <1>7, <2>4, <3>2, <3>3, <3>4 DEF TaskEnds
    <2>5. ASSUME ~AnswerNotDecodable(s, k)
          PROVE  TypeInv'
      <3>1. /\ DBTypeOK'
            /\ task' \in [Scenes -> [Kinds -> TaskStates]]
            /\ mainQueue' \in Seq(Scenes)
        BY <2>2, <2>3, <2>4, <2>5
      <3>2. UNCHANGED <<now, running, scene, opened, loading, hud>>
        BY <2>2, <2>5
      <3>. QED
        BY <1>0, <3>1, <3>2, Zenon DEF TypeOK, Clock
    <2>. QED
      BY <2>1, <2>5, Zenon
  <1>8. CASE Kill
    BY <1>0, <1>8, DieType, Zenon DEF Kill, Die
  <1>9. CASE Tick
    <2>1. DBTypeOK'
      BY <1>0, <1>9, DBUnchanged DEF Tick, TypeOK
    <2>2. now' \in Clock /\ UNCHANGED <<running, scene, opened, loading, task, mainQueue, hud>>
      BY <1>9 DEF Tick, appVars
    <2>. QED
      BY <1>0, <2>1, <2>2, Zenon DEF TypeOK, Clock
  <1>10. CASE UNCHANGED vars
    <2>1. DBTypeOK'
      BY <1>0, <1>10, DBUnchanged DEF vars, TypeOK
    <2>2. UNCHANGED <<now, running, scene, opened, loading, task, mainQueue, hud>>
      BY <1>10 DEF vars, appVars
    <2>. QED
      BY <1>0, <2>1, <2>2, Zenon DEF TypeOK, Clock
  <1>. QED
    BY <1>1, <1>2, <1>3, <1>4, <1>5, <1>6, <1>7, <1>8, <1>9, <1>10 DEF Next

LEMMA TypeInvariant == Spec => []TypeInv
  <1>1. Init => TypeInv
    BY InitType, Zenon DEF TypeInv, Init
  <1>. QED
    BY <1>1, NextType, PTL DEF Spec

(***************************************************************************)
(* Every variable of the loading machine keeps its type: in particular the *)
(* main queue only ever holds blocks of real scenes and the hide           *)
(* animations never outnumber their completions.                           *)
(***************************************************************************)
THEOREM TypeCorrect == Spec => []TypeOK
  <1>1. TypeInv => TypeOK
    BY DEF TypeInv
  <1>. QED
    BY <1>1, TypeInvariant, PTL
-----------------------------------------------------------------------------
(***************************************************************************)
(* The indicator.  IndicatorAccountedFor and HiddenOnlyAfterData are not   *)
(* inductive: they hold because a hide block or a hide animation always    *)
(* belongs to a scene that has data, and because a scene that has data and *)
(* is still covered has one of them.                                       *)
(***************************************************************************)

\* Scenes that were never connected have started nothing.
ScenesInv ==
  /\ scene <= opened
  /\ \A s \in Scenes : s > opened => task[s] = NoTask

\* viewDidLoad starts the two fetches in their order, behind the indicator.
LoadInv ==
  /\ loading => /\ scene # 0
                /\ hud.visible
                /\ task[scene]["currency"] # "none"
                /\ task[scene]["rate"] = "none"
  /\ Loaded => \A k \in Kinds : task[scene][k] # "none"

\* Only presenters with data have queued a block.
QueueInv == \A i \in 1 .. Len(mainQueue) : GotData(mainQueue[i])

\* Only a loaded scene with data is fading its indicator out.
FadeInv == hud.fades > 0 => Loaded /\ GotData(scene)

\* Data that has arrived is on its way to hide the indicator.
HideInv ==
  scene # 0 /\ hud.visible /\ GotData(scene) => HideQueued(scene) \/ hud.fades > 0

IndicatorInv ==
  /\ TypeInv
  /\ ScenesInv
  /\ LoadInv
  /\ QueueInv
  /\ FadeInv
  /\ HideInv
  /\ HiddenOnlyAfterData

\* A fetch that moves on leaves all other fetches alone and takes no data back.
LEMMA TaskStep ==
  ASSUME TypeOK, NEW s \in Scenes, NEW k \in Kinds, NEW x \in TaskStates,
         task' = [task EXCEPT ![s][k] = x],
         task[s][k] \notin {"cached", "done"}
  PROVE  /\ \A z \in Scenes, l \in Kinds :
              task'[z][l] = IF z = s /\ l = k THEN x ELSE task[z][l]
         /\ \A z \in Scenes : z # s => task'[z] = task[z]
         /\ \A z \in Scenes : GotData(z) => GotData(z)'
         /\ \A z \in Scenes : GotData(z)' => GotData(z) \/ (z = s /\ x \in {"cached", "done"})
  <1>1. task \in [Scenes -> [Kinds -> TaskStates]]
    BY DEF TypeOK
  <1>2. \A z \in Scenes, l \in Kinds :
          task'[z][l] = IF z = s /\ l = k THEN x ELSE task[z][l]
    BY <1>1
  <1>3. \A z \in Scenes : z # s => task'[z] = task[z]
    BY <1>1
  <1>4. \A z \in Scenes : GotData(z) => GotData(z)'
    BY <1>2 DEF GotData
  <1>5. \A z \in Scenes : GotData(z)' => GotData(z) \/ (z = s /\ x \in {"cached", "done"})
    BY <1>2 DEF GotData
  <1>. QED
    BY <1>2, <1>3, <1>4, <1>5

\* A queue that grows at its end keeps its blocks.
LEMMA QueueGrows ==
  ASSUME TypeOK, NEW s \in Scenes, mainQueue' = Append(mainQueue, s),
         \A z \in Scenes : GotData(z) => GotData(z)', GotData(s)', QueueInv
  PROVE  /\ QueueInv'
         /\ HideQueued(s)'
         /\ \A z \in Scenes : HideQueued(z) => HideQueued(z)'
  <1>1. mainQueue \in Seq(Scenes)
    BY DEF TypeOK
  <1>2. /\ Len(mainQueue') = Len(mainQueue) + 1
        /\ Len(mainQueue) \in Nat
        /\ mainQueue'[Len(mainQueue) + 1] = s
        /\ \A i \in 1 .. Len(mainQueue) : mainQueue'[i] = mainQueue[i] /\ mainQueue[i] \in Scenes
    BY <1>1
  <1>3. QueueInv'
    <2> SUFFICES ASSUME NEW i \in 1 .. Len(mainQueue) + 1
                 PROVE  GotData(mainQueue[i])'
      BY <1>2 DEF QueueInv
    <2>1. CASE i = Len(mainQueue) + 1
      BY <1>2, <2>1 DEF GotData
    <2>2. CASE i \in 1 .. Len(mainQueue)
      <3>1. mainQueue'[i] = mainQueue[i] /\ mainQueue[i] \in Scenes /\ GotData(mainQueue[i])
        BY <1>2, <2>2 DEF QueueInv
      <3>. QED
        BY <3>1 DEF GotData
    <2>. QED
      BY <1>2, <2>1, <2>2
  <1>4. HideQueued(s)'
    BY <1>2 DEF HideQueued
  <1>5. \A z \in Scenes : HideQueued(z) => HideQueued(z)'
    BY <1>2 DEF HideQueued
  <1>. QED
    BY <1>3, <1>4, <1>5

LEMMA QueueKept ==
  ASSUME TypeOK, UNCHANGED mainQueue,
         \A z \in Scenes : GotData(z) => GotData(z)', QueueInv
  PROVE  /\ QueueInv'
         /\ \A z \in Scenes : HideQueued(z) => HideQueued(z)'
  <1>1. \A i \in 1 .. Len(mainQueue) : mainQueue[i] \in Scenes
    BY DEF TypeOK
  <1>2. QueueInv'
    BY <1>1 DEF QueueInv
  <1>3. \A z \in Scenes : HideQueued(z) => HideQueued(z)'
    BY DEF HideQueued
  <1>. QED
    BY <1>2, <1>3

LEMMA InitIndicator == Init => IndicatorInv
  <1> SUFFICES ASSUME Init PROVE IndicatorInv
    OBVIOUS
  <1>1. TypeInv
    BY InitType, Zenon DEF TypeInv, Init
  <1>2. ScenesInv
    BY DEF Init, ScenesInv
  <1>3. LoadInv /\ FadeInv /\ HideInv /\ HiddenOnlyAfterData
    BY DEF Init, LoadInv, Loaded, FadeInv, HideInv, HiddenOnlyAfterData, HiddenHUD
  <1>4. QueueInv
    BY DEF Init, QueueInv
  <1>. QED
    BY <1>1, <1>2, <1>3, <1>4 DEF IndicatorInv

LEMMA DieIndicator ==
  ASSUME IndicatorInv, Die
  PROVE  ScenesInv' /\ LoadInv' /\ QueueInv' /\ FadeInv' /\ HideInv' /\ HiddenOnlyAfterData'
  <1>1. scene' = 0 /\ loading' = FALSE /\ opened' = opened /\ opened \in Nat
    BY DEF Die, IndicatorInv, TypeInv, TypeOK
  <1>2. ScenesInv'
    BY <1>1 DEF Die, ScenesInv
  <1>3. LoadInv' /\ FadeInv' /\ HideInv' /\ HiddenOnlyAfterData'
    BY <1>1 DEF Die, LoadInv, Loaded, FadeInv, HideInv, HiddenOnlyAfterData, HiddenHUD
  <1>4. QueueInv'
    BY DEF Die, QueueInv
  <1>. QED
    BY <1>2, <1>3, <1>4

LEMMA NextIndicator == IndicatorInv /\ [Next]_vars => IndicatorInv'
  <1> SUFFICES ASSUME IndicatorInv, [Next]_vars
               PROVE  ScenesInv' /\ LoadInv' /\ QueueInv' /\ FadeInv' /\ HideInv'
                      /\ HiddenOnlyAfterData'
    BY NextType DEF IndicatorInv
  <1>0. TypeInv /\ TypeOK /\ ScenesInv /\ LoadInv /\ QueueInv /\ FadeInv /\ HideInv
        /\ HiddenOnlyAfterData
    BY DEF IndicatorInv, TypeInv
  <1>t. /\ scene \in 0 .. MaxScenes /\ opened \in 0 .. MaxScenes
        /\ task \in [Scenes -> [Kinds -> TaskStates]]
        /\ mainQueue \in Seq(Scenes)
        /\ hud \in [visible : BOOLEAN, fades : Nat]
        /\ MaxScenes \in Nat
    BY <1>0, BoundsAreNaturals DEF TypeOK
  <1>k. "currency" \in Kinds /\ "rate" \in Kinds /\ Kinds = {"currency", "rate"}
    BY DEF Kinds
  <1>1. CASE UNCHANGED <<scene, opened, loading, task, mainQueue, hud>>
    <2>1. ScenesInv' /\ LoadInv' /\ FadeInv' /\ HideInv' /\ HiddenOnlyAfterData'
      BY <1>0, <1>1
      DEF ScenesInv, LoadInv, Loaded, FadeInv, HideInv, HiddenOnlyAfterData, GotData, HideQueued
    <2>2. QueueInv'
      BY <1>0, <1>1 DEF QueueInv, GotData
    <2>. QED
      BY <2>1, <2>2
  <1>2. CASE SceneConnect
    <2>1. PICK s \in Scenes :
            s = opened + 1 /\ scene' = s /\ opened' = s /\ loading' = TRUE /\ scene = 0
      BY <1>2, <1>t DEF SceneConnect, Scenes
    <2>2. hud' = [hud EXCEPT !.visible = TRUE] /\ hud.fades = 0
      BY <1>0, <1>2, <1>t, <2>1
      DEF SceneConnect, ViewDidLoadCurrencies, FetchCurrencyListDataFromAPI, ShowIndicator,
          FadeInv, Loaded
    <2>3. task[s] = NoTask
      BY <1>0, <1>t, <2>1 DEF ScenesInv
    <2>4. task[s]["currency"] = "none" /\ task[s]["rate"] = "none"
      BY <2>3, <1>k DEF NoTask
    <2>5. ~GotData(s)
      BY <2>4 DEF GotData, Kinds
    <2>6. PICK x \in {"cached", "sent"} :
            /\ task' = [task EXCEPT ![s]["currency"] = x]
            /\ x = "cached" => mainQueue' = Append(mainQueue, s)
            /\ x = "sent" => UNCHANGED mainQueue
      BY <1>2, <2>1 DEF SceneConnect, ViewDidLoadCurrencies, FetchCurrencyListDataFromAPI,
          FetchCurrencyListData, Fetch
    <2>7. x \in TaskStates
      BY DEF TaskStates
    <2>8. /\ task'[s]["currency"] = x
          /\ task'[s]["rate"] = "none"
          /\ \A z \in Scenes : z # s => task'[z] = task[z]
          /\ \A z \in Scenes : GotData(z) => GotData(z)'
          /\ GotData(s)' => x = "cached"
      <3>1. task[s]["currency"] \notin {"cached", "done"}
        BY <2>4
      <3>2. /\ \A z \in Scenes, l \in Kinds :
                 task'[z][l] = IF z = s /\ l = "currency" THEN x ELSE task[z][l]
            /\ \A z \in Scenes : z # s => task'[z] = task[z]
            /\ \A z \in Scenes : GotData(z) => GotData(z)'
            /\ \A z \in Scenes : GotData(z)' => GotData(z) \/ (z = s /\ x \in {"cached", "done"})
        BY <1>0, <1>k, <2>6, <2>7, <3>1, TaskStep
      <3>. QED
        BY <1>k, <2>4, <2>5, <3>2
    <2>9. x = "cached" => GotData(s)'
      BY <2>8, <1>k DEF GotData
    <2>10. QueueInv' /\ (GotData(s)' => HideQueued(s)')
      <3>1. CASE x = "cached"
        BY <1>0, <2>1, <2>6, <2>8, <2>9, <3>1, QueueGrows
      <3>2. CASE x = "sent"
        BY <1>0, <2>6, <2>8, <3>2, QueueKept
      <3>. QED
        BY <3>1, <3>2
    <2>11. ScenesInv'
      BY <1>0, <1>t, <2>1, <2>8 DEF ScenesInv, Scenes
    <2>12. LoadInv'
      BY <1>t, <2>1, <2>2, <2>6, <2>8 DEF LoadInv, Loaded, Scenes
    <2>13. FadeInv' /\ HiddenOnlyAfterData'
      BY <1>t, <2>2 DEF FadeInv, HiddenOnlyAfterData
    <2>14. HideInv'
      BY <2>1, <2>10 DEF HideInv, GotData, HideQueued
    <2>. QED
      BY <2>10, <2>11, <2>12, <2>13, <2>14
  <1>3. CASE ViewDidLoadRates
    <2>1. PICK s \in Scenes : s = scene /\ scene' = s
      BY <1>0, <1>3 DEF TypeInv, ViewDidLoadRates
    <2>2. loading /\ loading' = FALSE /\ opened' = opened
      BY <1>3 DEF ViewDidLoadRates
    <2>3. hud' = [hud EXCEPT !.visible = TRUE] /\ hud.visible /\ hud.fades = 0
      BY <1>0, <1>3, <1>t
      DEF ViewDidLoadRates, FetchRateDataFromAPI, ShowIndicator, FadeInv, LoadInv, Loaded
    <2>4. task[s]["currency"] # "none" /\ task[s]["rate"] = "none"
      BY <1>0, <2>1, <2>2 DEF LoadInv
    <2>5. PICK x \in {"cached", "sent"} :
            /\ task' = [task EXCEPT ![s]["rate"] = x]
            /\ x = "cached" => mainQueue' = Append(mainQueue, s)
            /\ x = "sent" => UNCHANGED mainQueue
      BY <1>3, <2>1 DEF ViewDidLoadRates, FetchRateDataFromAPI, FetchRateData, Fetch
    <2>6. x \in TaskStates
      BY DEF TaskStates
    <2>7. /\ task'[s]["rate"] = x
          /\ task'[s]["currency"] = task[s]["currency"]
          /\ \A z \in Scenes : z # s => task'[z] = task[z]
          /\ \A z \in Scenes : GotData(z) => GotData(z)'
          /\ GotData(s)' => GotData(s) \/ x = "cached"
      <3>1. task[s]["rate"] \notin {"cached", "done"}
        BY <2>4
      <3>2. /\ \A z \in Scenes, l \in Kinds :
                 task'[z][l] = IF z = s /\ l = "rate" THEN x ELSE task[z][l]
            /\ \A z \in Scenes : z # s => task'[z] = task[z]
            /\ \A z \in Scenes : GotData(z) => GotData(z)'
            /\ \A z \in Scenes : GotData(z)' => GotData(z) \/ (z = s /\ x \in {"cached", "done"})
        BY <1>0, <1>k, <2>5, <2>6, <3>1, TaskStep
      <3>. QED
        BY <1>k, <3>2
    <2>8. x = "cached" => GotData(s)'
      BY <2>7, <1>k DEF GotData
    <2>9. QueueInv' /\ (GotData(s)' => HideQueued(s)')
      <3>0. GotData(s) => HideQueued(s)
        BY <1>0, <1>t, <2>1, <2>3 DEF HideInv, Scenes
      <3>1. CASE x = "cached"
        BY <1>0, <2>1, <2>5, <2>7, <2>8, <3>1, QueueGrows
      <3>2. CASE x = "sent"
        BY <1>0, <2>5, <2>7, <3>0, <3>2, QueueKept
      <3>. QED
        BY <3>1, <3>2
    <2>10. ScenesInv'
      BY <1>0, <1>t, <2>1, <2>2, <2>7 DEF ScenesInv, Scenes
    <2>11. LoadInv'
      BY <2>1, <2>2, <2>4, <2>5, <2>7 DEF LoadInv, Loaded, Kinds
    <2>12. FadeInv' /\ HiddenOnlyAfterData'
      BY <1>t, <2>3 DEF FadeInv, HiddenOnlyAfterData
    <2>13. HideInv'
      BY <2>1, <2>9 DEF HideInv, GotData, HideQueued
    <2>. QED
      BY <2>9, <2>10, <2>11, <2>12, <2>13
  <1>4. CASE SceneDisconnect
    <2>1. /\ scene' = 0 /\ ~loading /\ UNCHANGED <<opened, loading, task, mainQueue>>
          /\ hud' = IF hud.fades > 0 THEN HiddenHUD ELSE hud
      BY <1>4 DEF SceneDisconnect, MainIdle
    <2>2. hud'.fades = 0
      BY <1>t, <2>1 DEF HiddenHUD
    <2>3. ScenesInv'
      BY <1>0, <1>t, <2>1 DEF ScenesInv
    <2>4. LoadInv' /\ FadeInv' /\ HideInv' /\ HiddenOnlyAfterData'
      BY <2>1, <2>2 DEF LoadInv, Loaded, FadeInv, HideInv, HiddenOnlyAfterData
    <2>5. QueueInv'
      BY <1>0, <2>1 DEF QueueInv, GotData
    <2>. QED
      BY <2>3, <2>4, <2>5
  <1>5. CASE RunMainBlock
    <2>1. /\ ~loading /\ UNCHANGED <<scene, opened, loading, task>>
          /\ mainQueue # <<>> /\ mainQueue' = Tail(mainQueue)
          /\ hud' = IF Head(mainQueue) = scene THEN Hide ELSE hud
      BY <1>5 DEF RunMainBlock, MainIdle, appVars
    <2>2. /\ Head(mainQueue) = mainQueue[1]
          /\ Len(mainQueue) \in Nat \ {0}
          /\ Len(mainQueue') = Len(mainQueue) - 1
          /\ \A i \in 1 .. Len(mainQueue') : mainQueue'[i] = mainQueue[i + 1]
      BY <1>t, <2>1
    <2>3. \A z : GotData(z)' <=> GotData(z)
      BY <2>1 DEF GotData
    <2>4. ScenesInv' /\ LoadInv'
      BY <1>0, <2>1 DEF ScenesInv, LoadInv, Loaded
    <2>5. QueueInv'
      <3> SUFFICES ASSUME NEW i \in 1 .. Len(mainQueue')
                   PROVE  GotData(mainQueue[i])'
        BY DEF QueueInv
      <3>1. i + 1 \in 1 .. Len(mainQueue) /\ mainQueue'[i] = mainQueue[i + 1]
        BY <2>2
      <3>2. GotData(mainQueue[i + 1])
        BY <1>0, <3>1 DEF QueueInv
      <3>. QED
        BY <2>1, <3>1, <3>2 DEF GotData
    <2>6. CASE Head(mainQueue) = scene
      <3>1. mainQueue[1] = scene /\ GotData(scene) /\ scene # 0
        BY <1>0, <1>t, <2>2, <2>6 DEF QueueInv, Scenes
      <3>2. GotData(scene)'
        BY <2>1, <3>1 DEF GotData
      <3>3. FadeInv' /\ HiddenOnlyAfterData'
        BY <2>1, <3>1, <3>2 DEF FadeInv, HiddenOnlyAfterData, Loaded
      <3>4. hud'.visible => hud'.fades > 0
        BY <1>t, <2>1, <2>6 DEF Hide
      <3>5. HideInv'
        BY <3>4 DEF HideInv
      <3>. QED
        BY <2>4, <2>5, <3>3, <3>5
    <2>7. CASE Head(mainQueue) # scene
      <3>1. hud' = hud
        BY <2>1, <2>7
      <3>2. FadeInv' /\ HiddenOnlyAfterData'
        BY <1>0, <2>1, <3>1 DEF FadeInv, HiddenOnlyAfterData, Loaded, GotData
      <3>3. HideQueued(scene) => HideQueued(scene)'
        <4> SUFFICES ASSUME NEW i \in 1 .. Len(mainQueue), mainQueue[i] = scene
                     PROVE  HideQueued(scene)'
          BY DEF HideQueued
        <4>1. i # 1
          BY <2>2, <2>7
        <4>2. i - 1 \in 1 .. Len(mainQueue') /\ mainQueue'[i - 1] = mainQueue[i]
          BY <2>2, <4>1
        <4>. QED
          BY <2>1, <4>2 DEF HideQueued
      <3>4. HideInv'
        BY <1>0, <2>1, <3>1, <3>3 DEF HideInv, GotData
      <3>. QED
        BY <2>4, <2>5, <3>2, <3>4
    <2>. QED
      BY <2>6, <2>7
  <1>6. CASE FadeDone
    <2>1. /\ UNCHANGED <<scene, opened, loading, task, mainQueue>>
          /\ hud.fades > 0 /\ hud' = [visible |-> FALSE, fades |-> hud.fades - 1]
      BY <1>6 DEF FadeDone, Finalize, appVars
    <2>2. Loaded /\ GotData(scene)
      BY <1>0, <2>1 DEF FadeInv
    <2>3. ScenesInv' /\ LoadInv'
      BY <1>0, <2>1, <2>2 DEF ScenesInv, LoadInv, Loaded
    <2>4. FadeInv' /\ HiddenOnlyAfterData' /\ HideInv'
      BY <2>1, <2>2 DEF FadeInv, HiddenOnlyAfterData, HideInv, Loaded, GotData
    <2>5. QueueInv'
      BY <1>0, <2>1 DEF QueueInv, GotData
    <2>. QED
      BY <2>3, <2>4, <2>5
  <1>7. ASSUME NEW s \in Scenes, NEW k \in Kinds, TaskEnds(s, k) \/ CallOutput(s, k)
        PROVE  ScenesInv' /\ LoadInv' /\ QueueInv' /\ FadeInv' /\ HideInv'
               /\ HiddenOnlyAfterData'
    <2>1. CASE AnswerNotDecodable(s, k)
      BY <2>1, DieIndicator DEF AnswerNotDecodable
    <2>2. CASE ~AnswerNotDecodable(s, k)
      <3>1. UNCHANGED <<scene, opened, loading, hud>>
        BY <1>7, <2>2
        DEF appVars, TaskEnds, AnswerWithoutData, CurrencyAnswer, RateAnswer, CallOutput
      <3>2. PICK x \in {"failed", "saved", "done"} :
              /\ task[s][k] \in {"sent", "saved"}
              /\ task' = [task EXCEPT ![s][k] = x]
              /\ x = "done" => mainQueue' = IF scene = s THEN Append(mainQueue, s) ELSE mainQueue
              /\ x # "done" => UNCHANGED mainQueue
        BY <1>7, <2>2
        DEF TaskEnds, HandlerCalled, AnswerWithoutData, CurrencyAnswer, RateAnswer, CallOutput
      <3>3. x \in TaskStates /\ x # "none"
        BY DEF TaskStates
      <3>4. /\ \A z \in Scenes, l \in Kinds :
                 task'[z][l] = IF z = s /\ l = k THEN x ELSE task[z][l]
            /\ \A z \in Scenes : z # s => task'[z] = task[z]
            /\ \A z \in Scenes : GotData(z) => GotData(z)'
            /\ \A z \in Scenes : GotData(z)' => GotData(z) \/ (z = s /\ x = "done")
        <4>1. task[s][k] \notin {"cached", "done"}
          BY <3>2
        <4>2. /\ \A z \in Scenes, l \in Kinds :
                   task'[z][l] = IF z = s /\ l = k THEN x ELSE task[z][l]
              /\ \A z \in Scenes : z # s => task'[z] = task[z]
              /\ \A z \in Scenes : GotData(z) => GotData(z)'
              /\ \A z \in Scenes : GotData(z)' => GotData(z) \/ (z = s /\ x \in {"cached", "done"})
          BY <1>0, <3>2, <3>3, <4>1, TaskStep
        <4>. QED
          BY <4>2
      <3>5. x = "done" => GotData(s)'
        BY <3>4 DEF GotData
      <3>6. s <= opened
        <4>1. task[s] # NoTask
          BY <3>2 DEF NoTask
        <4>. QED
          BY <1>0, <1>t, <4>1 DEF ScenesInv, Scenes
      <3>7. ScenesInv'
        BY <1>0, <1>t, <3>1, <3>4, <3>6 DEF ScenesInv, Scenes
      <3>8. LoadInv'
        BY <1>0, <1>t, <1>k, <3>1, <3>2, <3>3, <3>4 DEF LoadInv, Loaded, Scenes
      <3>9. QueueInv' /\ (\A z \in Scenes : HideQueued(z) => HideQueued(z)')
            /\ (x = "done" /\ scene = s => HideQueued(s)')
        <4>1. CASE x = "done" /\ scene = s
          BY <1>0, <3>2, <3>4, <3>5, <4>1, QueueGrows
        <4>2. CASE ~(x = "done" /\ scene = s)
          BY <1>0, <3>2, <3>4, <4>2, QueueKept
        <4>. QED
          BY <4>1, <4>2
      <3>10. CASE scene = 0
        BY <1>0, <3>1, <3>7, <3>8, <3>9, <3>10
        DEF FadeInv, HideInv, HiddenOnlyAfterData, Loaded
      <3>11. CASE scene # 0
        <4>1. PICK z \in Scenes : z = scene /\ scene' = z
          BY <1>t, <3>1, <3>11 DEF Scenes
        <4>2. FadeInv' /\ HiddenOnlyAfterData'
          BY <1>0, <3>1, <3>4, <4>1 DEF FadeInv, HiddenOnlyAfterData, Loaded
        <4>3. HideInv'
          BY <1>0, <3>1, <3>4, <3>9, <4>1 DEF HideInv
        <4>. QED
          BY <3>7, <3>8, <3>9, <4>2, <4>3
      <3>. QED
        BY <3>10, <3>11
    <2>. QED
      BY <2>1, <2>2
  <1>8. CASE Kill
    BY <1>8, DieIndicator DEF Kill
  <1>9. CASE Launch \/ Tick \/ UNCHANGED vars
    <2>1. UNCHANGED <<scene, opened, loading, task, mainQueue, hud>>
      BY <1>9 DEF Launch, Tick, vars, appVars
    <2>. QED
      BY <2>1, <1>1
  <1>. QED
    BY <1>2, <1>3, <1>4, <1>5, <1>6, <1>7, <1>8, <1>9 DEF Next

LEMMA IndicatorInvariant == Spec => []IndicatorInv
  BY InitIndicator, NextIndicator, PTL DEF Spec

(***************************************************************************)
(* The indicator leaves a connected Top screen only after a fetch of that  *)
(* scene has its data, whatever blocks and answers of earlier scenes are   *)
(* still under way (weak output, weak view, shared HUD).                   *)
(***************************************************************************)
THEOREM HiddenOnlyAfterDataHolds == Spec => []HiddenOnlyAfterData
  <1>1. IndicatorInv => HiddenOnlyAfterData
    BY DEF IndicatorInv
  <1>. QED
    BY <1>1, IndicatorInvariant, PTL

(***************************************************************************)
(* An indicator on a loaded Top screen is explained by an outstanding      *)
(* fetch, a queued hide block, a running animation, or the failure of both *)
(* fetches.                                                                *)
(***************************************************************************)
THEOREM IndicatorAccountedForHolds == Spec => []IndicatorAccountedFor
  <1>1. IndicatorInv => IndicatorAccountedFor
    <2> SUFFICES ASSUME IndicatorInv, Loaded, hud.visible,
                        ~Outstanding(scene), ~HideQueued(scene), ~(hud.fades > 0)
                 PROVE  \A k \in Kinds : task[scene][k] = "failed"
      BY DEF IndicatorAccountedFor
    <2>1. ~GotData(scene)
      BY DEF IndicatorInv, HideInv, Loaded
    <2>2. \A k \in Kinds : task[scene][k] # "none"
      BY DEF IndicatorInv, LoadInv
    <2>3. scene \in Scenes /\ task \in [Scenes -> [Kinds -> TaskStates]]
      BY BoundsAreNaturals DEF IndicatorInv, TypeInv, TypeOK, Loaded, Scenes
    <2>4. \A k \in Kinds : task[scene][k] \in TaskStates
      BY <2>3
    <2>. QED
      BY <2>1, <2>2, <2>4 DEF GotData, Outstanding, TaskStates
  <1>. QED
    BY <1>1, IndicatorInvariant, PTL

-----------------------------------------------------------------------------
(***************************************************************************)
(* The 30 minute restriction on rates.                                     *)
(***************************************************************************)

\* saveRateData deletes the old rows, so ".first" is the only row.
OneRateRow == Len(rateData) <= 1

LEMMA NextOneRateRow == TypeInv /\ OneRateRow /\ [Next]_vars => OneRateRow'
  <1> SUFFICES ASSUME TypeInv, OneRateRow, [Next]_vars PROVE OneRateRow'
    OBVIOUS
  <1>1. CASE \E s \in Scenes : \E r \in RateListResponses : RateAnswer(s, r)
    BY <1>1 DEF RateAnswer, SaveRateData, OneRateRow
  <1>2. CASE UNCHANGED rateData
    BY <1>2 DEF OneRateRow
  <1>3. (\E s \in Scenes : \E r \in RateListResponses : RateAnswer(s, r)) \/ UNCHANGED rateData
    BY DEF Next, vars, dbVars, rateTables, Launch, SceneConnect, ViewDidLoadRates,
           SceneDisconnect, RunMainBlock, FadeDone, TaskEnds, AnswerWithoutData,
           AnswerNotDecodable, CurrencyAnswer, CallOutput, Kill, Die, Tick
  <1>. QED
    BY <1>1, <1>2, <1>3

(***************************************************************************)
(* fetchRateData starts a request only when every stored answer is at      *)
(* least TTL old.                                                          *)
(***************************************************************************)
THEOREM RateRequestOnlyWhenStaleHolds == Spec => RateRequestOnlyWhenStale
  <1> DEFINE Stale == \A i \in 1 .. Len(rateData) : now - rateData[i].savedAt >= TTL
             Sends(s) == task[s]["rate"] # "sent" /\ task'[s]["rate"] = "sent"
             Step == \A s \in Scenes : Sends(s) => Stale
  <1>1. Init => OneRateRow
    BY DEF Init, DBInit, OneRateRow
  <1>2. TypeInv /\ OneRateRow /\ [Next]_vars => [Step]_vars
    <2> SUFFICES ASSUME TypeInv, OneRateRow, Next, NEW s \in Scenes, Sends(s)
                 PROVE  Stale
      OBVIOUS
    <2>t. /\ task \in [Scenes -> [Kinds -> TaskStates]]
          /\ rateData \in Seq(ExchangeRateData)
          /\ now \in Int
          /\ "rate" \in Kinds
      BY DEF TypeInv, TypeOK, DBTypeOK, Clock, Kinds
    <2>1. CASE ViewDidLoadRates
      <3>1. PICK z \in Scenes : z = scene
        BY <2>1 DEF TypeInv, ViewDidLoadRates
      <3>2. ~IsFresh(rateData, now)
        <4>1. CASE task' = [task EXCEPT ![z]["rate"] = "cached"]
          BY <2>t, <4>1
        <4>. QED
          BY <2>1, <3>1, <4>1 DEF ViewDidLoadRates, FetchRateDataFromAPI, FetchRateData, Fetch
      <3>3. \A i \in 1 .. Len(rateData) : i = 1 /\ rateData[i].savedAt \in Int
        <4>1. /\ Len(rateData) \in Nat
              /\ \A i \in 1 .. Len(rateData) : rateData[i] \in ExchangeRateData
          BY <2>t
        <4>. QED
          BY <4>1 DEF OneRateRow, ExchangeRateData
      <3>. QED
        BY <2>t, <3>2, <3>3, TTLIsPositive DEF IsFresh
    <2>2. CASE SceneConnect
      <3>1. PICK z \in Scenes, x \in TaskStates : task' = [task EXCEPT ![z]["currency"] = x]
        BY <2>2, BoundsAreNaturals
        DEF SceneConnect, ViewDidLoadCurrencies, FetchCurrencyListDataFromAPI,
          FetchCurrencyListData, Fetch, TypeInv, TypeOK, Scenes, TaskStates
      <3>2. task'[s]["rate"] = task[s]["rate"]
        BY <2>t, <3>1
      <3>. QED
        BY <3>2
    <2>3. CASE UNCHANGED task
      BY <2>3
    <2>4. CASE Die
      BY <2>4 DEF Die, NoTask, Kinds
    <2>5. ASSUME NEW z \in Scenes, NEW k \in Kinds, NEW x \in TaskStates \ {"sent"},
                 task' = [task EXCEPT ![z][k] = x]
          PROVE  Stale
      BY <2>t, <2>5
    <2>6. ASSUME NEW z \in Scenes, NEW k \in Kinds, TaskEnds(z, k) \/ CallOutput(z, k), ~Die
          PROVE  Stale
      <3>1. PICK x \in TaskStates \ {"sent"} : task' = [task EXCEPT ![z][k] = x]
        BY <2>6 DEF TaskEnds, AnswerWithoutData, AnswerNotDecodable, CurrencyAnswer,
                    RateAnswer, CallOutput, TaskStates
      <3>. QED
        BY <3>1, <2>5
    <2>. QED
      BY <2>1, <2>2, <2>3, <2>4, <2>6
      DEF Next, Launch, SceneDisconnect, RunMainBlock, FadeDone, Kill, Tick
  <1>3. Spec => [][Step]_vars
    BY <1>1, <1>2, NextOneRateRow, TypeInvariant, PTL DEF Spec
  <1>. QED
    BY <1>3 DEF RateRequestOnlyWhenStale

-----------------------------------------------------------------------------

(***************************************************************************)
(* The stored rates and the row that dates them come from one answer, in   *)
(* whatever order answers of several scenes reach saveRateData.            *)
(***************************************************************************)
THEOREM RatesAreOneAnswerHolds == Spec => []RatesAreOneAnswer
  <1>1. Init => RatesAreOneAnswer
    BY DEF Init, DBInit, RatesAreOneAnswer
  <1>2. RatesAreOneAnswer /\ [Next]_vars => RatesAreOneAnswer'
    <2> SUFFICES ASSUME RatesAreOneAnswer, [Next]_vars PROVE RatesAreOneAnswer'
      OBVIOUS
    <2>1. CASE UNCHANGED rateTables
      BY <2>1 DEF RatesAreOneAnswer, rateTables
    <2>2. ASSUME NEW r \in RateListResponses, SaveRateData(r, now)
          PROVE  RatesAreOneAnswer'
      BY <2>2 DEF SaveRateData, RatesAreOneAnswer
    <2>3. UNCHANGED rateTables \/ \E r \in RateListResponses : SaveRateData(r, now)
      BY DEF Next, vars, dbVars, Launch, SceneConnect, ViewDidLoadRates, SceneDisconnect,
             RunMainBlock, FadeDone, TaskEnds, AnswerWithoutData, AnswerNotDecodable, CurrencyAnswer,
             RateAnswer, CallOutput, Kill, Die, Tick
    <2>. QED
      BY <2>1, <2>2, <2>3
  <1>. QED
    BY <1>1, <1>2, PTL DEF Spec
=============================================================================
