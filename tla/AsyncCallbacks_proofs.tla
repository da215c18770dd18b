------------------------- MODULE AsyncCallbacks_proofs -------------------------
(***************************************************************************)
(* What AsyncNotifiers promises to the callbacks, proved for any number of *)
(* Realm instances, notifiers, callbacks and versions.                     *)
(*                                                                         *)
(* The invariants follow a change on its way: ThreadInv (where a thread    *)
(* stands), PlaceInv (which notifiers have run, and that those are at one  *)
(* version), FoundInv (what a run has found), ToldInv (what is accumulated *)
(* and told), and, for callbacks nothing disturbs, LateInv, WriteInv,      *)
(* PaceInv and SuppressInv.                                                *)
(***************************************************************************)
EXTENDS AsyncNotifiers_proofs

Base == TypeOK /\ WorkerInv

LEMMA Typed ==
  ASSUME TypeOK
  PROVE  /\ latest \in Nat /\ skip \in Nat /\ pin \in Nat
         /\ \A r \in Realms : rv[r] \in Nat /\ target[r] \in Nat
         /\ \A n \in Notifiers : nver[n] \in Nat /\ ran[n] \in Nat /\ found[n] \subseteq Nat
         /\ \A c \in Callbacks : /\ NotifierOf[c] \in Notifiers /\ RealmOf[NotifierOf[c]] \in Realms
                                 /\ since[c] \in Nat /\ shown[c] \in Nat
                                 /\ acc[c] \subseteq Nat /\ told[c] \subseteq Nat
                                 /\ dropped[c] \subseteq Nat /\ deliver[c] \subseteq Nat
                                 /\ quiet[c] \subseteq Nat
         /\ worker.version \in Nat /\ worker.skip \in Nat
         /\ worker.old \subseteq Notifiers /\ worker.new \subseteq Notifiers
  <1>1. Versions \subseteq Nat
    BY VersionsSet
  <1>2. /\ latest \in Nat /\ skip \in Nat /\ pin \in Nat
        /\ \A r \in Realms : rv[r] \in Nat /\ target[r] \in Nat
        /\ \A n \in Notifiers : nver[n] \in Nat /\ ran[n] \in Nat /\ found[n] \subseteq Nat
    BY <1>1, TypeParts DEF TypedParts, RealmTypes, NoteTypes, WorkTypes
  <1>3. \A c \in Callbacks : /\ since[c] \in Nat /\ shown[c] \in Nat
                             /\ acc[c] \subseteq Nat /\ told[c] \subseteq Nat
                             /\ dropped[c] \subseteq Nat /\ deliver[c] \subseteq Nat
                             /\ quiet[c] \subseteq Nat
    BY <1>1, TypeParts DEF TypedParts, ChangeTypes, AskTypes
  <1>4. /\ worker.version \in Nat /\ worker.skip \in Nat
        /\ worker.old \subseteq Notifiers /\ worker.new \subseteq Notifiers
    BY <1>1, TypeParts DEF TypedParts, WorkTypes
  <1>. QED
    BY <1>2, <1>3, <1>4, NotifierAssumptions

LEMMA NextBase == Base /\ [Next]_vars => Base'
  <1> SUFFICES ASSUME TypeOK, WorkerInv, [Next]_vars PROVE Base'
    BY DEF Base
  <1>1. CASE UNCHANGED vars
    BY <1>1, NextWorker
    DEF Base, vars, TypeOK, realmVars, askVars, noteVars, callVars, workVars, wakeVars, histVars
  <1>2. CASE Next
    BY <1>2, NextWorker, RealmStepTypes, CommitTypes, RegistrationTypes, WorkTypesKept DEF Next, Base
  <1>. QED
    BY <1>1, <1>2

-----------------------------------------------------------------------------
(***************************************************************************)
(* The steps of the worker, the same for both of its phases.               *)
(***************************************************************************)

\* The notifiers the worker runs in this phase, and the version it runs them at.
Running == IF worker.at \in {"skip", "skipped"} THEN worker.old ELSE worker.old \cup worker.new

RunVersion == IF worker.at \in {"skip", "skipped"} THEN worker.skip ELSE worker.version

LEMMA HandingOverIsRunning ==
  ASSUME NEW n
  PROVE  HandingOver(n) <=> worker.at \in {"skipped", "ran"} /\ n \in Running
  BY DEF HandingOver, Running

RunStep == RunToSkipVersion \/ RunToVersion

HandoverStep == HandoverAtSkipVersion \/ HandoverAtVersion

LEMMA RunningFacts ==
  ASSUME Base, worker.at # "idle"
  PROVE  /\ Running \subseteq Notifiers /\ Running \subseteq worker.old \cup worker.new
         /\ RunVersion \in Nat /\ RunVersion >= 1 /\ RunVersion <= worker.version
         /\ worker.version <= latest
         /\ \A n \in Running : /\ nver[n] <= RunVersion
                               /\ place[n] \in {"main", "gone"}
         /\ skip # 0 => worker.version < skip
  <1>1. /\ worker \in WorkerStates /\ worker.version \in 1 .. latest /\ latest \in Nat
        /\ skip # 0 => worker.version < skip
        /\ \A n \in worker.old \cup worker.new :
             place[n] \in {"main", "gone"} /\ nver[n] <= worker.version
        /\ worker.at \in {"skip", "skipped"} =>
             /\ worker.skip \in 1 .. worker.version
             /\ \A n \in worker.old : nver[n] <= worker.skip
    BY DEF Base, WorkerInv, RunInv, VersionsInv
  <1>2. worker.old \subseteq Notifiers /\ worker.new \subseteq Notifiers
    BY <1>1 DEF WorkerStates
  <1>. QED
    BY <1>1, <1>2 DEF Running, RunVersion

LEMMA RunStepFacts ==
  ASSUME Base, RunStep
  PROVE  /\ Run(Running, RunVersion)
         /\ worker.at \in {"skip", "rest"} /\ worker'.at \in {"skipped", "ran"}
         /\ Running' = Running /\ RunVersion' = RunVersion
         /\ worker'.old = worker.old /\ worker'.new = worker.new
         /\ worker'.skip = worker.skip /\ worker'.version = worker.version
         /\ worker.at = "skip" <=> worker'.at = "skipped"
         /\ UNCHANGED <<latest, realmVars, askVars, place, alive, nver, hasRun, callVars, pin, skip,
                        wakeVars, nested, late>>
  <1>1. CASE RunToSkipVersion
    BY <1>1 DEF RunToSkipVersion, Running, RunVersion, Base, TypeOK
  <1>2. CASE RunToVersion
    BY <1>2 DEF RunToVersion, Running, RunVersion, Base, TypeOK
  <1>. QED
    BY <1>1, <1>2 DEF RunStep

LEMMA HandoverStepFacts ==
  ASSUME Base, HandoverStep
  PROVE  /\ PrepareHandover(Running, RunVersion)
         /\ worker.at \in {"skipped", "ran"} /\ worker'.at \in {"rest", "idle"}
         /\ worker.at = "skipped" => /\ worker' = [worker EXCEPT !.at = "rest"]
                                     /\ Running = worker.old
                                     /\ UNCHANGED <<place, skip, pin>>
         /\ worker.at = "ran" =>
              /\ worker' = Idle /\ Running = worker.old \cup worker.new
              /\ place' = [n \in Notifiers |-> IF n \in Dead(MainNotifiers \cup NewNotifiers)
                                               THEN "gone" ELSE place[n]]
              /\ skip' = SkipAfterCleanUp(MainNotifiers)
         /\ UNCHANGED <<latest, writer, rv, at, target, askVars, alive, wakeVars>>
  <1>1. CASE HandoverAtSkipVersion
    BY <1>1 DEF HandoverAtSkipVersion, Running, RunVersion, Base, TypeOK, realmVars
  <1>2. CASE HandoverAtVersion
    BY <1>2 DEF HandoverAtVersion, Running, RunVersion, Idle
  <1>. QED
    BY <1>1, <1>2 DEF HandoverStep

\* A version that a notifier has run at is handed over.
LEMMA HandoverNotifiers ==
  ASSUME Base, HandoverStep, NEW n \in Notifiers
  PROVE  /\ n \in Running => /\ nver'[n] = RunVersion /\ hasRun'[n] = TRUE /\ found'[n] = {}
         /\ n \notin Running => /\ nver'[n] = nver[n] /\ hasRun'[n] = hasRun[n]
                                /\ found'[n] = found[n]
         /\ ran'[n] = ran[n] /\ looked' = {} /\ UNCHANGED <<have, nested, late>>
  <1>1. PrepareHandover(Running, RunVersion)
    BY HandoverStepFacts
  <1>2. hasRun[n] \in BOOLEAN
    BY DEF Base, TypeOK
  <1>. QED
    BY <1>1, <1>2 DEF PrepareHandover

\* What a callback gets by it.
LEMMA HandoverCallbacks ==
  ASSUME Base, HandoverStep, NEW c \in Callbacks
  PROVE  /\ UNCHANGED <<on[c], initial[c], deliver[c], told[c], since[c], shown[c]>>
         /\ on[c] = "on" /\ NotifierOf[c] \in Running =>
              /\ skipNext'[c] = FALSE
              /\ ~skipNext[c] => acc'[c] = acc[c] \cup found[NotifierOf[c]] /\ dropped'[c] = dropped[c]
              /\ skipNext[c] => acc'[c] = acc[c] /\ dropped'[c] = dropped[c] \cup found[NotifierOf[c]]
         /\ ~(on[c] = "on" /\ NotifierOf[c] \in Running) =>
              UNCHANGED <<acc[c], dropped[c], skipNext[c]>>
  <1>1. PrepareHandover(Running, RunVersion)
    BY HandoverStepFacts
  <1>2. skipNext[c] \in BOOLEAN
    BY DEF Base, TypeOK
  <1>. QED
    BY <1>1, <1>2 DEF PrepareHandover, Accumulated

-----------------------------------------------------------------------------
(***************************************************************************)
(* Where the threads stand.  A Realm in a write transaction is at the      *)
(* latest version, and a wait is for a version the Realm is not past.      *)
(***************************************************************************)

ThreadInv ==
  \A r \in Realms :
    /\ writer = r => rv[r] = latest
    /\ at[r] \in {"begin", "commit"} => writer = r
    /\ at[r] = "begin" => target[r] = latest
    /\ at[r] = "refresh" => rv[r] <= target[r] /\ target[r] <= latest /\ writer # r

threadVars == <<latest, writer, rv, at, target>>

\* Steps that move no thread.
LEMMA ThreadFrame ==
  ASSUME Next, ~OtherCommit, ~\E r \in Realms : RealmStep(r)
  PROVE  UNCHANGED threadVars
  BY DEF Next, Work, OnChange, RunToSkipVersion, HandoverAtSkipVersion, RunToVersion,
         HandoverAtVersion, PrepareAsync, Unregister, WakeUp, AddCallback, RemoveCallback, threadVars,
         realmVars

LEMMA ThreadOfRealmStep ==
  ASSUME Base, ThreadInv, NEW r \in Realms, RealmStep(r)
  PROVE  ThreadInv'
  <1>0. /\ latest \in Nat /\ rv \in [Realms -> 1 .. latest] /\ Nobody \notin Realms
        /\ target \in [Realms -> Nat]
        /\ at \in [Realms -> {"idle", "refresh", "begin", "commit", "sending"}]
    BY Typed, NotifierAssumptions DEF Base, WorkerInv, VersionsInv, TypeOK
  <1>1. CASE Notify(r)
    BY <1>0, <1>1 DEF ThreadInv, Notify, AdvanceToReady, ProcessAvailableAsync, AfterCalls
  <1>2. CASE SendingDone(r) \/ SetAutoRefresh(r) \/ CancelTransaction(r)
    BY <1>0, <1>2 DEF ThreadInv, SendingDone, SetAutoRefresh, CancelTransaction, Writing
  <1>3. CASE Refresh(r)
    BY <1>0, <1>3 DEF ThreadInv, Refresh
  <1>4. CASE RefreshDone(r)
    BY <1>0, <1>4 DEF ThreadInv, RefreshDone, AfterCalls
  <1>5. CASE BeginTransaction(r)
    BY <1>0, <1>5 DEF ThreadInv, BeginTransaction
  <1>6. CASE BeginDone(r)
    BY <1>0, <1>6 DEF ThreadInv, BeginDone
  <1>7. ASSUME NEW cs \in SUBSET Callbacks, SuppressNextNotification(r, cs)
        PROVE  ThreadInv'
    BY <1>0, <1>7 DEF ThreadInv, SuppressNextNotification
  <1>8. CASE CommitTransaction(r)
    BY <1>0, <1>8 DEF ThreadInv, CommitTransaction
  <1>. QED
    BY <1>1, <1>2, <1>3, <1>4, <1>5, <1>6, <1>7, <1>8 DEF RealmStep

LEMMA NextThread == Base /\ ThreadInv /\ [Next]_vars => ThreadInv'
  <1> SUFFICES ASSUME Base, ThreadInv, [Next]_vars PROVE ThreadInv'
    OBVIOUS
  <1>1. CASE UNCHANGED threadVars
    BY <1>1 DEF ThreadInv, threadVars
  <1>2. CASE OtherCommit
    BY <1>2, Typed, NotifierAssumptions DEF OtherCommit, ThreadInv, Base, realmVars
  <1>. QED
    BY <1>1, <1>2, ThreadOfRealmStep, ThreadFrame DEF vars, threadVars, realmVars

-----------------------------------------------------------------------------
(***************************************************************************)
(* Which notifiers have run.  Whenever a package is made, the notifiers    *)
(* that have run are at one version, so that it does not matter whose      *)
(* version the package takes.                                              *)
(***************************************************************************)

PlaceInv ==
  /\ \A n \in Notifiers : place[n] \in {"none", "new"} => ~hasRun[n]
  /\ \A n \in Notifiers : place[n] = "none" => nver[n] = 0
  /\ \A n \in Notifiers : alive[n] => place[n] \in {"new", "main"}
  /\ worker.at = "idle" => \A n \in MainNotifiers : hasRun[n]
  /\ worker.at # "idle" =>
       /\ MainNotifiers \subseteq worker.old \cup worker.new
       /\ \A n \in worker.old : hasRun[n]
       /\ \A n \in worker.new : ~hasRun[n]
  /\ \A n, m \in MainNotifiers : hasRun[n] /\ hasRun[m] => nver[n] = nver[m]

placeVars == <<place, alive, hasRun, nver, worker>>

\* A step that only wakes the worker up, or none.
Unseen == UNCHANGED <<latest, realmVars, askVars, noteVars, callVars, workVars, histVars>>

LEMMA UnseenSteps ==
  ASSUME UNCHANGED vars \/ \E c \in Callbacks : WakeUp(c)
  PROVE  Unseen
  BY DEF vars, WakeUp, Unseen

\* Steps of the threads, commits, and the removal of a callback.
LEMMA PlaceFrame ==
  ASSUME \/ \E r \in Realms : RealmStep(r)
         \/ OtherCommit
         \/ \E c \in Callbacks : RemoveCallback(c)
         \/ Unseen
  PROVE  UNCHANGED <<placeVars, found, ran, looked, late>>
  <1>1. ASSUME NEW r \in Realms, RealmStep(r)
        PROVE  UNCHANGED <<placeVars, found, ran, looked, late>>
    BY <1>1 DEF RealmStep, Notify, SendingDone, SetAutoRefresh, Refresh, RefreshDone,
                BeginTransaction, BeginDone, SuppressNextNotification, CommitTransaction, CancelTransaction, placeVars, noteVars,
                workVars, histVars
  <1>2. CASE OtherCommit \/ (\E c \in Callbacks : RemoveCallback(c)) \/ Unseen
    BY <1>2 DEF OtherCommit, RemoveCallback, Unseen, placeVars, noteVars, workVars, histVars
  <1>. QED
    BY <1>1, <1>2

\* Registration leaves what has run alone.
LEMMA RegistrationFacts ==
  ASSUME Base, NEW n \in Notifiers,
         \/ PrepareAsync(n) \/ Unregister(n)
         \/ \E c \in Callbacks : NotifierOf[c] = n /\ AddCallback(c)
  PROVE  /\ UNCHANGED <<latest, rv, hasRun, ran, found, worker, looked>>
         /\ \/ place[n] = "none" /\ RegisterNotifier(n)
            \/ UNCHANGED <<place, alive, nver>>
            \/ UNCHANGED <<place, nver>> /\ alive' = [alive EXCEPT ![n] = FALSE]
  BY DEF PrepareAsync, Unregister, AddCallback, realmVars, noteVars, histVars, workVars

LEMMA PlaceOfRegistration ==
  ASSUME Base, PlaceInv, NEW n \in Notifiers,
         \/ PrepareAsync(n) \/ Unregister(n)
         \/ \E c \in Callbacks : NotifierOf[c] = n /\ AddCallback(c)
  PROVE  PlaceInv'
  <1>0. /\ place \in [Notifiers -> {"none", "new", "main", "gone"}]
        /\ alive \in [Notifiers -> BOOLEAN] /\ nver \in [Notifiers -> Versions]
    BY DEF Base, TypeOK
  <1>1. CASE place[n] = "none" /\ RegisterNotifier(n)
    <2>1. /\ place' = [place EXCEPT ![n] = "new"] /\ alive' = [alive EXCEPT ![n] = TRUE]
          /\ nver' = [nver EXCEPT ![n] = rv[RealmOf[n]]]
          /\ UNCHANGED <<hasRun, worker>>
      BY <1>1, RegistrationFacts DEF RegisterNotifier
    <2>2. MainNotifiers' = MainNotifiers /\ n \notin MainNotifiers
      BY <1>0, <1>1, <2>1 DEF MainNotifiers
    <2>. QED
      BY <1>0, <1>1, <2>1, <2>2 DEF PlaceInv, MainNotifiers
  <1>2. CASE UNCHANGED <<place, alive, nver>>
    BY <1>2, RegistrationFacts DEF PlaceInv, MainNotifiers
  <1>3. CASE UNCHANGED <<place, nver>> /\ alive' = [alive EXCEPT ![n] = FALSE]
    BY <1>0, <1>3, RegistrationFacts DEF PlaceInv, MainNotifiers
  <1>. QED
    BY <1>1, <1>2, <1>3, RegistrationFacts

LEMMA PlaceOfOnChange ==
  ASSUME Base, PlaceInv, OnChange
  PROVE  PlaceInv'
  <1> DEFINE old == MainNotifiers \ Dead(MainNotifiers)
             new == NewNotifiers \ Dead(NewNotifiers)
             gone == Dead(MainNotifiers \cup NewNotifiers)
  <1>1. /\ place' = [n \in Notifiers |-> IF n \in gone THEN "gone"
                                         ELSE IF n \in new THEN "main" ELSE place[n]]
        /\ worker.at = "idle" /\ UNCHANGED <<alive, hasRun, nver>>
        /\ \/ old \cup new = {} /\ UNCHANGED worker
           \/ \E sv : RunNotifiers(old, new, sv)
    BY DEF OnChange
  <1>2. /\ gone \subseteq MainNotifiers \cup NewNotifiers /\ \A n \in gone : ~alive[n]
        /\ old = MainNotifiers \ gone /\ new = NewNotifiers \ gone
    BY DEF Dead
  <1> HIDE DEF old, new, gone
  <1>3. /\ MainNotifiers' = old \cup new
        /\ \A n \in Notifiers : place'[n] \in {"none", "new"} => place[n] = place'[n]
        /\ \A n \in Notifiers : alive[n] => place'[n] = place[n] \/ place'[n] = "main"
    BY <1>1, <1>2 DEF MainNotifiers, NewNotifiers
  <1>4. /\ \A n \in old : hasRun[n]
        /\ \A n \in new : ~hasRun[n]
        /\ \A n, m \in old : nver[n] = nver[m]
    BY <1>1, <1>2 DEF PlaceInv, MainNotifiers, NewNotifiers
  <1>5. \/ old \cup new = {} /\ UNCHANGED worker
        \/ worker'.at # "idle" /\ worker'.old = old /\ worker'.new = new
    BY <1>1 DEF RunNotifiers
  <1>. QED
    BY <1>1, <1>3, <1>4, <1>5 DEF PlaceInv

LEMMA PlaceOfRun ==
  ASSUME Base, PlaceInv, RunStep
  PROVE  PlaceInv'
  BY RunStepFacts DEF PlaceInv, MainNotifiers

LEMMA PlaceOfHandover ==
  ASSUME Base, PlaceInv, HandoverStep
  PROVE  PlaceInv'
  <1>0. worker.at # "idle" /\ Running \subseteq Notifiers
        /\ \A n \in Running : place[n] \in {"main", "gone"}
    BY HandoverStepFacts, RunningFacts
  <1>1. CASE worker.at = "skipped"
    <2>1. /\ worker'.at = "rest" /\ worker'.old = worker.old /\ worker'.new = worker.new
          /\ Running = worker.old /\ UNCHANGED <<place, alive>> /\ MainNotifiers' = MainNotifiers
      BY <1>1, HandoverStepFacts DEF Base, TypeOK, MainNotifiers
    <2>2. worker.old \subseteq Notifiers /\ worker.new \subseteq Notifiers
      BY Typed DEF Base
    <2>3. worker.old \cap worker.new = {}
      BY <1>0 DEF PlaceInv
    <2>4. /\ \A n \in worker.old : hasRun'[n] /\ nver'[n] = RunVersion
          /\ \A n \in Notifiers \ worker.old : hasRun'[n] = hasRun[n] /\ nver'[n] = nver[n]
      BY <2>1, <2>2, HandoverNotifiers
    <2>5. \A n \in MainNotifiers : hasRun'[n] => n \in worker.old
      BY <1>0, <2>4 DEF PlaceInv, MainNotifiers
    <2>. QED
      BY <1>0, <2>1, <2>2, <2>3, <2>4, <2>5 DEF PlaceInv, MainNotifiers
  <1>2. CASE worker.at = "ran"
    <2> DEFINE gone == Dead(MainNotifiers \cup NewNotifiers)
    <2>1. /\ worker'.at = "idle" /\ Running = worker.old \cup worker.new /\ UNCHANGED alive
          /\ place' = [n \in Notifiers |-> IF n \in gone THEN "gone" ELSE place[n]]
      BY <1>2, HandoverStepFacts DEF Idle
    <2>2. \A n \in gone : ~alive[n]
      BY DEF Dead
    <2> HIDE DEF gone
    <2>3. MainNotifiers' \subseteq MainNotifiers
      BY <2>1 DEF MainNotifiers
    <2>4. /\ \A n \in Running : hasRun'[n] /\ nver'[n] = RunVersion
          /\ \A n \in Notifiers \ Running : hasRun'[n] = hasRun[n] /\ nver'[n] = nver[n]
      BY <1>0, HandoverNotifiers
    <2>5. MainNotifiers \subseteq Running
      BY <1>0, <2>1 DEF PlaceInv
    <2>. QED
      BY <1>0, <2>1, <2>2, <2>3, <2>4, <2>5 DEF PlaceInv
  <1>. QED
    BY <1>1, <1>2, HandoverStepFacts

LEMMA NextPlace == Base /\ PlaceInv /\ [Next]_vars => PlaceInv'
  <1> SUFFICES ASSUME Base, PlaceInv, [Next]_vars PROVE PlaceInv'
    OBVIOUS
  <1>1. CASE UNCHANGED placeVars
    BY <1>1 DEF PlaceInv, placeVars, MainNotifiers
  <1>2. CASE Work
    BY <1>2, PlaceOfOnChange, PlaceOfRun, PlaceOfHandover DEF Work, RunStep, HandoverStep
  <1>3. ASSUME NEW n \in Notifiers, PrepareAsync(n) \/ Unregister(n)
        PROVE  PlaceInv'
    BY <1>3, PlaceOfRegistration
  <1>4. ASSUME NEW c \in Callbacks, AddCallback(c)
        PROVE  PlaceInv'
    BY <1>4, PlaceOfRegistration, NotifierAssumptions
  <1>. QED
    BY <1>1, <1>2, <1>3, <1>4, PlaceFrame, UnseenSteps DEF Next

-----------------------------------------------------------------------------
(***************************************************************************)
(* What a run has found.  Only between run() and prepare_handover() is     *)
(* there anything, and a run that looked has found all that the handover   *)
(* will pass.                                                              *)
(***************************************************************************)

FoundInv ==
  \A n \in Notifiers :
    /\ ~HandingOver(n) => found[n] = {} /\ ran[n] <= nver[n] /\ n \notin looked
    /\ HandingOver(n) =>
         /\ ran[n] <= RunVersion
         /\ \A v \in found[n] : v <= ran[n]
         /\ n \in looked => /\ ran[n] = RunVersion
                            /\ \A v \in Nat : nver[n] < v /\ v <= RunVersion => v \in found[n]

\* What run() does to the notifier n.
LEMMA RunNotifier ==
  ASSUME Base, FoundInv, RunStep, NEW n \in Running
  PROVE  /\ n \in Notifiers /\ ran[n] <= nver[n] /\ nver[n] <= RunVersion
         /\ n \in looked' <=> hasRun[n] /\ have[n]
         /\ hasRun[n] /\ have[n] =>
              ran'[n] = RunVersion /\ found'[n] = {v \in Nat : ran[n] < v /\ v <= RunVersion}
         /\ ~(hasRun[n] /\ have[n]) => ran'[n] \in {ran[n], RunVersion} /\ found'[n] = {}
  <1>0. /\ worker.at \in {"skip", "rest"} /\ worker.at # "idle" /\ Run(Running, RunVersion)
        /\ n \in Notifiers
    BY RunStepFacts, RunningFacts
  <1>1. ~HandingOver(n)
    BY <1>0, HandingOverIsRunning
  <1>2. ran[n] <= nver[n] /\ nver[n] <= RunVersion /\ ran[n] \in Nat /\ RunVersion \in Nat
    BY <1>0, <1>1, RunningFacts, Typed DEF FoundInv, Base
  <1>3. /\ found'[n] = Changes(n, RunVersion) /\ ran'[n] \in RanAt(n, RunVersion)
        /\ n \in looked' <=> hasRun[n] /\ have[n]
    BY <1>0 DEF Run
  <1>4. ran[n] + 1 .. RunVersion = {v \in Nat : ran[n] < v /\ v <= RunVersion}
    BY <1>2
  <1>. QED
    BY <1>0, <1>2, <1>3, <1>4 DEF Changes, RanAt

LEMMA RunOthers ==
  ASSUME Base, RunStep, NEW n \in Notifiers, n \notin Running
  PROVE  ran'[n] = ran[n] /\ found'[n] = found[n] /\ n \notin looked'
  BY RunStepFacts DEF Run

LEMMA FoundOfRun ==
  ASSUME Base, FoundInv, RunStep
  PROVE  FoundInv'
  <1> SUFFICES ASSUME NEW n \in Notifiers
               PROVE  /\ ~HandingOver(n)' => /\ found'[n] = {} /\ ran'[n] <= nver'[n]
                                             /\ n \notin looked'
                      /\ HandingOver(n)' =>
                           /\ ran'[n] <= RunVersion'
                           /\ \A v \in found'[n] : v <= ran'[n]
                           /\ n \in looked' =>
                                /\ ran'[n] = RunVersion'
                                /\ \A v \in Nat : nver'[n] < v /\ v <= RunVersion' => v \in found'[n]
    BY DEF FoundInv
  <1>0. /\ worker.at \in {"skip", "rest"} /\ worker'.at \in {"skipped", "ran"}
        /\ Running' = Running /\ RunVersion' = RunVersion /\ UNCHANGED nver
    BY RunStepFacts
  <1>1. ~HandingOver(n) /\ (HandingOver(n)' <=> n \in Running)
    BY <1>0, HandingOverIsRunning DEF HandingOver, Running
  <1>2. nver[n] \in Nat /\ ran[n] \in Nat
    BY Typed DEF Base
  <1>3. CASE n \in Running
    <2>1. worker.at # "idle"
      BY <1>0
    <2>2. RunVersion \in Nat
      BY <2>1, RunningFacts
    <2>. QED
      BY <1>0, <1>1, <1>2, <1>3, <2>2, RunNotifier
  <1>4. CASE n \notin Running
    BY <1>0, <1>1, <1>4, RunOthers DEF FoundInv
  <1>. QED
    BY <1>3, <1>4

LEMMA FoundOfHandover ==
  ASSUME Base, FoundInv, HandoverStep
  PROVE  FoundInv'
  <1>0. worker.at \in {"skipped", "ran"} /\ worker'.at \in {"rest", "idle"}
    BY HandoverStepFacts
  <1>1. \A n \in Notifiers : ~HandingOver(n)'
    BY <1>0 DEF HandingOver
  <1>2. \A n \in Notifiers : HandingOver(n) <=> n \in Running
    BY <1>0, HandingOverIsRunning
  <1>3. ASSUME NEW n \in Notifiers
        PROVE  found'[n] = {} /\ ran'[n] <= nver'[n] /\ n \notin looked'
    BY <1>2, HandoverNotifiers DEF FoundInv
  <1>. QED
    BY <1>1, <1>3 DEF FoundInv

LEMMA NextFound == Base /\ PlaceInv /\ FoundInv /\ [Next]_vars => FoundInv'
  <1> SUFFICES ASSUME Base, PlaceInv, FoundInv, [Next]_vars PROVE FoundInv'
    OBVIOUS
  <1>1. CASE UNCHANGED <<placeVars, found, ran, looked>>
    BY <1>1 DEF FoundInv, HandingOver, RunVersion, placeVars
  <1>2. CASE OnChange
    <2>1. /\ UNCHANGED <<found, ran, nver, looked>> /\ worker.at = "idle"
          /\ worker'.at \notin {"skipped", "ran"}
      BY <1>2 DEF OnChange, RunNotifiers, histVars
    <2>. QED
      BY <2>1 DEF FoundInv, HandingOver
  <1>3. CASE RunStep \/ HandoverStep
    BY <1>3, FoundOfRun, FoundOfHandover
  <1>4. ASSUME NEW n \in Notifiers,
               \/ PrepareAsync(n) \/ Unregister(n)
               \/ \E c \in Callbacks : NotifierOf[c] = n /\ AddCallback(c)
        PROVE  FoundInv'
    <2>1. /\ UNCHANGED <<ran, found, worker, looked>>
          /\ \/ place[n] = "none" /\ nver' = [nver EXCEPT ![n] = rv[RealmOf[n]]]
             \/ UNCHANGED nver
      BY <1>4, RegistrationFacts DEF RegisterNotifier
    <2>2. CASE place[n] = "none" /\ nver' = [nver EXCEPT ![n] = rv[RealmOf[n]]]
      <3>1. ~HandingOver(n)
        <4>1. worker.at # "idle" => n \notin Running
          BY <2>2, RunningFacts
        <4>. QED
          BY <4>1, HandingOverIsRunning
      <3>2. nver[n] = 0 /\ nver[n] <= nver'[n] /\ \A m \in Notifiers : m # n => nver'[m] = nver[m]
        <4>1. rv[RealmOf[n]] \in Nat /\ nver \in [Notifiers -> Versions]
          BY Typed, NotifierAssumptions DEF Base, TypeOK
        <4>. QED
          BY <2>2, <4>1 DEF PlaceInv
      <3>3. nver'[n] \in Nat /\ ran[n] \in Nat
        BY <2>2, Typed, NotifierAssumptions DEF Base, TypeOK
      <3>. QED
        BY <2>1, <3>1, <3>2, <3>3 DEF FoundInv, HandingOver, RunVersion
    <2>3. CASE UNCHANGED nver
      BY <2>1, <2>3 DEF FoundInv, HandingOver, RunVersion
    <2>. QED
      BY <2>1, <2>2, <2>3
  <1>. QED
    BY <1>1, <1>2, <1>3, <1>4, PlaceFrame, UnseenSteps, NotifierAssumptions
    DEF Next, Work, RunStep, HandoverStep

-----------------------------------------------------------------------------
(***************************************************************************)
(* Delivery: what Notify, RefreshDone and BeginDone do to one callback.    *)
(***************************************************************************)

DeliveryStep(r) == Notify(r) \/ RefreshDone(r) \/ BeginDone(r)

Untouched(c) == UNCHANGED <<acc[c], deliver[c], told[c], since[c], shown[c], initial[c]>>

Packaged(c) ==
  /\ acc'[c] = {} /\ deliver'[c] = acc[c]
  /\ UNCHANGED <<told[c], since[c], shown[c], initial[c]>>

Called(c) ==
  /\ acc'[c] = {} /\ deliver'[c] = {} /\ initial'[c] = TRUE
  /\ shown'[c] = nver[NotifierOf[c]]
  /\ initial[c] => told'[c] = told[c] \cup acc[c] /\ since'[c] = since[c]
  /\ ~initial[c] => told'[c] = told[c] /\ since'[c] = nver[NotifierOf[c]]

LEMMA PackageOne ==
  ASSUME NEW ns, NEW c \in Callbacks, Package(ns)
  PROVE  /\ UNCHANGED <<on, have, skipNext, dropped>>
         /\ c \in CallbacksOf(ns) => Packaged(c)
         /\ c \notin CallbacksOf(ns) => Untouched(c)
  BY DEF Package, Packaged, Untouched

LEMMA CallOne ==
  ASSUME TypeOK, NEW ns, NEW c \in Callbacks, NEW v, PackageAndCall(ns, v),
         c \in CallbacksOf(ns) => v = nver[NotifierOf[c]]
  PROVE  /\ UNCHANGED <<on, have, skipNext, dropped>>
         /\ c \in CallbacksOf(ns) => Called(c)
         /\ c \notin CallbacksOf(ns) => Untouched(c)
  <1>1. initial[c] \in BOOLEAN
    BY DEF TypeOK
  <1>. QED
    BY <1>1 DEF PackageAndCall, Called, Untouched

\* The notifiers of a package are at one version.
LEMMA HaveRunAtOneVersion ==
  ASSUME PlaceInv, NEW r, NEW n \in HaveRun(r), NEW m \in HaveRun(r)
  PROVE  n \in Notifiers /\ nver[n] = nver[m]
  BY DEF PlaceInv, HaveRun, NotifiersForRealm, MainNotifiers, NewNotifiers

\* A callback is packaged in vain only when its notifier is behind; it is called
\* at the version of its notifier, which the Realm is then at.
DeliveredTo(r, c) ==
  \/ /\ Untouched(c)
     /\ on[c] = "on" /\ NotifierOf[c] \in HaveRun(r) => at[r] = "idle" /\ rv'[r] = rv[r]
  \/ /\ Packaged(c)
     /\ on[c] = "on" /\ NotifierOf[c] \in HaveRun(r)
     /\ \/ at[r] = "idle" /\ writer # r /\ nver[NotifierOf[c]] < rv[r] /\ rv'[r] = rv[r]
        \/ at[r] # "idle" /\ nver[NotifierOf[c]] < target[r]
  \/ /\ Called(c)
     /\ on[c] = "on" /\ NotifierOf[c] \in HaveRun(r)
     /\ rv'[r] = nver[NotifierOf[c]] /\ rv[r] <= nver[NotifierOf[c]]

LEMMA DeliveryFrame ==
  ASSUME Base, ThreadInv, PlaceInv, NEW r \in Realms, DeliveryStep(r)
  PROVE  /\ UNCHANGED <<latest, writer, askVars, noteVars, workVars, wakeVars, histVars>>
         /\ rv'[r] \in Nat /\ rv[r] <= rv'[r] /\ rv'[r] <= latest
         /\ \A q \in Realms : q # r => rv'[q] = rv[q]
         /\ at'[r] \in {"idle", "sending"} /\ \A q \in Realms : q # r => at'[q] = at[q]
         /\ at[r] \in {"idle", "refresh", "begin"}
         /\ at[r] # "idle" => Ready(r, target[r])
         /\ at[r] = "begin" => rv'[r] = rv[r] /\ at'[r] = "idle"
  <1>0. /\ latest \in Nat /\ rv \in [Realms -> 1 .. latest] /\ target \in [Realms -> Versions]
        /\ at \in [Realms -> {"idle", "refresh", "begin", "commit", "sending"}]
        /\ nver \in [Notifiers -> 0 .. latest]
        /\ HaveRun(r) \subseteq Notifiers /\ Versions \subseteq Nat
    BY VersionsSet DEF Base, WorkerInv, VersionsInv, TypeOK, HaveRun, NotifiersForRealm, NewNotifiers,
                       MainNotifiers
  <1>1. CASE Notify(r)
    <2>1. /\ UNCHANGED <<latest, writer, askVars, noteVars, workVars, wakeVars, histVars>>
          /\ at[r] = "idle" /\ r \in Realms
      BY <1>1 DEF Notify
    <2>2. rv' = rv \/ \E v \in Nat : rv[r] <= v /\ v <= latest /\ rv' = [rv EXCEPT ![r] = v]
      BY <1>0, <1>1 DEF Notify, AdvanceToReady, ProcessAvailableAsync
    <2>3. at' = at \/ \E a \in {"idle", "sending"} : at' = [at EXCEPT ![r] = a]
      BY <1>1 DEF Notify, AdvanceToReady, ProcessAvailableAsync, AfterCalls
    <2>4. /\ rv'[r] \in Nat /\ rv[r] <= rv'[r] /\ rv'[r] <= latest
          /\ \A q \in Realms : q # r => rv'[q] = rv[q]
      BY <1>0, <2>2
    <2>5. at'[r] \in {"idle", "sending"} /\ \A q \in Realms : q # r => at'[q] = at[q]
      BY <1>0, <2>1, <2>3
    <2>. QED
      BY <2>1, <2>4, <2>5
  <1>2. CASE RefreshDone(r)
    <2>1. /\ UNCHANGED <<latest, writer, askVars, noteVars, workVars, wakeVars, histVars>>
          /\ at[r] = "refresh" /\ rv[r] <= target[r] /\ target[r] \in Nat /\ Ready(r, target[r])
      BY <1>0, <1>2 DEF RefreshDone, ThreadInv
    <2>2. \E v \in Nat : rv[r] <= v /\ v <= latest /\ rv' = [rv EXCEPT ![r] = v]
      BY <1>0, <1>2, <2>1 DEF RefreshDone
    <2>3. \E a \in {"idle", "sending"} : at' = [at EXCEPT ![r] = a]
      BY <1>2 DEF RefreshDone, AfterCalls
    <2>4. /\ rv'[r] \in Nat /\ rv[r] <= rv'[r] /\ rv'[r] <= latest
          /\ \A q \in Realms : q # r => rv'[q] = rv[q]
      BY <1>0, <2>2
    <2>5. at'[r] \in {"idle", "sending"} /\ \A q \in Realms : q # r => at'[q] = at[q]
      BY <1>0, <2>3
    <2>. QED
      BY <2>1, <2>4, <2>5
  <1>3. CASE BeginDone(r)
    BY <1>0, <1>3 DEF BeginDone
  <1>. QED
    BY <1>1, <1>2, <1>3 DEF DeliveryStep

LEMMA DeliveryForms ==
  ASSUME Base, ThreadInv, PlaceInv, NEW r \in Realms, DeliveryStep(r), NEW c \in Callbacks
  PROVE  UNCHANGED <<on, have, skipNext, dropped>> /\ DeliveredTo(r, c)
  <1> DEFINE n == NotifierOf[c]
  <1>0. /\ latest \in Nat /\ rv \in [Realms -> 1 .. latest] /\ TypeOK
        /\ \A m \in HaveRun(r) : m \in Notifiers /\ nver[m] \in Nat /\ nver[m] <= latest
        /\ target[r] \in Nat
    BY Typed DEF Base, WorkerInv, VersionsInv, HaveRun, NotifiersForRealm, NewNotifiers, MainNotifiers
  <1>1. /\ \A ns : c \in CallbacksOf(ns) <=> on[c] = "on" /\ n \in ns
        /\ \A m \in HaveRun(r) : n \in HaveRun(r) => nver[n] = nver[m]
    BY HaveRunAtOneVersion DEF CallbacksOf
  <1>2. CASE UNCHANGED callVars /\ (n \notin HaveRun(r) \/ (at[r] = "idle" /\ UNCHANGED rv))
    BY <1>2 DEF DeliveredTo, Untouched, callVars
  <1>3. ASSUME NEW m \in HaveRun(r), Package(HaveRun(r)),
               \/ at[r] = "idle" /\ writer # r /\ nver[m] < rv[r] /\ UNCHANGED rv
               \/ at[r] # "idle" /\ nver[m] < target[r]
        PROVE  UNCHANGED <<on, have, skipNext, dropped>> /\ DeliveredTo(r, c)
    <2>1. /\ UNCHANGED <<on, have, skipNext, dropped>>
          /\ c \in CallbacksOf(HaveRun(r)) => Packaged(c)
          /\ c \notin CallbacksOf(HaveRun(r)) => Untouched(c)
      BY <1>3, PackageOne
    <2>. QED
      BY <1>1, <1>3, <2>1 DEF DeliveredTo
  <1>4. ASSUME NEW m \in HaveRun(r), PackageAndCall(HaveRun(r), nver[m]), rv'[r] = nver[m],
               rv[r] <= nver[m]
        PROVE  UNCHANGED <<on, have, skipNext, dropped>> /\ DeliveredTo(r, c)
    <2>1. c \in CallbacksOf(HaveRun(r)) => nver[m] = nver[n]
      BY <1>1, <1>4
    <2>2. /\ UNCHANGED <<on, have, skipNext, dropped>>
          /\ c \in CallbacksOf(HaveRun(r)) => Called(c)
          /\ c \notin CallbacksOf(HaveRun(r)) => Untouched(c)
      BY <1>0, <1>4, <2>1, CallOne
    <2>. QED
      BY <1>1, <1>4, <2>1, <2>2 DEF DeliveredTo
  <1>5. CASE Notify(r)
    <2>0. at[r] = "idle"
      BY <1>5 DEF Notify
    <2>1. CASE UNCHANGED <<rv, at, callVars>>
      BY <1>2, <2>0, <2>1
    <2>2. CASE ProcessAvailableAsync(r)
      <3> DEFINE ns == {m \in HaveRun(r) : nver[m] = rv[r]}
      <3>1. PackageAndCall(ns, rv[r]) /\ UNCHANGED rv
        BY <2>2 DEF ProcessAvailableAsync
      <3>2. /\ UNCHANGED <<on, have, skipNext, dropped>>
            /\ c \in CallbacksOf(ns) => Called(c)
            /\ c \notin CallbacksOf(ns) => Untouched(c)
        BY <1>0, <1>1, <3>1, CallOne
      <3>. QED
        BY <1>0, <1>1, <2>0, <3>1, <3>2 DEF DeliveredTo
    <2>3. CASE writer # r /\ AdvanceToReady(r)
      <3>1. CASE HaveRun(r) = {} /\ UNCHANGED callVars
        BY <1>2, <3>1
      <3>2. ASSUME NEW m \in HaveRun(r), nver[m] < rv[r], Package(HaveRun(r)), UNCHANGED rv
            PROVE  UNCHANGED <<on, have, skipNext, dropped>> /\ DeliveredTo(r, c)
        BY <1>3, <2>0, <2>3, <3>2
      <3>3. ASSUME NEW m \in HaveRun(r), nver[m] >= rv[r], rv' = [rv EXCEPT ![r] = nver[m]],
                   PackageAndCall(HaveRun(r), nver[m])
            PROVE  UNCHANGED <<on, have, skipNext, dropped>> /\ DeliveredTo(r, c)
        BY <1>0, <1>4, <3>3
      <3>. QED
        BY <2>3, <3>1, <3>2, <3>3 DEF AdvanceToReady
    <2>. QED
      BY <1>5, <2>1, <2>2, <2>3 DEF Notify
  <1>6. CASE RefreshDone(r)
    <2>0. at[r] = "refresh" /\ rv[r] <= target[r]
      BY <1>6 DEF RefreshDone, ThreadInv
    <2>1. CASE HaveRun(r) = {} /\ UNCHANGED callVars
      BY <1>2, <2>1
    <2>2. ASSUME NEW m \in HaveRun(r), nver[m] < target[r], Package(HaveRun(r))
          PROVE  UNCHANGED <<on, have, skipNext, dropped>> /\ DeliveredTo(r, c)
      BY <1>3, <2>0, <2>2
    <2>3. ASSUME NEW m \in HaveRun(r), nver[m] >= target[r], rv' = [rv EXCEPT ![r] = nver[m]],
                 PackageAndCall(HaveRun(r), nver[m])
          PROVE  UNCHANGED <<on, have, skipNext, dropped>> /\ DeliveredTo(r, c)
      BY <1>0, <1>4, <2>0, <2>3
    <2>. QED
      BY <1>6, <2>1, <2>2, <2>3 DEF RefreshDone
  <1>7. CASE BeginDone(r)
    <2>0. at[r] = "begin" /\ rv[r] = latest /\ target[r] = latest /\ UNCHANGED rv
      BY <1>7 DEF BeginDone, ThreadInv
    <2>1. CASE HaveRun(r) = {} /\ UNCHANGED callVars
      BY <1>2, <2>1
    <2>2. ASSUME NEW m \in HaveRun(r), nver[m] < target[r], Package(HaveRun(r))
          PROVE  UNCHANGED <<on, have, skipNext, dropped>> /\ DeliveredTo(r, c)
      BY <1>3, <2>0, <2>2
    <2>3. ASSUME NEW m \in HaveRun(r), nver[m] >= target[r], PackageAndCall(HaveRun(r), rv[r])
          PROVE  UNCHANGED <<on, have, skipNext, dropped>> /\ DeliveredTo(r, c)
      <3>1. nver[m] = rv[r] /\ rv'[r] = nver[m]
        BY <1>0, <2>0, <2>3
      <3>. QED
        BY <1>0, <1>4, <2>3, <3>1
    <2>. QED
      BY <1>7, <2>1, <2>2, <2>3 DEF BeginDone
  <1>. QED
    BY <1>5, <1>6, <1>7 DEF DeliveryStep

-----------------------------------------------------------------------------
(***************************************************************************)
(* What is accumulated and told.  A commit that is accumulated was not     *)
(* told yet, what a run finds is neither, and nothing is told that the     *)
(* Realm of the callback does not show.                                    *)
(***************************************************************************)

ToldInv ==
  \A c \in Callbacks :
    /\ \A v \in acc[c] : v <= nver[NotifierOf[c]] /\ v <= ran[NotifierOf[c]] /\ v \notin told[c]
    /\ \A v \in told[c] : v <= ran[NotifierOf[c]] /\ v <= shown[c]
    /\ \A v \in dropped[c] : v <= nver[NotifierOf[c]]
    /\ \A v \in found[NotifierOf[c]] : v \notin acc[c] /\ v \notin told[c]
    /\ shown[c] <= rv[RealmOf[NotifierOf[c]]]

LEMMA ToldOfRun ==
  ASSUME Base, FoundInv, ToldInv, RunStep
  PROVE  ToldInv'
  <1> SUFFICES ASSUME NEW c \in Callbacks
               PROVE  /\ \A v \in acc[c] : v <= ran'[NotifierOf[c]]
                      /\ \A v \in told[c] : v <= ran'[NotifierOf[c]]
                      /\ \A v \in found'[NotifierOf[c]] : v \notin acc[c] /\ v \notin told[c]
    BY RunStepFacts DEF ToldInv, callVars, realmVars
  <1> DEFINE n == NotifierOf[c]
  <1>0. /\ n \in Notifiers /\ ran[n] \in Nat /\ nver[n] \in Nat /\ acc[c] \subseteq Nat
        /\ told[c] \subseteq Nat
    BY Typed DEF Base
  <1>1. CASE n \in Running
    <2>1. worker.at # "idle"
      BY RunStepFacts
    <2>2. RunVersion \in Nat
      BY <2>1, RunningFacts
    <2>3. /\ ran[n] <= nver[n] /\ nver[n] <= RunVersion
          /\ ran'[n] \in {ran[n], RunVersion}
          /\ \A v \in found'[n] : ran[n] < v
      BY <1>1, RunNotifier
    <2>. QED
      BY <1>0, <2>2, <2>3 DEF ToldInv
  <1>2. CASE n \notin Running
    BY <1>0, <1>2, RunOthers DEF ToldInv
  <1>. QED
    BY <1>1, <1>2

LEMMA ToldOfHandover ==
  ASSUME Base, FoundInv, ToldInv, HandoverStep
  PROVE  ToldInv'
  <1> SUFFICES ASSUME NEW c \in Callbacks
               PROVE  /\ \A v \in acc'[c] : /\ v <= nver'[NotifierOf[c]] /\ v <= ran'[NotifierOf[c]]
                                            /\ v \notin told'[c]
                      /\ \A v \in told'[c] : v <= ran'[NotifierOf[c]] /\ v <= shown'[c]
                      /\ \A v \in dropped'[c] : v <= nver'[NotifierOf[c]]
                      /\ \A v \in found'[NotifierOf[c]] : v \notin acc'[c] /\ v \notin told'[c]
                      /\ shown'[c] <= rv'[RealmOf[NotifierOf[c]]]
    BY DEF ToldInv
  <1> DEFINE n == NotifierOf[c]
  <1>0. /\ n \in Notifiers /\ ran[n] \in Nat /\ nver[n] \in Nat /\ acc[c] \subseteq Nat
        /\ told[c] \subseteq Nat /\ dropped[c] \subseteq Nat /\ found[n] \subseteq Nat
    BY Typed DEF Base
  <1>1. worker.at \in {"skipped", "ran"} /\ worker.at # "idle" /\ UNCHANGED rv
    BY HandoverStepFacts
  <1>2. /\ ran'[n] = ran[n] /\ UNCHANGED <<told[c], shown[c]>>
        /\ n \in Running => nver'[n] = RunVersion /\ found'[n] = {}
        /\ n \notin Running => nver'[n] = nver[n] /\ found'[n] = found[n]
        /\ acc'[c] \subseteq acc[c] \cup found[n] /\ dropped'[c] \subseteq dropped[c] \cup found[n]
        /\ n \notin Running => UNCHANGED <<acc[c], dropped[c]>>
    BY <1>0, HandoverNotifiers, HandoverCallbacks
  <1>3. CASE n \in Running
    <2>1. HandingOver(n) /\ RunVersion \in Nat /\ nver[n] <= RunVersion
      BY <1>1, <1>3, HandingOverIsRunning, RunningFacts
    <2>2. ran[n] <= RunVersion /\ \A v \in found[n] : v <= ran[n]
      BY <1>0, <2>1 DEF FoundInv
    <2>. QED
      BY <1>0, <1>1, <1>2, <1>3, <2>1, <2>2 DEF ToldInv
  <1>4. CASE n \notin Running
    BY <1>0, <1>1, <1>2, <1>4 DEF ToldInv
  <1>. QED
    BY <1>3, <1>4

LEMMA ToldOfDelivery ==
  ASSUME Base, ThreadInv, PlaceInv, FoundInv, ToldInv, NEW r \in Realms, DeliveryStep(r)
  PROVE  ToldInv'
  <1> SUFFICES ASSUME NEW c \in Callbacks
               PROVE  /\ \A v \in acc'[c] : /\ v <= nver'[NotifierOf[c]] /\ v <= ran'[NotifierOf[c]]
                                            /\ v \notin told'[c]
                      /\ \A v \in told'[c] : v <= ran'[NotifierOf[c]] /\ v <= shown'[c]
                      /\ \A v \in dropped'[c] : v <= nver'[NotifierOf[c]]
                      /\ \A v \in found'[NotifierOf[c]] : v \notin acc'[c] /\ v \notin told'[c]
                      /\ shown'[c] <= rv'[RealmOf[NotifierOf[c]]]
    BY DEF ToldInv
  <1> DEFINE n == NotifierOf[c]
  <1>0. /\ n \in Notifiers /\ RealmOf[n] \in Realms /\ ran[n] \in Nat /\ nver[n] \in Nat
        /\ acc[c] \subseteq Nat /\ told[c] \subseteq Nat /\ shown[c] \in Nat
        /\ \A q \in Realms : rv[q] \in Nat
    BY Typed DEF Base
  <1>1. /\ UNCHANGED <<nver, ran, found, dropped>> /\ rv[r] <= rv'[r]
        /\ \A q \in Realms : q # r => rv'[q] = rv[q]
        /\ DeliveredTo(r, c)
    BY DeliveryFrame, DeliveryForms DEF noteVars
  <1>2. n \in HaveRun(r) => RealmOf[n] = r
    BY DEF HaveRun, NotifiersForRealm
  <1>3. rv'[r] \in Nat
    BY DeliveryFrame
  <1>4. CASE Untouched(c)
    BY <1>0, <1>1, <1>3, <1>4 DEF Untouched, ToldInv
  <1>5. CASE Packaged(c)
    BY <1>0, <1>1, <1>3, <1>5 DEF Packaged, ToldInv
  <1>6. CASE Called(c) /\ n \in HaveRun(r) /\ rv'[r] = nver[n] /\ rv[r] <= nver[n]
    BY <1>0, <1>1, <1>2, <1>6 DEF Called, ToldInv
  <1>. QED
    BY <1>1, <1>4, <1>5, <1>6 DEF DeliveredTo

\* The other steps of a thread: they leave the notifiers and what the callbacks
\* have got alone, and no Realm goes back.
QuietStep(r) ==
  \/ SendingDone(r) \/ SetAutoRefresh(r) \/ Refresh(r) \/ BeginTransaction(r)
  \/ \E cs \in SUBSET Callbacks : SuppressNextNotification(r, cs)
  \/ CommitTransaction(r) \/ CancelTransaction(r)

gotVars == <<on, have, initial, acc, deliver, told, dropped, since, shown>>

LEMMA QuietStepFrame ==
  ASSUME Base, NEW r \in Realms, QuietStep(r)
  PROVE  /\ UNCHANGED <<noteVars, gotVars, pin, worker, looked, late>>
         /\ \A q \in Realms : /\ rv'[q] \in Nat /\ rv[q] <= rv'[q]
                              /\ q # r => UNCHANGED <<rv[q], at[q]>>
  <1>0. latest \in Nat /\ rv \in [Realms -> 1 .. latest]
    BY DEF Base, WorkerInv, VersionsInv
  <1>1. UNCHANGED <<noteVars, gotVars, pin, worker, looked, late>>
    BY DEF QuietStep, SendingDone, SetAutoRefresh, Refresh, BeginTransaction,
           SuppressNextNotification, CommitTransaction, CancelTransaction, gotVars, callVars, workVars, histVars
  <1>2. rv' = rv \/ rv' = [rv EXCEPT ![r] = latest] \/ rv' = [rv EXCEPT ![r] = latest + 1]
    BY DEF QuietStep, SendingDone, SetAutoRefresh, Refresh, BeginTransaction,
           SuppressNextNotification, CommitTransaction, CancelTransaction
  <1>3. at' = at \/ \E a : at' = [at EXCEPT ![r] = a]
    BY DEF QuietStep, SendingDone, SetAutoRefresh, Refresh, BeginTransaction,
           SuppressNextNotification, CommitTransaction, CancelTransaction
  <1>4. \A q \in Realms : q # r => UNCHANGED at[q]
    <2>1. at \in [Realms -> {"idle", "refresh", "begin", "commit", "sending"}]
      BY DEF Base, TypeOK
    <2>. QED
      BY <1>3, <2>1
  <1>5. \A q \in Realms : rv'[q] \in Nat /\ rv[q] <= rv'[q] /\ (q # r => UNCHANGED rv[q])
    BY <1>0, <1>2
  <1>. QED
    BY <1>1, <1>4, <1>5

LEMMA RealmStepForms ==
  ASSUME NEW r, RealmStep(r)
  PROVE  DeliveryStep(r) \/ QuietStep(r)
  BY DEF RealmStep, DeliveryStep, QuietStep

\* A removed callback has nothing, the others are as they were.
LEMMA RemovedFrame ==
  ASSUME TypeOK, NEW d \in Callbacks, RemoveCallback(d), NEW c \in Callbacks
  PROVE  /\ UNCHANGED <<latest, realmVars, noteVars, workVars, wakeVars, histVars>>
         /\ c = d => /\ on'[c] = "off" /\ acc'[c] = {} /\ told'[c] = {} /\ dropped'[c] = {}
                     /\ shown'[c] = 0 /\ initial'[c] = FALSE /\ skipNext'[c] = FALSE
         /\ c # d => /\ UNCHANGED <<on[c], skipNext[c], initial[c], acc[c], deliver[c], told[c],
                                    dropped[c], since[c], shown[c], quiet[c]>>
                     /\ c \in asked' <=> c \in asked
  BY DEF RemoveCallback, TypeOK

\* A step that tells a callback nothing.
LEMMA ToldFrame ==
  ASSUME Base, ToldInv, UNCHANGED <<ran, found>>,
         \A n \in Notifiers : nver'[n] \in Nat /\ nver[n] <= nver'[n],
         \A q \in Realms : rv'[q] \in Nat /\ rv[q] <= rv'[q],
         \A c \in Callbacks :
           \/ UNCHANGED <<acc[c], told[c], dropped[c], shown[c]>>
           \/ acc'[c] = {} /\ told'[c] = {} /\ dropped'[c] = {} /\ shown'[c] = 0
  PROVE  ToldInv'
  <1> SUFFICES ASSUME NEW c \in Callbacks
               PROVE  /\ \A v \in acc'[c] : /\ v <= nver'[NotifierOf[c]] /\ v <= ran'[NotifierOf[c]]
                                            /\ v \notin told'[c]
                      /\ \A v \in told'[c] : v <= ran'[NotifierOf[c]] /\ v <= shown'[c]
                      /\ \A v \in dropped'[c] : v <= nver'[NotifierOf[c]]
                      /\ \A v \in found'[NotifierOf[c]] : v \notin acc'[c] /\ v \notin told'[c]
                      /\ shown'[c] <= rv'[RealmOf[NotifierOf[c]]]
    BY DEF ToldInv
  <1>0. /\ NotifierOf[c] \in Notifiers /\ RealmOf[NotifierOf[c]] \in Realms
        /\ nver[NotifierOf[c]] \in Nat /\ rv[RealmOf[NotifierOf[c]]] \in Nat
        /\ acc[c] \subseteq Nat /\ dropped[c] \subseteq Nat /\ shown[c] \in Nat
    BY Typed DEF Base
  <1>1. CASE UNCHANGED <<acc[c], told[c], dropped[c], shown[c]>>
    BY <1>0, <1>1 DEF ToldInv
  <1>2. CASE acc'[c] = {} /\ told'[c] = {} /\ dropped'[c] = {} /\ shown'[c] = 0
    BY <1>0, <1>2 DEF ToldInv
  <1>. QED
    BY <1>1, <1>2

\* The version of a notifier that is being registered was none.
LEMMA RegistrationRaises ==
  ASSUME Base, PlaceInv, NEW n \in Notifiers,
         \/ PrepareAsync(n) \/ Unregister(n)
         \/ \E c \in Callbacks : NotifierOf[c] = n /\ AddCallback(c),
         NEW m \in Notifiers
  PROVE  nver'[m] \in Nat /\ nver[m] <= nver'[m] /\ (place[m] # "none" => nver'[m] = nver[m])
  <1>0. nver \in [Notifiers -> Versions] /\ nver[m] \in Nat /\ rv[RealmOf[n]] \in Nat
    BY Typed, NotifierAssumptions DEF Base, TypeOK
  <1>1. (place[n] = "none" /\ nver' = [nver EXCEPT ![n] = rv[RealmOf[n]]]) \/ UNCHANGED nver
    BY RegistrationFacts DEF RegisterNotifier
  <1>2. place[n] = "none" => nver[n] = 0
    BY DEF PlaceInv
  <1>. QED
    BY <1>0, <1>1, <1>2

LEMMA NextTold ==
  Base /\ ThreadInv /\ PlaceInv /\ FoundInv /\ ToldInv /\ [Next]_vars => ToldInv'
  <1> SUFFICES ASSUME Base, ThreadInv, PlaceInv, FoundInv, ToldInv, [Next]_vars PROVE ToldInv'
    OBVIOUS
  <1>0. /\ \A n \in Notifiers : nver[n] \in Nat /\ nver[n] <= nver[n]
        /\ \A q \in Realms : rv[q] \in Nat /\ rv[q] <= rv[q]
    BY Typed DEF Base
  <1>1. ASSUME NEW r \in Realms, RealmStep(r)
        PROVE  ToldInv'
    <2>1. CASE QuietStep(r)
      BY <1>0, <2>1, QuietStepFrame, ToldFrame DEF noteVars, gotVars
    <2>. QED
      BY <1>1, <2>1, RealmStepForms, ToldOfDelivery
  <1>2. CASE RunStep \/ HandoverStep
    BY <1>2, ToldOfRun, ToldOfHandover
  <1>3. CASE OnChange \/ OtherCommit \/ Unseen
    <2>1. UNCHANGED <<ran, found, nver, rv, acc, told, dropped, shown>>
      BY <1>3 DEF OnChange, OtherCommit, Unseen, noteVars, callVars, realmVars
    <2>. QED
      BY <2>1 DEF ToldInv
  <1>4. ASSUME NEW n \in Notifiers,
               \/ PrepareAsync(n) \/ Unregister(n)
               \/ \E c \in Callbacks : NotifierOf[c] = n /\ AddCallback(c)
        PROVE  ToldInv'
    <2>1. UNCHANGED <<acc, told, dropped, shown>>
      BY <1>4 DEF PrepareAsync, Unregister, AddCallback, callVars
    <2>2. UNCHANGED <<rv, ran, found>>
      BY <1>4, RegistrationFacts
    <2>. QED
      BY <1>0, <1>4, <2>1, <2>2, RegistrationRaises, ToldFrame
  <1>5. ASSUME NEW d \in Callbacks, RemoveCallback(d)
        PROVE  ToldInv'
    <2>1. UNCHANGED <<rv, nver, ran, found>>
      BY <1>5 DEF RemoveCallback, realmVars, noteVars
    <2>2. \A c \in Callbacks :
           \/ UNCHANGED <<acc[c], told[c], dropped[c], shown[c]>>
           \/ acc'[c] = {} /\ told'[c] = {} /\ dropped'[c] = {} /\ shown'[c] = 0
      BY <1>5, RemovedFrame DEF Base
    <2>. QED
      BY <1>0, <2>1, <2>2, ToldFrame
  <1>. QED
    BY <1>1, <1>2, <1>3, <1>4, <1>5, UnseenSteps, NotifierAssumptions
    DEF Next, Work, RunStep, HandoverStep

CoreInv == Base /\ ThreadInv /\ PlaceInv /\ FoundInv /\ ToldInv

LEMMA InitCore == Init => CoreInv
  <1> SUFFICES ASSUME Init PROVE CoreInv
    OBVIOUS
  <1>0. \A n \in Notifiers : ~HandingOver(n)
    BY DEF Init, Idle, HandingOver
  <1>1. Base
    BY InitType, InitWorker DEF Base
  <1>2. ThreadInv
    BY NotifierAssumptions DEF Init, ThreadInv
  <1>3. PlaceInv
    BY DEF Init, PlaceInv, MainNotifiers, Idle
  <1>4. FoundInv
    BY <1>0 DEF Init, FoundInv
  <1>5. ToldInv
    BY NotifierAssumptions DEF Init, ToldInv
  <1>. QED
    BY <1>1, <1>2, <1>3, <1>4, <1>5 DEF CoreInv

LEMMA NextCore == CoreInv /\ [Next]_vars => CoreInv'
  BY NextBase, NextThread, NextPlace, NextFound, NextTold DEF CoreInv

\* Realm, add_changes, package_for_delivery and call_callbacks: no commit is told
\* to a callback twice, and none before the thread shows it, however threads,
\* worker and callbacks interleave.
THEOREM NothingIsToldTwiceOrEarlyHolds == Spec => []NothingIsToldTwiceOrEarly
  <1>1. CoreInv => NothingIsToldTwiceOrEarly
    BY DEF CoreInv, ToldInv, NothingIsToldTwiceOrEarly
  <1>. QED
    BY <1>1, InitCore, NextCore, PTL DEF Spec

-----------------------------------------------------------------------------
(***************************************************************************)
(* The life of a callback.  While it is registered its notifier lives and  *)
(* looks for changes (m_have_callbacks), and it is called only once the    *)
(* notifier has run.                                                       *)
(***************************************************************************)

CallbackOK(c) ==
  /\ on[c] = "on" => alive[NotifierOf[c]]
  /\ on[c] = "on" /\ ~nested => have[NotifierOf[c]]
  /\ initial[c] => on[c] = "on" /\ hasRun[NotifierOf[c]]
  /\ skipNext[c] => on[c] = "on"

CallbackInv == \A c \in Callbacks : CallbackOK(c)

LEMMA NextForms ==
  ASSUME [Next]_vars
  PROVE  \/ OnChange \/ RunStep \/ HandoverStep
         \/ \E r \in Realms : DeliveryStep(r) \/ QuietStep(r)
         \/ \E n \in Notifiers : PrepareAsync(n) \/ Unregister(n)
         \/ \E c \in Callbacks : AddCallback(c)
         \/ \E c \in Callbacks : RemoveCallback(c)
         \/ OtherCommit \/ Unseen
  BY RealmStepForms, UnseenSteps DEF Next, Work, RunStep, HandoverStep

\* What has disturbed a callback is not forgotten.
LEMMA StaysUndisturbed ==
  ASSUME Base, [Next]_vars, NEW c \in Callbacks
  PROVE  (~nested' => ~nested) /\ (Undisturbed(c)' => Undisturbed(c))
  <1>0. nested \in BOOLEAN
    BY DEF Base, TypeOK
  <1>1. UNCHANGED <<nested, late>> \/ nested' \/ (UNCHANGED nested /\ late \subseteq late')
    <2>1. CASE OnChange \/ OtherCommit \/ Unseen \/ (\E d \in Callbacks : RemoveCallback(d))
      BY <2>1 DEF OnChange, OtherCommit, Unseen, RemoveCallback, histVars
    <2>2. CASE RunStep \/ HandoverStep
      BY <2>2, RunStepFacts, HandoverStepFacts DEF PrepareHandover
    <2>3. ASSUME NEW r \in Realms, DeliveryStep(r) \/ QuietStep(r)
          PROVE  UNCHANGED <<nested, late>> \/ nested' \/ (UNCHANGED nested /\ late \subseteq late')
      BY <1>0, <2>3 DEF DeliveryStep, QuietStep, Notify, RefreshDone, BeginDone, SendingDone,
         SetAutoRefresh, Refresh, BeginTransaction, SuppressNextNotification, CommitTransaction, CancelTransaction, histVars
    <2>4. ASSUME NEW n \in Notifiers, PrepareAsync(n) \/ Unregister(n)
          PROVE  UNCHANGED <<nested, late>>
      BY <2>4 DEF PrepareAsync, Unregister, histVars
    <2>5. ASSUME NEW d \in Callbacks, AddCallback(d)
          PROVE  nested' \/ (UNCHANGED nested /\ late \subseteq late')
      BY <1>0, <2>5 DEF AddCallback
    <2>. QED
      BY <2>1, <2>2, <2>3, <2>4, <2>5, NextForms
  <1>. QED
    BY <1>0, <1>1 DEF Undisturbed

LEMMA AddFacts ==
  ASSUME Base, NEW d \in Callbacks, AddCallback(d)
  PROVE  /\ UNCHANGED <<latest, realmVars, askVars, noteVars, skipNext, initial, acc, deliver, told,
                        dropped, since, shown, workVars, looked>>
         /\ on[d] = "unused" /\ on'[d] = "on" /\ writer # RealmOf[NotifierOf[d]]
         /\ \A c \in Callbacks : c # d => on'[c] = on[c]
         /\ alive[NotifierOf[d]]
         /\ \A n \in Notifiers : have[n] => have'[n]
         /\ ~nested' => have'[NotifierOf[d]]
         /\ HandingOver(NotifierOf[d]) /\ hasRun[NotifierOf[d]] =>
              NotifierOf[d] \in looked \/ d \in late'
  <1>0. /\ NotifierOf[d] \in Notifiers /\ on \in [Callbacks -> {"unused", "on", "off"}]
        /\ have \in [Notifiers -> BOOLEAN] /\ nested \in BOOLEAN
    BY Typed DEF Base, TypeOK
  <1>1. /\ UNCHANGED <<latest, realmVars, askVars, noteVars, skipNext, initial, acc, deliver, told,
                       dropped, since, shown, workVars, looked>>
        /\ on[d] = "unused" /\ on' = [on EXCEPT ![d] = "on"] /\ writer # RealmOf[NotifierOf[d]]
        /\ alive[NotifierOf[d]]
        /\ HandingOver(NotifierOf[d]) /\ hasRun[NotifierOf[d]] =>
             NotifierOf[d] \in looked \/ d \in late'
    BY DEF AddCallback, MayAdd
  <1>2. /\ have' = [have EXCEPT ![NotifierOf[d]] = @ \/ d \in adding]
        /\ nested' = (nested \/ at[RealmOf[NotifierOf[d]]] = "sending")
        /\ d \in adding \/ at[RealmOf[NotifierOf[d]]] = "sending"
    BY DEF AddCallback, MayBeCalling
  <1>3. /\ \A n \in Notifiers : have[n] => have'[n]
        /\ ~nested' => have'[NotifierOf[d]]
    BY <1>0, <1>2
  <1>. QED
    BY <1>0, <1>1, <1>3

LEMMA NextCallback == CoreInv /\ CallbackInv /\ [Next]_vars => CallbackInv'
  <1> SUFFICES ASSUME CoreInv, CallbackInv, [Next]_vars, NEW c \in Callbacks PROVE CallbackOK(c)'
    BY DEF CallbackInv
  <1> DEFINE n == NotifierOf[c]
  <1>0. /\ Base /\ TypeOK /\ ThreadInv /\ PlaceInv /\ FoundInv /\ CallbackOK(c) /\ n \in Notifiers
        /\ initial[c] \in BOOLEAN /\ skipNext[c] \in BOOLEAN
    BY Typed DEF CoreInv, Base, CallbackInv, TypeOK
  <1>1. ~nested' => ~nested
    BY <1>0, StaysUndisturbed
  <1>2. CASE OnChange \/ OtherCommit \/ Unseen
    <2>1. UNCHANGED <<on, alive, have, initial, hasRun, skipNext>>
      BY <1>2 DEF OnChange, OtherCommit, Unseen, noteVars, callVars
    <2>. QED
      BY <1>0, <1>1, <2>1 DEF CallbackOK
  <1>3. CASE RunStep
    <2>1. UNCHANGED <<on, alive, have, initial, hasRun, skipNext>>
      BY <1>0, <1>3, RunStepFacts DEF callVars
    <2>. QED
      BY <1>0, <1>1, <2>1 DEF CallbackOK
  <1>4. CASE HandoverStep
    <2>1. /\ UNCHANGED <<on[c], initial[c], have, alive>> /\ (skipNext'[c] => skipNext[c])
          /\ hasRun[n] => hasRun'[n]
      BY <1>0, <1>4, HandoverStepFacts, HandoverNotifiers, HandoverCallbacks
    <2>. QED
      BY <1>0, <1>1, <2>1 DEF CallbackOK
  <1>5. ASSUME NEW r \in Realms, DeliveryStep(r)
        PROVE  CallbackOK(c)'
    <2>1. UNCHANGED <<on, have, skipNext, alive, hasRun>> /\ DeliveredTo(r, c)
      BY <1>0, <1>5, DeliveryForms, DeliveryFrame DEF noteVars
    <2>2. initial'[c] => initial[c] \/ (on[c] = "on" /\ hasRun[n])
      BY <2>1 DEF DeliveredTo, Untouched, Packaged, HaveRun
    <2>. QED
      BY <1>0, <1>1, <2>1, <2>2 DEF CallbackOK
  <1>6. ASSUME NEW r \in Realms, QuietStep(r)
        PROVE  CallbackOK(c)'
    <2>1. UNCHANGED <<on, have, initial, alive, hasRun>>
      BY <1>0, <1>6, QuietStepFrame DEF noteVars, gotVars
    <2>2. skipNext'[c] => skipNext[c] \/ on[c] = "on"
      BY <1>6 DEF QuietStep, SendingDone, SetAutoRefresh, Refresh, BeginTransaction,
         SuppressNextNotification, CommitTransaction, CancelTransaction, callVars
    <2>. QED
      BY <1>0, <1>1, <2>1, <2>2 DEF CallbackOK
  <1>7. ASSUME NEW m \in Notifiers, PrepareAsync(m) \/ Unregister(m)
        PROVE  CallbackOK(c)'
    <2>1. UNCHANGED <<on, have, initial, hasRun, skipNext, nested>>
      BY <1>7 DEF PrepareAsync, Unregister, callVars, histVars
    <2>2. on[c] = "on" /\ alive[n] => alive'[n]
      <3>1. alive \in [Notifiers -> BOOLEAN]
        BY <1>0 DEF TypeOK
      <3>2. CASE PrepareAsync(m)
        BY <1>0, <3>1, <3>2 DEF PrepareAsync, RegisterNotifier
      <3>3. CASE Unregister(m)
        <4>1. on[c] = "on" => n # m
          BY <3>3 DEF Unregister, CallbacksBut
        <4>. QED
          BY <1>0, <3>1, <3>3, <4>1 DEF Unregister
      <3>. QED
        BY <1>7, <3>2, <3>3
    <2>. QED
      BY <1>0, <2>1, <2>2 DEF CallbackOK
  <1>8. ASSUME NEW d \in Callbacks, AddCallback(d)
        PROVE  CallbackOK(c)'
    <2>1. UNCHANGED <<initial, alive, hasRun, skipNext>> /\ (have[n] => have'[n])
      BY <1>0, <1>8, AddFacts DEF noteVars
    <2>2. CASE c = d
      BY <1>0, <1>8, <2>1, <2>2, AddFacts DEF CallbackOK
    <2>3. CASE c # d
      <3>1. on'[c] = on[c]
        BY <1>0, <1>8, <2>3, AddFacts
      <3>. QED
        BY <1>0, <1>1, <2>1, <3>1 DEF CallbackOK
    <2>. QED
      BY <2>2, <2>3
  <1>9. ASSUME NEW d \in Callbacks, RemoveCallback(d)
        PROVE  CallbackOK(c)'
    <2>1. CASE c = d
      BY <1>0, <1>9, <2>1, RemovedFrame DEF CallbackOK
    <2>2. CASE c # d
      <3>1. UNCHANGED <<on[c], initial[c], skipNext[c], alive, hasRun, nested>>
        BY <1>0, <1>9, <2>2, RemovedFrame DEF noteVars, histVars
      <3>2. on[c] = "on" /\ have[n] => have'[n]
        <4>1. /\ have' = [have EXCEPT ![NotifierOf[d]] = CallbacksBut(NotifierOf[d], {d}) # {}]
              /\ have \in [Notifiers -> BOOLEAN]
          BY <1>0, <1>9 DEF RemoveCallback, TypeOK
        <4>2. on[c] = "on" /\ n = NotifierOf[d] => c \in CallbacksBut(NotifierOf[d], {d})
          BY <2>2 DEF CallbacksBut
        <4>. QED
          BY <1>0, <4>1, <4>2
      <3>. QED
        BY <1>0, <3>1, <3>2 DEF CallbackOK
    <2>. QED
      BY <2>1, <2>2
  <1>. QED
    BY <1>2, <1>3, <1>4, <1>5, <1>6, <1>7, <1>8, <1>9, NextForms

-----------------------------------------------------------------------------
(***************************************************************************)
(* The notifier of an undisturbed callback has looked for what it hands    *)
(* over, unless it runs for the first time.                                *)
(***************************************************************************)

LateOK(c) ==
  on[c] = "on" /\ Undisturbed(c) /\ HandingOver(NotifierOf[c]) /\ hasRun[NotifierOf[c]] =>
    NotifierOf[c] \in looked

LateInv == \A c \in Callbacks : LateOK(c)

\* No step but those of the worker begins or ends a handover.
LEMMA NotWorking ==
  ASSUME Base, [Next]_vars, ~OnChange, ~RunStep, ~HandoverStep
  PROVE  UNCHANGED <<worker, looked, hasRun, ran, found, Running, RunVersion>>
         /\ \A n \in Notifiers : HandingOver(n)' = HandingOver(n)
  <1>1. UNCHANGED <<worker, looked, hasRun, ran, found>>
    <2>1. CASE OtherCommit \/ Unseen \/ (\E d \in Callbacks : RemoveCallback(d))
      BY <2>1, PlaceFrame DEF placeVars
    <2>2. ASSUME NEW r \in Realms, RealmStep(r)
          PROVE  UNCHANGED <<worker, looked, hasRun, ran, found>>
      BY <2>2, PlaceFrame DEF placeVars
    <2>3. ASSUME NEW n \in Notifiers, PrepareAsync(n) \/ Unregister(n)
          PROVE  UNCHANGED <<worker, looked, hasRun, ran, found>>
      BY <2>3, RegistrationFacts
    <2>4. ASSUME NEW d \in Callbacks, AddCallback(d)
          PROVE  UNCHANGED <<worker, looked, hasRun, ran, found>>
      BY <2>4 DEF AddCallback, noteVars, workVars
    <2>. QED
      BY <2>1, <2>2, <2>3, <2>4, UnseenSteps DEF Next, Work, RunStep, HandoverStep
  <1>. QED
    BY <1>1 DEF HandingOver, Running, RunVersion

LEMMA OnChangeFacts ==
  ASSUME OnChange
  PROVE  /\ worker.at = "idle" /\ (UNCHANGED worker \/ worker'.at \in {"skip", "rest"})
         /\ \A n \in Notifiers : ~HandingOver(n) /\ ~HandingOver(n)'
         /\ UNCHANGED <<latest, writer, rv, at, target, askVars, alive, nver, hasRun, ran, found,
                        callVars, histVars>>
  <1>1. worker.at = "idle" /\ (UNCHANGED worker \/ worker'.at \in {"skip", "rest"})
    BY DEF OnChange, RunNotifiers
  <1>2. UNCHANGED <<latest, writer, rv, at, target, askVars, alive, nver, hasRun, ran, found,
                    callVars, histVars>>
    BY DEF OnChange
  <1>. QED
    BY <1>1, <1>2 DEF HandingOver

\* Callbacks get registered by AddCallback only.
LEMMA WasOn ==
  ASSUME Base, ThreadInv, PlaceInv, [Next]_vars, NEW c \in Callbacks, ~AddCallback(c), on'[c] = "on"
  PROVE  on[c] = "on"
  <1>1. CASE OnChange \/ OtherCommit \/ Unseen
    BY <1>1 DEF OnChange, OtherCommit, Unseen, callVars
  <1>2. CASE RunStep \/ HandoverStep
    BY <1>2, RunStepFacts, HandoverCallbacks DEF callVars
  <1>3. ASSUME NEW r \in Realms, DeliveryStep(r) \/ QuietStep(r)
        PROVE  on[c] = "on"
    BY <1>3, DeliveryForms, QuietStepFrame DEF gotVars
  <1>4. ASSUME NEW n \in Notifiers, PrepareAsync(n) \/ Unregister(n)
        PROVE  on[c] = "on"
    BY <1>4 DEF PrepareAsync, Unregister, callVars
  <1>5. ASSUME NEW d \in Callbacks, AddCallback(d)
        PROVE  on[c] = "on"
    BY <1>5, AddFacts
  <1>6. ASSUME NEW d \in Callbacks, RemoveCallback(d)
        PROVE  on[c] = "on"
    BY <1>6, RemovedFrame DEF Base
  <1>. QED
    BY <1>1, <1>2, <1>3, <1>4, <1>5, <1>6, NextForms

LEMMA NextLate == CoreInv /\ CallbackInv /\ LateInv /\ [Next]_vars => LateInv'
  <1> SUFFICES ASSUME CoreInv, CallbackInv, LateInv, [Next]_vars, NEW c \in Callbacks,
                      on'[c] = "on", Undisturbed(c)', HandingOver(NotifierOf[c])',
                      hasRun'[NotifierOf[c]]
               PROVE  NotifierOf[c] \in looked'
    BY DEF LateInv, LateOK
  <1> DEFINE n == NotifierOf[c]
  <1>0. /\ Base /\ TypeOK /\ ThreadInv /\ PlaceInv /\ FoundInv /\ CallbackOK(c) /\ LateOK(c)
        /\ n \in Notifiers /\ Undisturbed(c) /\ ~nested
    BY Typed, StaysUndisturbed DEF CoreInv, Base, CallbackInv, LateInv, Undisturbed
  <1>1. CASE OnChange
    BY <1>0, <1>1, OnChangeFacts
  <1>2. CASE RunStep
    <2>1. n \in Running
      <3>1. n \in Running'
        BY HandingOverIsRunning DEF HandingOver, Running
      <3>. QED
        BY <1>0, <1>2, <3>1, RunStepFacts
    <2>2. UNCHANGED <<on, hasRun, nested>>
      BY <1>0, <1>2, RunStepFacts DEF callVars
    <2>. QED
      BY <1>0, <1>2, <2>1, <2>2, RunNotifier DEF CallbackOK, Undisturbed
  <1>3. CASE HandoverStep
    <2>1. worker'.at \in {"rest", "idle"}
      BY <1>0, <1>3, HandoverStepFacts
    <2>. QED
      BY <2>1 DEF HandingOver
  <1>4. CASE AddCallback(c)
    BY <1>0, <1>4, AddFacts DEF Undisturbed, HandingOver, noteVars, workVars
  <1>5. CASE ~OnChange /\ ~RunStep /\ ~HandoverStep /\ ~AddCallback(c)
    BY <1>0, <1>5, NotWorking, WasOn DEF LateOK
  <1>. QED
    BY <1>1, <1>2, <1>3, <1>4, <1>5

-----------------------------------------------------------------------------
(***************************************************************************)
(* Writing.  Once a write transaction has begun outside callbacks, the     *)
(* callbacks of its Realm have been called at the version it is at, and    *)
(* their notifiers stay at it.                                             *)
(***************************************************************************)

WriteOK(c) ==
  LET n == NotifierOf[c]
      r == RealmOf[n]
  IN on[c] = "on" /\ ~nested /\ writer = r /\ at[r] # "begin" => initial[c] /\ nver[n] = latest

WriteInv == \A c \in Callbacks : WriteOK(c)

\* The notifier of a registered callback is one that the thread waits for.
LEMMA OnIsForRealm ==
  ASSUME PlaceInv, NEW c \in Callbacks, CallbackOK(c), on[c] = "on"
  PROVE  NotifierOf[c] \in NotifiersForRealm(RealmOf[NotifierOf[c]])
  BY NotifierAssumptions DEF PlaceInv, CallbackOK, NotifiersForRealm, NewNotifiers, MainNotifiers

\* So when a wait is over, a callback is called unless it is disturbed.
LEMMA CalledAfterWait ==
  ASSUME Base, ThreadInv, PlaceInv, NEW c \in Callbacks, CallbackOK(c), on[c] = "on", ~nested,
         DeliveryStep(RealmOf[NotifierOf[c]]), at[RealmOf[NotifierOf[c]]] # "idle"
  PROVE  /\ Called(c) /\ hasRun[NotifierOf[c]]
         /\ nver[NotifierOf[c]] >= target[RealmOf[NotifierOf[c]]]
         /\ rv'[RealmOf[NotifierOf[c]]] = nver[NotifierOf[c]]
  <1> DEFINE n == NotifierOf[c]
             r == RealmOf[n]
  <1>0. r \in Realms /\ n \in Notifiers /\ nver[n] \in Nat /\ target[r] \in Nat
    BY Typed DEF Base
  <1>1. Ready(r, target[r]) /\ DeliveredTo(r, c)
    BY <1>0, DeliveryFrame, DeliveryForms
  <1>2. n \in HaveRun(r) /\ nver[n] >= target[r]
    BY <1>1, OnIsForRealm DEF Ready, CallbackOK, HaveRun
  <1>. QED
    BY <1>0, <1>1, <1>2 DEF DeliveredTo, HaveRun

\* What delivery makes of initial_delivered and the version of the first call.
LEMMA InitialStays ==
  ASSUME Base, ThreadInv, PlaceInv, NEW r \in Realms, DeliveryStep(r), NEW c \in Callbacks, initial[c]
  PROVE  initial'[c] /\ since'[c] = since[c]
  BY DeliveryForms DEF DeliveredTo, Untouched, Packaged, Called

LEMMA NextWrite == CoreInv /\ CallbackInv /\ WriteInv /\ [Next]_vars => WriteInv'
  <1> SUFFICES ASSUME CoreInv, CallbackInv, WriteInv, [Next]_vars, NEW c \in Callbacks,
                      on'[c] = "on", ~nested', writer' = RealmOf[NotifierOf[c]],
                      at'[RealmOf[NotifierOf[c]]] # "begin"
               PROVE  initial'[c] /\ nver'[NotifierOf[c]] = latest'
    BY DEF WriteInv, WriteOK
  <1> DEFINE n == NotifierOf[c]
             r == RealmOf[n]
  <1>0. /\ Base /\ TypeOK /\ ThreadInv /\ PlaceInv /\ FoundInv /\ CallbackOK(c) /\ WriteOK(c)
        /\ n \in Notifiers /\ r \in Realms /\ ~nested /\ Nobody \notin Realms
        /\ latest \in Nat /\ nver[n] \in Nat
    BY Typed, StaysUndisturbed, NotifierAssumptions DEF CoreInv, Base, CallbackInv, WriteInv
  <1>1. CASE OnChange \/ RunStep \/ Unseen
    <2>1. UNCHANGED <<on, writer, at, initial, nver, latest>>
      BY <1>0, <1>1, OnChangeFacts, RunStepFacts DEF callVars, Unseen, noteVars, realmVars
    <2>. QED
      BY <1>0, <2>1 DEF WriteOK
  <1>2. CASE HandoverStep
    <2>1. UNCHANGED <<on[c], initial[c], writer, at, latest>> /\ nver'[n] \in {nver[n], RunVersion}
      BY <1>0, <1>2, HandoverStepFacts, HandoverCallbacks, HandoverNotifiers
    <2>2. initial[c] /\ nver[n] = latest
      BY <1>0, <2>1 DEF WriteOK
    <2>3. CASE n \in Running
      <3>1. worker.at # "idle"
        BY <1>0, <1>2, HandoverStepFacts
      <3>2. nver[n] <= RunVersion /\ RunVersion <= worker.version /\ worker.version <= latest
            /\ RunVersion \in Nat /\ worker.version \in Nat
        BY <1>0, <2>3, <3>1, RunningFacts, Typed
      <3>. QED
        BY <1>0, <2>1, <2>2, <3>2
    <2>. QED
      BY <1>0, <1>2, <2>1, <2>2, <2>3, HandoverNotifiers
  <1>3. ASSUME NEW q \in Realms, DeliveryStep(q)
        PROVE  initial'[c] /\ nver'[n] = latest'
    <2>1. /\ UNCHANGED <<on, writer, latest, nver>> /\ (q # r => at'[r] = at[r])
      BY <1>0, <1>3, DeliveryFrame, DeliveryForms DEF noteVars
    <2>2. CASE at[r] = "begin"
      <3>1. q = r /\ target[r] = latest /\ nver[n] <= latest
        BY <1>0, <2>1, <2>2 DEF ThreadInv, Base, WorkerInv, VersionsInv
      <3>2. Called(c) /\ nver[n] >= target[r]
        BY <1>0, <1>3, <2>1, <2>2, <3>1, CalledAfterWait
      <3>. QED
        BY <1>0, <2>1, <3>1, <3>2 DEF Called
    <2>3. CASE at[r] # "begin"
      BY <1>0, <1>3, <2>1, <2>3, InitialStays DEF WriteOK
    <2>. QED
      BY <2>2, <2>3
  <1>4. ASSUME NEW q \in Realms, QuietStep(q)
        PROVE  initial'[c] /\ nver'[n] = latest'
    <2>0. UNCHANGED <<on, initial, nver>> /\ (q # r => at'[r] = at[r])
      BY <1>0, <1>4, QuietStepFrame DEF noteVars, gotVars
    <2>1. CASE BeginTransaction(q)
      <3>1. q = r /\ at[r] = "idle" /\ NotifiersForRealm(r) # {}
        BY <1>0, <2>0, <2>1, OnIsForRealm DEF BeginTransaction
      <3>2. at' = [at EXCEPT ![r] = "begin"] /\ r \in DOMAIN at
        BY <1>0, <2>1, <3>1 DEF BeginTransaction, TypeOK
      <3>. QED
        BY <3>2
    <2>2. CASE CommitTransaction(q) \/ CancelTransaction(q)
      BY <1>0, <2>2 DEF CommitTransaction, CancelTransaction
    <2>3. CASE \/ SendingDone(q) \/ SetAutoRefresh(q) \/ Refresh(q)
               \/ \E cs \in SUBSET Callbacks : SuppressNextNotification(q, cs)
      <3>1. UNCHANGED <<writer, latest>> /\ at[q] # "begin"
        BY <2>3 DEF SendingDone, SetAutoRefresh, Refresh, SuppressNextNotification
      <3>. QED
        BY <1>0, <2>0, <3>1 DEF WriteOK
    <2>. QED
      BY <1>4, <2>1, <2>2, <2>3 DEF QuietStep
  <1>5. ASSUME NEW m \in Notifiers, PrepareAsync(m) \/ Unregister(m)
        PROVE  initial'[c] /\ nver'[n] = latest'
    <2>1. UNCHANGED <<on, writer, at, initial, latest>>
      BY <1>5 DEF PrepareAsync, Unregister, callVars, realmVars
    <2>2. place[n] # "none"
      BY <1>0, <2>1 DEF CallbackOK, PlaceInv
    <2>. QED
      BY <1>0, <1>5, <2>1, <2>2, RegistrationRaises DEF WriteOK
  <1>6. ASSUME NEW d \in Callbacks, AddCallback(d)
        PROVE  initial'[c] /\ nver'[n] = latest'
    <2>1. UNCHANGED <<writer, at, initial, latest>> /\ c # d /\ on[c] = "on"
      BY <1>0, <1>6, AddFacts DEF realmVars
    <2>. QED
      BY <1>0, <1>6, <2>1, AddFacts DEF WriteOK, noteVars
  <1>7. ASSUME NEW d \in Callbacks, RemoveCallback(d)
        PROVE  initial'[c] /\ nver'[n] = latest'
    <2>1. c # d
      BY <1>0, <1>7, RemovedFrame
    <2>. QED
      BY <1>0, <1>7, <2>1, RemovedFrame DEF WriteOK, noteVars, realmVars
  <1>8. CASE OtherCommit
    BY <1>0, <1>8 DEF OtherCommit, realmVars
  <1>. QED
    BY <1>1, <1>2, <1>3, <1>4, <1>5, <1>6, <1>7, <1>8, NextForms

-----------------------------------------------------------------------------
(***************************************************************************)
(* Keeping pace.  From the first call of a callback on, what its notifier  *)
(* has passed was told to it, suppressed, or is accumulated; its Realm is  *)
(* at most one commit ahead of the notifier, the commit it made itself;    *)
(* and while it is ahead, or writes, nothing is accumulated that packaging *)
(* in vain could lose.                                                     *)
(***************************************************************************)

Covered(c) ==
  /\ \A v \in Nat : since[c] < v /\ v <= nver[NotifierOf[c]] =>
       v \in told[c] \/ v \in dropped[c] \/ v \in acc[c]
  /\ \A v \in Nat : since[c] < v /\ v <= shown[c] => v \in told[c] \/ v \in dropped[c]

Ahead(c) ==
  LET n == NotifierOf[c]
      r == RealmOf[n]
  IN at[r] # "begin" =>
       /\ rv[r] <= nver[n] + 1
       /\ rv[r] > nver[n] \/ writer = r => \A v \in acc[c] : v <= since[c]

Compared(c) ==
  LET n == NotifierOf[c]
  IN /\ since[c] <= nver[n]
     /\ nver[n] <= ran[n] \/ nver[n] <= since[c]
     /\ HandingOver(n) /\ RunVersion = nver[n] => \A v \in found[n] : v <= since[c]

PaceOK(c) ==
  initial[c] /\ Undisturbed(c) =>
    Covered(c) /\ Ahead(c) /\ Compared(c) /\ \A v \in deliver[c] : v <= since[c]

PaceInv == \A c \in Callbacks : PaceOK(c)

FullInv == CoreInv /\ CallbackInv /\ LateInv /\ WriteInv

\* What the proofs below use of a callback c, its notifier and its Realm.
LEMMA FullFacts ==
  ASSUME FullInv, NEW c \in Callbacks
  PROVE  /\ Base /\ TypeOK /\ ThreadInv /\ PlaceInv /\ FoundInv /\ ToldInv
         /\ CallbackOK(c) /\ LateOK(c) /\ WriteOK(c)
         /\ NotifierOf[c] \in Notifiers /\ RealmOf[NotifierOf[c]] \in Realms
         /\ latest \in Nat /\ nver[NotifierOf[c]] \in Nat /\ ran[NotifierOf[c]] \in Nat
         /\ nver[NotifierOf[c]] <= latest
         /\ rv[RealmOf[NotifierOf[c]]] \in Nat /\ since[c] \in Nat /\ shown[c] \in Nat
         /\ acc[c] \subseteq Nat /\ found[NotifierOf[c]] \subseteq Nat /\ Nobody \notin Realms
         /\ initial[c] \in BOOLEAN
  BY Typed, NotifierAssumptions
  DEF FullInv, CoreInv, Base, CallbackInv, LateInv, WriteInv, TypeOK, WorkerInv, VersionsInv

\* A step that neither hands over nor delivers to c, and that does not move its
\* Realm while it may get ahead.
LEMMA PaceFrame ==
  ASSUME FullInv, NEW c \in Callbacks, PaceOK(c), initial[c], Undisturbed(c),
         UNCHANGED <<acc[c], deliver[c], told[c], dropped[c], since[c], shown[c]>>,
         UNCHANGED <<nver[NotifierOf[c]], ran[NotifierOf[c]], found[NotifierOf[c]]>>,
         HandingOver(NotifierOf[c])' => HandingOver(NotifierOf[c]) /\ RunVersion' = RunVersion,
         at'[RealmOf[NotifierOf[c]]] # "begin" =>
           /\ at[RealmOf[NotifierOf[c]]] # "begin"
           /\ UNCHANGED rv[RealmOf[NotifierOf[c]]]
           /\ writer' = RealmOf[NotifierOf[c]] => writer = RealmOf[NotifierOf[c]]
  PROVE  PaceOK(c)'
  <1>1. Covered(c)'
    BY DEF PaceOK, Covered
  <1>2. Ahead(c)'
    BY DEF PaceOK, Ahead
  <1>3. Compared(c)'
    BY DEF PaceOK, Compared
  <1>. QED
    BY <1>1, <1>2, <1>3 DEF PaceOK

\* What run() finds at the version its notifier is at is not news.
LEMMA PaceOfRun ==
  ASSUME FullInv, NEW c \in Callbacks, PaceOK(c), initial[c], Undisturbed(c), RunStep
  PROVE  PaceOK(c)'
  <1> DEFINE n == NotifierOf[c]
  <1>0. UNCHANGED <<latest, realmVars, nver, hasRun, callVars>>
    BY FullFacts, RunStepFacts
  <1>1. CASE n \in Running
    <2>0. have[n] /\ hasRun[n] /\ worker.at # "idle" /\ Covered(c) /\ Ahead(c) /\ Compared(c)
      BY FullFacts, RunStepFacts DEF CallbackOK, Undisturbed, PaceOK
    <2>1. /\ ran'[n] = RunVersion /\ nver[n] <= RunVersion /\ RunVersion' = RunVersion
          /\ found'[n] = {v \in Nat : ran[n] < v /\ v <= RunVersion} /\ RunVersion \in Nat
      BY <1>1, <2>0, FullFacts, RunNotifier, RunStepFacts, RunningFacts
    <2>2. Compared(c)'
      BY <1>0, <2>0, <2>1, FullFacts DEF Compared, callVars
    <2>. QED
      BY <1>0, <2>0, <2>2 DEF PaceOK, Covered, Ahead, callVars, realmVars
  <1>2. CASE n \notin Running
    <2>1. ~HandingOver(n)'
      <3>1. n \notin Running'
        BY <1>2, FullFacts, RunStepFacts
      <3>. QED
        BY <3>1 DEF HandingOver, Running
    <2>2. ran'[n] = ran[n] /\ found'[n] = found[n]
      BY <1>2, FullFacts, RunOthers
    <2>. QED
      BY <1>0, <2>1, <2>2, PaceFrame DEF callVars, realmVars
  <1>. QED
    BY <1>1, <1>2

\* All that a handover passes is accumulated or suppressed.
LEMMA PaceOfHandover ==
  ASSUME FullInv, NEW c \in Callbacks, PaceOK(c), initial[c], Undisturbed(c), HandoverStep
  PROVE  PaceOK(c)'
  <1> DEFINE n == NotifierOf[c]
             r == RealmOf[n]
  <1>0. /\ UNCHANGED <<writer, rv, at, latest, deliver[c], told[c], since[c], shown[c], ran[n]>>
        /\ worker.at \in {"skipped", "ran"} /\ ~HandingOver(n)'
    BY FullFacts, HandoverStepFacts, HandoverCallbacks, HandoverNotifiers DEF HandingOver
  <1>1. CASE n \in Running
    <2>0. Covered(c) /\ Ahead(c) /\ Compared(c) /\ on[c] = "on" /\ hasRun[n] /\ HandingOver(n)
      BY <1>0, <1>1, FullFacts, HandingOverIsRunning DEF PaceOK, CallbackOK
    <2>1. /\ nver'[n] = RunVersion /\ nver[n] <= RunVersion /\ RunVersion \in Nat
          /\ ran[n] = RunVersion /\ RunVersion <= latest
          /\ \A v \in Nat : nver[n] < v /\ v <= RunVersion => v \in found[n]
      <3>1. n \in looked /\ worker.at # "idle"
        BY <1>0, <2>0, FullFacts DEF LateOK
      <3>2. /\ nver[n] <= RunVersion /\ RunVersion \in Nat /\ worker.version \in Nat
            /\ RunVersion <= worker.version /\ worker.version <= latest
        BY <1>1, <3>1, FullFacts, RunningFacts, Typed
      <3>3. nver'[n] = RunVersion
        BY <1>1, FullFacts, HandoverNotifiers
      <3>4. /\ ran[n] = RunVersion
            /\ \A v \in Nat : nver[n] < v /\ v <= RunVersion => v \in found[n]
        BY <2>0, <3>1, FullFacts DEF FoundInv
      <3>. QED
        BY <3>2, <3>3, <3>4, FullFacts
    <2>2. \/ acc'[c] = acc[c] \cup found[n] /\ dropped'[c] = dropped[c]
          \/ acc'[c] = acc[c] /\ dropped'[c] = dropped[c] \cup found[n]
      BY <1>1, <2>0, FullFacts, HandoverCallbacks DEF TypeOK
    <2>3. Covered(c)'
      BY <1>0, <2>0, <2>1, <2>2, FullFacts DEF Covered
    <2>4. Ahead(c)'
      <3> SUFFICES ASSUME at[r] # "begin"
                   PROVE  /\ rv[r] <= RunVersion + 1
                          /\ rv[r] > RunVersion \/ writer = r => \A v \in acc'[c] : v <= since[c]
        BY <1>0, <2>1 DEF Ahead
      <3>1. rv[r] <= nver[n] + 1
        BY <2>0 DEF Ahead
      <3>2. rv[r] > RunVersion \/ writer = r =>
              RunVersion = nver[n] /\ (rv[r] > nver[n] \/ writer = r)
        BY <2>0, <2>1, <3>1, FullFacts DEF WriteOK, Undisturbed
      <3>. QED
        BY <2>0, <2>1, <2>2, <3>1, <3>2, FullFacts DEF Ahead, Compared
    <2>5. Compared(c)'
      BY <1>0, <2>0, <2>1, FullFacts DEF Compared
    <2>. QED
      BY <1>0, <2>3, <2>4, <2>5 DEF PaceOK
  <1>2. CASE n \notin Running
    BY <1>0, <1>2, FullFacts, HandoverNotifiers, HandoverCallbacks, PaceFrame
  <1>. QED
    BY <1>1, <1>2

\* What a callback is called with completes what it was told; what is packaged
\* in vain is from before its first call.
LEMMA PaceOfDelivery ==
  ASSUME FullInv, NEW c \in Callbacks, PaceOK(c), NEW q \in Realms, DeliveryStep(q),
         initial'[c], Undisturbed(c)
  PROVE  PaceOK(c)'
  <1> DEFINE n == NotifierOf[c]
             r == RealmOf[n]
  <1>0. /\ UNCHANGED <<latest, writer, noteVars, worker, on, dropped>> /\ DeliveredTo(q, c)
        /\ q # r => UNCHANGED <<rv[r], at[r]>>
        /\ at[q] \in {"idle", "refresh", "begin"}
    BY FullFacts, DeliveryFrame, DeliveryForms DEF workVars
  <1>1. HandingOver(n)' = HandingOver(n) /\ RunVersion' = RunVersion
    BY <1>0 DEF HandingOver, RunVersion
  <1>2. n \in HaveRun(q) => q = r
    BY DEF HaveRun, NotifiersForRealm
  <1>3. CASE Called(c) /\ n \in HaveRun(q) /\ rv'[q] = nver[n]
    <2>0. q = r /\ rv'[r] = nver[n] /\ UNCHANGED <<nver, ran, found>> /\ acc'[c] = {} /\ deliver'[c] = {}
          /\ shown'[c] = nver[n]
      BY <1>0, <1>2, <1>3 DEF noteVars, Called
    <2>1. CASE initial[c]
      <3>1. told'[c] = told[c] \cup acc[c] /\ since'[c] = since[c]
        BY <1>3, <2>1 DEF Called
      <3>2. Covered(c)'
        BY <1>0, <2>0, <2>1, <3>1, FullFacts DEF PaceOK, Covered
      <3>3. Compared(c)'
        BY <1>0, <1>1, <2>0, <2>1, <3>1 DEF PaceOK, Compared
      <3>4. Ahead(c)'
        BY <2>0, FullFacts DEF Ahead
      <3>. QED
        BY <2>0, <3>2, <3>3, <3>4 DEF PaceOK
    <2>2. CASE ~initial[c]
      <3>1. since'[c] = nver[n]
        BY <1>3, <2>2 DEF Called
      <3>2. Covered(c)'
        BY <2>0, <3>1, FullFacts DEF Covered
      <3>3. Compared(c)'
        BY <1>1, <2>0, <3>1, FullFacts DEF Compared, FoundInv
      <3>4. Ahead(c)'
        BY <2>0, FullFacts DEF Ahead
      <3>. QED
        BY <2>0, <3>2, <3>3, <3>4 DEF PaceOK
    <2>. QED
      BY <2>1, <2>2
  <1>4. CASE /\ Packaged(c) /\ on[c] = "on" /\ n \in HaveRun(q)
             /\ \/ at[q] = "idle" /\ nver[n] < rv[q] /\ rv'[q] = rv[q]
                \/ at[q] # "idle" /\ nver[n] < target[q]
    <2>0. /\ q = r /\ initial[c] /\ UNCHANGED <<nver, ran, found>> /\ acc'[c] = {}
          /\ deliver'[c] = acc[c] /\ UNCHANGED <<told[c], since[c], shown[c]>>
      BY <1>0, <1>2, <1>4 DEF noteVars, Packaged
    <2>1. at[r] = "idle" /\ nver[n] < rv[r] /\ rv'[r] = rv[r]
      <3>1. ~(at[r] # "idle" /\ nver[n] < target[r])
        <4>1. nver[n] \in Nat /\ target[r] \in Nat
          BY FullFacts, Typed
        <4>. QED
          BY <1>4, <2>0, <4>1, FullFacts, CalledAfterWait DEF Undisturbed
      <3>. QED
        BY <1>4, <2>0, <3>1
    <2>2. \A v \in acc[c] : v <= since[c]
      BY <2>0, <2>1 DEF PaceOK, Ahead
    <2>3. Covered(c)'
      BY <1>0, <2>0, <2>2, FullFacts DEF PaceOK, Covered
    <2>4. Compared(c)'
      BY <1>1, <2>0 DEF PaceOK, Compared
    <2>5. Ahead(c)'
      BY <1>0, <2>0, <2>1 DEF PaceOK, Ahead
    <2>. QED
      BY <2>0, <2>2, <2>3, <2>4, <2>5 DEF PaceOK
  <1>5. CASE /\ Untouched(c)
             /\ on[c] = "on" /\ n \in HaveRun(q) => at[q] = "idle" /\ rv'[q] = rv[q]
    <2>0. initial[c] /\ UNCHANGED <<acc[c], deliver[c], told[c], since[c], shown[c]>>
      BY <1>5 DEF Untouched
    <2>1. q = r => at[r] = "idle" /\ rv'[r] = rv[r]
      BY <1>5, <2>0, FullFacts, OnIsForRealm DEF CallbackOK, HaveRun
    <2>. QED
      BY <1>0, <1>1, <2>0, <2>1, PaceFrame DEF noteVars
  <1>. QED
    BY <1>0, <1>3, <1>4, <1>5 DEF DeliveredTo

\* A Realm gets ahead of its notifiers by its own commit only.
LEMMA PaceOfQuietStep ==
  ASSUME FullInv, NEW c \in Callbacks, PaceOK(c), NEW q \in Realms, QuietStep(q),
         initial[c], Undisturbed(c), ~nested'
  PROVE  PaceOK(c)'
  <1> DEFINE n == NotifierOf[c]
             r == RealmOf[n]
  <1>0. /\ UNCHANGED <<nver, ran, found, acc, deliver, told, dropped, since, shown, worker>>
        /\ q # r => UNCHANGED <<rv[r], at[r]>>
    BY FullFacts, QuietStepFrame DEF noteVars, gotVars
  <1>1. HandingOver(n)' = HandingOver(n) /\ RunVersion' = RunVersion
    BY <1>0 DEF HandingOver, RunVersion
  <1>2. CASE q = r /\ CommitTransaction(r)
    <2>1. writer = r /\ at[r] # "begin" /\ at'[r] # "begin" /\ rv'[r] = latest + 1 /\ writer' # r
      BY <1>2, FullFacts DEF CommitTransaction, TypeOK
    <2>2. nver[n] = latest /\ \A v \in acc[c] : v <= since[c]
      BY <2>1, FullFacts DEF CallbackOK, WriteOK, Undisturbed, PaceOK, Ahead
    <2>3. Ahead(c)'
      BY <1>0, <2>1, <2>2, FullFacts DEF Ahead
    <2>4. Covered(c)' /\ Compared(c)'
      BY <1>0, <1>1 DEF PaceOK, Covered, Compared
    <2>. QED
      BY <1>0, <2>3, <2>4 DEF PaceOK
  <1>3. CASE q = r /\ BeginTransaction(r)
    <2>1. at[r] = "idle" /\ NotifiersForRealm(r) # {}
      BY <1>3, FullFacts, OnIsForRealm DEF BeginTransaction, CallbackOK
    <2>2. at'[r] = "begin"
      BY <1>3, <2>1, FullFacts DEF BeginTransaction, TypeOK
    <2>. QED
      BY <1>0, <1>1, <2>2, PaceFrame
  <1>4. CASE q = r /\ ~CommitTransaction(r) /\ ~BeginTransaction(r)
    <2>1. at[r] # "begin" /\ UNCHANGED rv /\ (writer' = r => writer = r)
      BY <1>4, FullFacts DEF QuietStep, SendingDone, SetAutoRefresh, Refresh,
                             SuppressNextNotification, CancelTransaction, Writing
    <2>. QED
      BY <1>0, <1>1, <2>1, PaceFrame
  <1>5. CASE q # r
    <2>1. writer' = r => writer = r
      BY <1>5, FullFacts DEF QuietStep, SendingDone, SetAutoRefresh, Refresh, BeginTransaction,
         SuppressNextNotification, CommitTransaction, CancelTransaction
    <2>. QED
      BY <1>0, <1>1, <1>5, <2>1, PaceFrame
  <1>. QED
    BY <1>2, <1>3, <1>4, <1>5

\* Registration and other commits move neither the Realm nor the notifier of a
\* callback that has been called.
LEMMA PaceOfOthers ==
  ASSUME FullInv, NEW c \in Callbacks, PaceOK(c), initial'[c], Undisturbed(c), [Next]_vars,
         ~RunStep, ~HandoverStep, ~\E q \in Realms : DeliveryStep(q) \/ QuietStep(q)
  PROVE  PaceOK(c)'
  <1> DEFINE n == NotifierOf[c]
             r == RealmOf[n]
  <1>1. CASE OnChange
    BY <1>1, OnChangeFacts, FullFacts, PaceFrame DEF callVars
  <1>2. ASSUME NEW m \in Notifiers, PrepareAsync(m) \/ Unregister(m)
        PROVE  PaceOK(c)'
    <2>1. UNCHANGED <<realmVars, ran, found, callVars, worker>>
      BY <1>2 DEF PrepareAsync, Unregister, noteVars, workVars
    <2>2. place[n] # "none"
      BY <2>1, FullFacts DEF CallbackOK, PlaceInv, callVars
    <2>3. nver'[n] = nver[n]
      BY <1>2, <2>2, FullFacts, RegistrationRaises
    <2>. QED
      BY <2>1, <2>3, PaceFrame DEF callVars, realmVars, HandingOver, RunVersion
  <1>3. ASSUME NEW d \in Callbacks, AddCallback(d)
        PROVE  PaceOK(c)'
    <2>1. UNCHANGED <<realmVars, ran, found, acc, deliver, told, dropped, since, shown, initial, worker,
                   nver>>
      BY <1>3, FullFacts, AddFacts DEF noteVars, workVars
    <2>. QED
      BY <2>1, PaceFrame DEF realmVars, HandingOver, RunVersion
  <1>4. ASSUME NEW d \in Callbacks, RemoveCallback(d)
        PROVE  PaceOK(c)'
    <2>1. c # d
      BY <1>4, FullFacts, RemovedFrame
    <2>. QED
      BY <1>4, <2>1, FullFacts, RemovedFrame, PaceFrame
      DEF realmVars, noteVars, workVars, HandingOver, RunVersion
  <1>5. CASE OtherCommit \/ Unseen
    <2>1. UNCHANGED <<realmVars, noteVars, callVars, worker>>
      BY <1>5 DEF OtherCommit, Unseen, workVars
    <2>. QED
      BY <2>1, PaceFrame DEF realmVars, noteVars, callVars, HandingOver, RunVersion
  <1>. QED
    BY <1>1, <1>2, <1>3, <1>4, <1>5, NextForms

LEMMA NextPace == FullInv /\ PaceInv /\ [Next]_vars => PaceInv'
  <1> SUFFICES ASSUME FullInv, PaceInv, [Next]_vars, NEW c \in Callbacks,
                      initial'[c], Undisturbed(c)'
               PROVE  PaceOK(c)'
    BY DEF PaceInv, PaceOK
  <1>0. PaceOK(c) /\ Undisturbed(c) /\ ~nested'
    BY FullFacts, StaysUndisturbed DEF PaceInv, Undisturbed
  <1>1. CASE RunStep
    <2>1. initial[c]
      BY <1>1, FullFacts, RunStepFacts DEF callVars
    <2>. QED
      BY <1>0, <1>1, <2>1, PaceOfRun
  <1>2. CASE HandoverStep
    <2>1. initial[c]
      BY <1>2, FullFacts, HandoverCallbacks
    <2>. QED
      BY <1>0, <1>2, <2>1, PaceOfHandover
  <1>3. ASSUME NEW q \in Realms, DeliveryStep(q)
        PROVE  PaceOK(c)'
    BY <1>0, <1>3, PaceOfDelivery
  <1>4. ASSUME NEW q \in Realms, QuietStep(q)
        PROVE  PaceOK(c)'
    <2>1. initial[c]
      BY <1>4, FullFacts, QuietStepFrame DEF gotVars
    <2>. QED
      BY <1>0, <1>4, <2>1, PaceOfQuietStep
  <1>. QED
    BY <1>0, <1>1, <1>2, <1>3, <1>4, PaceOfOthers

LEMMA InitFull == Init => FullInv /\ PaceInv
  <1> SUFFICES ASSUME Init PROVE FullInv /\ PaceInv
    OBVIOUS
  <1>1. CoreInv
    BY InitCore
  <1>2. CallbackInv /\ LateInv /\ WriteInv /\ PaceInv
    BY DEF Init, CallbackInv, CallbackOK, LateInv, LateOK, WriteInv, WriteOK, PaceInv, PaceOK
  <1>. QED
    BY <1>1, <1>2 DEF FullInv

LEMMA NextFull == FullInv /\ [Next]_vars => FullInv'
  BY NextCore, NextCallback, NextLate, NextWrite DEF FullInv

LEMMA PaceAlways == Spec => [](FullInv /\ PaceInv)
  BY InitFull, NextFull, NextPace, PTL DEF Spec

\* add_changes, package_for_delivery, call_callbacks: from its first call on, up
\* to the version it was last called at, each commit was told to a callback or
\* dropped by a suppression, whatever else runs, unless a callback began a write
\* or registered a callback, or it came late.
THEOREM EveryCommitIsToldHolds == Spec => []EveryCommitIsTold
  <1>1. FullInv /\ PaceInv => EveryCommitIsTold
    <2> SUFFICES ASSUME FullInv, PaceInv, NEW c \in Callbacks, initial[c], Undisturbed(c),
                        NEW v \in since[c] + 1 .. shown[c]
                 PROVE  v \in told[c] \cup dropped[c]
      BY DEF EveryCommitIsTold
    <2>1. since[c] \in Nat /\ shown[c] \in Nat /\ PaceOK(c)
      BY FullFacts DEF PaceInv
    <2>2. v \in Nat /\ since[c] < v /\ v <= shown[c]
      BY <2>1
    <2>. QED
      BY <2>1, <2>2 DEF PaceOK, Covered
  <1>. QED
    BY <1>1, PaceAlways, PTL

\* advance_to_ready, package_and_wait: what they package in vain, because the
\* Realm is past it or it is not for the version waited for, holds no commit
\* after the version an undisturbed callback was first called with.
THEOREM NothingIsDiscardedHolds == Spec => []NothingIsDiscarded
  <1>1. FullInv /\ PaceInv => NothingIsDiscarded
    BY DEF PaceInv, PaceOK, NothingIsDiscarded
  <1>. QED
    BY <1>1, PaceAlways, PTL

-----------------------------------------------------------------------------
(***************************************************************************)
(* Suppression.  A callback that shall skip its next changes waits for the *)
(* commit that asked for it, or for the worker to run its notifier to the  *)
(* version of that commit: a run in between finds nothing it has to hear   *)
(* of.  m_notifier_skip_version is one for all Realm instances: a commit   *)
(* of another instance with notifiers of its own may replace it, and then  *)
(* the callback is overtaken.                                              *)
(***************************************************************************)

Awaits(c) ==
  LET n == NotifierOf[c]
      r == RealmOf[n]
  IN \/ writer = r /\ at[r] = "commit" /\ c \in asked
     \/ /\ nver[n] + 1 \in quiet[c]
        /\ \/ skip = nver[n] + 1
           \/ /\ worker.at \in {"skip", "skipped"} /\ n \in worker.old
              /\ worker.skip = nver[n] + 1

NoNews(c, vs) == \A v \in vs : v <= since[c] \/ v \in quiet[c]

SuppressOK(c) ==
  Undisturbed(c) /\ c \notin overtaken =>
    /\ dropped[c] # {} => initial[c]
    /\ NoNews(c, dropped[c])
    /\ skipNext[c] =>
         /\ initial[c] /\ Awaits(c)
         /\ HandingOver(NotifierOf[c]) => NoNews(c, found[NotifierOf[c]])

SuppressInv == \A c \in Callbacks : SuppressOK(c)

PacedInv == FullInv /\ PaceInv

\* A step that suppresses nothing.
LEMMA SuppressFrame ==
  ASSUME NEW c \in Callbacks, SuppressOK(c), Undisturbed(c), c \notin overtaken,
         UNCHANGED dropped[c], skipNext'[c] => skipNext[c],
         initial[c] => initial'[c] /\ UNCHANGED since[c],
         quiet[c] \subseteq quiet'[c],
         HandingOver(NotifierOf[c])' => HandingOver(NotifierOf[c]) /\ UNCHANGED found[NotifierOf[c]],
         skipNext'[c] /\ Awaits(c) => Awaits(c)'
  PROVE  SuppressOK(c)'
  BY DEF SuppressOK, NoNews

\* In a write transaction the suppression asked for is not yet committed.
LEMMA AwaitsInWrite ==
  ASSUME PacedInv, NEW c \in Callbacks, on[c] = "on", ~nested,
         writer = RealmOf[NotifierOf[c]], at[RealmOf[NotifierOf[c]]] # "begin", Awaits(c)
  PROVE  at[RealmOf[NotifierOf[c]]] = "commit" /\ c \in asked
  <1> DEFINE n == NotifierOf[c]
  <1>1. nver[n] = latest /\ latest \in Nat /\ Base
    BY FullFacts DEF PacedInv, WriteOK
  <1>2. skip # nver[n] + 1
    BY <1>1 DEF Base, WorkerInv, SkipInv
  <1>3. worker.at \in {"skip", "skipped"} => worker.skip # nver[n] + 1
    <2> SUFFICES ASSUME worker.at \in {"skip", "skipped"} PROVE worker.skip # nver[n] + 1
      OBVIOUS
    <2>1. /\ RunVersion <= worker.version /\ worker.version <= latest /\ RunVersion = worker.skip
          /\ worker.version \in Nat /\ worker.skip \in Nat
      BY <1>1, RunningFacts, Typed DEF RunVersion, Base
    <2>. QED
      BY <1>1, <2>1
  <1>. QED
    BY <1>2, <1>3 DEF Awaits

\* A run while a suppression is waited for stays at the version of the notifier,
\* or goes to the version of the suppressed commit.
LEMMA AwaitsRun ==
  ASSUME PacedInv, NEW c \in Callbacks, on[c] = "on", Undisturbed(c), Awaits(c),
         worker.at # "idle", NotifierOf[c] \in Running
  PROVE  \/ RunVersion = nver[NotifierOf[c]]
         \/ /\ RunVersion = nver[NotifierOf[c]] + 1 /\ RunVersion \in quiet[c]
            /\ worker.at \in {"skip", "skipped"}
  <1> DEFINE n == NotifierOf[c]
             r == RealmOf[n]
  <1>0. /\ nver[n] \in Nat /\ nver[n] <= RunVersion /\ RunVersion \in Nat /\ worker.version \in Nat
        /\ RunVersion <= worker.version /\ worker.version <= latest /\ latest \in Nat
        /\ skip # 0 => worker.version < skip
    BY FullFacts, RunningFacts, Typed DEF PacedInv
  <1>1. CASE writer = r /\ at[r] = "commit"
    <2>1. nver[n] = latest
      BY <1>1, FullFacts DEF PacedInv, WriteOK, Undisturbed
    <2>. QED
      BY <1>0, <2>1
  <1>2. CASE skip = nver[n] + 1
    <2>1. worker.version < nver[n] + 1
      BY <1>0, <1>2
    <2>. QED
      BY <1>0, <2>1
  <1>3. CASE /\ nver[n] + 1 \in quiet[c] /\ worker.at \in {"skip", "skipped"}
             /\ worker.skip = nver[n] + 1
    BY <1>3 DEF RunVersion
  <1>. QED
    BY <1>1, <1>2, <1>3 DEF Awaits

LEMMA SuppressOfRun ==
  ASSUME PacedInv, PaceInv', NEW c \in Callbacks, SuppressOK(c), RunStep, Undisturbed(c),
         c \notin overtaken
  PROVE  SuppressOK(c)'
  <1> DEFINE n == NotifierOf[c]
  <1>0. /\ FullInv /\ UNCHANGED <<latest, writer, at, asked, quiet, nver, callVars, skip, nested, late>>
        /\ worker'.old = worker.old /\ worker'.skip = worker.skip /\ worker.at # "idle"
        /\ RunVersion' = RunVersion
        /\ worker.at \in {"skip", "rest"}
        /\ worker.at = "skip" <=> worker'.at = "skipped"
    BY FullFacts, RunStepFacts DEF PacedInv, realmVars, askVars
  <1>1. Awaits(c) => Awaits(c)'
    BY <1>0 DEF Awaits
  <1>2. ASSUME skipNext[c], HandingOver(n)'
        PROVE  NoNews(c, found'[n])
    <2>0. initial[c] /\ on[c] = "on" /\ Awaits(c) /\ hasRun[n] /\ have[n] /\ PaceOK(c) /\ PaceOK(c)'
      BY <1>0, <1>2, FullFacts DEF SuppressOK, CallbackOK, Undisturbed, PacedInv, PaceInv
    <2>1. n \in Running
      <3>1. n \in Running'
        BY <1>2 DEF HandingOver, Running
      <3>. QED
        BY <1>0, <3>1, FullFacts, RunStepFacts
    <2>2. CASE RunVersion = nver[n]
      <3>1. Compared(c)'
        BY <1>0, <2>0 DEF PaceOK, Undisturbed, callVars
      <3>. QED
        BY <1>0, <1>2, <2>2, <3>1 DEF Compared, NoNews, callVars
    <2>3. CASE RunVersion = nver[n] + 1 /\ RunVersion \in quiet[c]
      <3>1. found'[n] = {v \in Nat : ran[n] < v /\ v <= RunVersion}
        BY <1>0, <2>0, <2>1, FullFacts, RunNotifier
      <3>2. nver[n] <= ran[n] \/ nver[n] <= since[c]
        BY <2>0 DEF PaceOK, Compared
      <3>3. nver[n] \in Nat /\ ran[n] \in Nat /\ since[c] \in Nat
        BY <1>0, FullFacts
      <3>. QED
        BY <2>3, <3>1, <3>2, <3>3 DEF NoNews
    <2>. QED
      BY <1>0, <2>0, <2>1, <2>2, <2>3, AwaitsRun
  <1>. QED
    BY <1>0, <1>1, <1>2 DEF SuppressOK, callVars, NoNews

\* A handover of the worker's last phase keeps the skip version of a notifier
\* that lives.
LEMMA SkipKept ==
  ASSUME PacedInv, NEW c \in Callbacks, on[c] = "on", hasRun[NotifierOf[c]]
  PROVE  /\ NotifierOf[c] \in MainNotifiers /\ NotifierOf[c] \notin Dead(MainNotifiers)
         /\ SkipAfterCleanUp(MainNotifiers) = skip
  <1>1. NotifierOf[c] \in MainNotifiers /\ NotifierOf[c] \notin Dead(MainNotifiers)
    BY FullFacts DEF PacedInv, CallbackOK, PlaceInv, MainNotifiers, Dead
  <1>. QED
    BY <1>1 DEF SkipAfterCleanUp

LEMMA SuppressOfHandover ==
  ASSUME PacedInv, NEW c \in Callbacks, SuppressOK(c), HandoverStep, Undisturbed(c),
         c \notin overtaken
  PROVE  SuppressOK(c)'
  <1> DEFINE n == NotifierOf[c]
  <1>0. /\ FullInv /\ UNCHANGED <<latest, writer, at, asked, quiet>>
        /\ UNCHANGED <<on[c], initial[c], since[c]>>
        /\ ~HandingOver(n)' /\ worker.at \in {"skipped", "ran"}
    BY FullFacts, HandoverStepFacts, HandoverCallbacks DEF PacedInv, askVars, HandingOver
  <1>1. CASE on[c] = "on" /\ n \in Running
    <2>1. HandingOver(n) /\ skipNext'[c] = FALSE
      BY <1>0, <1>1, FullFacts, HandoverCallbacks, HandingOverIsRunning
    <2>2. dropped'[c] = dropped[c] \/ (skipNext[c] /\ dropped'[c] = dropped[c] \cup found[n])
      BY <1>0, <1>1, FullFacts, HandoverCallbacks
    <2>. QED
      BY <1>0, <2>1, <2>2 DEF SuppressOK, NoNews
  <1>2. CASE ~(on[c] = "on" /\ n \in Running)
    <2>1. UNCHANGED <<dropped[c], skipNext[c]>>
      BY <1>0, <1>2, FullFacts, HandoverCallbacks
    <2>2. ASSUME skipNext[c], Awaits(c)
          PROVE  Awaits(c)'
      <3>1. on[c] = "on" /\ initial[c] /\ hasRun[n] /\ n \notin Running
        BY <1>0, <1>2, <2>2, FullFacts DEF SuppressOK, CallbackOK
      <3>2. nver'[n] = nver[n]
        BY <1>0, <3>1, FullFacts, HandoverNotifiers
      <3>3. skip' = skip
        BY <1>0, <3>1, FullFacts, HandoverStepFacts, SkipKept
      <3>4. ~(worker.at \in {"skip", "skipped"} /\ n \in worker.old)
        BY <3>1 DEF Running
      <3>. QED
        BY <1>0, <2>2, <3>2, <3>3, <3>4 DEF Awaits
    <2>. QED
      BY <1>0, <2>1, <2>2, SuppressFrame
  <1>. QED
    BY <1>1, <1>2

\* The worker takes the skip version along.
LEMMA SuppressOfOnChange ==
  ASSUME PacedInv, NEW c \in Callbacks, SuppressOK(c), OnChange, Undisturbed(c),
         c \notin overtaken
  PROVE  SuppressOK(c)'
  <1> DEFINE n == NotifierOf[c]
  <1>0. /\ FullInv /\ UNCHANGED <<latest, writer, at, asked, quiet, nver, callVars>>
        /\ ~HandingOver(n)' /\ worker.at = "idle"
    BY FullFacts, OnChangeFacts DEF PacedInv, askVars
  <1>1. ASSUME skipNext[c], Awaits(c)
        PROVE  Awaits(c)'
    <2>1. on[c] = "on" /\ initial[c] /\ hasRun[n]
      BY <1>0, <1>1, FullFacts DEF SuppressOK, CallbackOK
    <2>2. n \in MainNotifiers \ Dead(MainNotifiers) /\ SkipAfterCleanUp(MainNotifiers) = skip
      BY <2>1, SkipKept
    <2>3. \E new : RunNotifiers(MainNotifiers \ Dead(MainNotifiers), new, skip)
      BY <2>2 DEF OnChange
    <2>4. n \in worker'.old /\ worker'.skip = skip /\ (skip # 0 => worker'.at = "skip")
      BY <2>2, <2>3 DEF RunNotifiers
    <2>5. nver[n] \in Nat
      BY <1>0, FullFacts
    <2>. QED
      BY <1>0, <1>1, <2>4, <2>5 DEF Awaits
  <1>. QED
    BY <1>0, <1>1, SuppressFrame DEF callVars

LEMMA SuppressOfDelivery ==
  ASSUME PacedInv, NEW c \in Callbacks, SuppressOK(c), NEW q \in Realms, DeliveryStep(q),
         Undisturbed(c), c \notin overtaken
  PROVE  SuppressOK(c)'
  <1> DEFINE n == NotifierOf[c]
  <1>0. /\ FullInv /\ Base /\ ThreadInv /\ PlaceInv
        /\ UNCHANGED <<writer, askVars, noteVars, workVars, skipNext, dropped>>
        /\ \A p \in Realms : p # q => at'[p] = at[p]
        /\ at[q] \in {"idle", "refresh", "begin"} /\ RealmOf[n] \in Realms
    BY FullFacts, DeliveryFrame, DeliveryForms DEF PacedInv
  <1>1. Awaits(c) => Awaits(c)'
    BY <1>0 DEF Awaits, askVars, noteVars, workVars
  <1>2. initial[c] => initial'[c] /\ UNCHANGED since[c]
    BY <1>0, InitialStays
  <1>3. HandingOver(n)' = HandingOver(n) /\ UNCHANGED <<found, quiet>>
    BY <1>0 DEF HandingOver, noteVars, workVars, askVars
  <1>. QED
    BY <1>0, <1>1, <1>2, <1>3, SuppressFrame

\* A commit that suppresses leaves its version as the skip version; one of
\* another Realm leaves the skip version waited for, or overtakes the callback.
LEMMA SuppressOfCommit ==
  ASSUME PacedInv, NEW c \in Callbacks, SuppressOK(c), NEW q \in Realms,
         CommitTransaction(q), Undisturbed(c), c \notin overtaken, c \notin overtaken'
  PROVE  SuppressOK(c)'
  <1> DEFINE n == NotifierOf[c]
             r == RealmOf[n]
  <1>0. /\ FullInv /\ n \in Notifiers /\ latest \in Nat
        /\ UNCHANGED <<noteVars, callVars, worker>>
        /\ skip' = SkipAfterCommit(q) /\ writer = q /\ at[q] # "begin"
        /\ quiet'[c] = quiet[c] \cup (IF c \in asked THEN {latest + 1} ELSE {})
    BY FullFacts DEF PacedInv, CommitTransaction
  <1>1. HandingOver(n)' = HandingOver(n)
    BY <1>0 DEF HandingOver
  <1>2. ASSUME skipNext[c], Awaits(c)
        PROVE  Awaits(c)'
    <2>0. on[c] = "on" /\ initial[c] /\ hasRun[n] /\ ~nested
      BY <1>0, <1>2, FullFacts DEF SuppressOK, CallbackOK, Undisturbed
    <2>1. CASE q = r
      <3>1. c \in asked /\ nver[n] = latest
        BY <1>0, <1>2, <2>0, <2>1, AwaitsInWrite, FullFacts DEF WriteOK
      <3>2. n \in MainNotifiers /\ alive[n]
        BY <1>0, <2>0, SkipKept, FullFacts DEF CallbackOK
      <3>3. skip' = latest + 1
        BY <1>0, <2>1, <3>2 DEF SkipAfterCommit
      <3>. QED
        BY <1>0, <3>1, <3>3 DEF Awaits, noteVars
    <2>2. CASE q # r
      <3>1. skip \in {0, skip'}
        BY <1>0, <1>2, <2>2 DEF CommitTransaction, Overtaken
      <3>2. nver[n] \in Nat
        BY <1>0, FullFacts
      <3>. QED
        BY <1>0, <1>2, <2>2, <3>1, <3>2 DEF Awaits, noteVars
    <2>. QED
      BY <2>1, <2>2
  <1>. QED
    BY <1>0, <1>1, <1>2, SuppressFrame DEF noteVars, callVars

\* Who asks has heard of all there is: what its notifier is handing over is not
\* news.
LEMMA SuppressOfSuppress ==
  ASSUME PacedInv, NEW c \in Callbacks, SuppressOK(c), NEW q \in Realms,
         NEW cs \in SUBSET Callbacks, SuppressNextNotification(q, cs), Undisturbed(c),
         c \notin overtaken
  PROVE  SuppressOK(c)'
  <1> DEFINE n == NotifierOf[c]
             r == RealmOf[n]
  <1>0. /\ FullInv /\ UNCHANGED <<latest, writer, quiet, noteVars, initial, dropped, since, workVars>>
        /\ writer = q /\ at[q] = "idle" /\ asked' = cs /\ at' = [at EXCEPT ![q] = "commit"]
        /\ skipNext'[c] = (skipNext[c] \/ c \in cs)
        /\ c \in cs => on[c] = "on" /\ r = q
    BY FullFacts DEF PacedInv, SuppressNextNotification
  <1>1. HandingOver(n)' = HandingOver(n) /\ UNCHANGED found[n]
    BY <1>0 DEF HandingOver, noteVars, workVars
  <1>2. CASE c \in cs
    <2>0. /\ on[c] = "on" /\ r = q /\ ~nested /\ PaceOK(c) /\ r \in DOMAIN at
          /\ latest \in Nat /\ nver[n] \in Nat
      BY <1>0, <1>2, FullFacts DEF Undisturbed, PacedInv, PaceInv, TypeOK
    <2>1. initial[c] /\ nver[n] = latest
      BY <1>0, <2>0, FullFacts DEF WriteOK
    <2>2. HandingOver(n) => RunVersion = nver[n]
      <3> SUFFICES ASSUME HandingOver(n) PROVE RunVersion = nver[n]
        OBVIOUS
      <3>1. worker.at # "idle" /\ n \in Running
        BY HandingOverIsRunning
      <3>2. /\ nver[n] <= RunVersion /\ RunVersion <= worker.version /\ worker.version <= latest
            /\ RunVersion \in Nat /\ worker.version \in Nat
        BY <1>0, <3>1, FullFacts, RunningFacts, Typed
      <3>. QED
        BY <2>0, <2>1, <3>2
    <2>3. HandingOver(n) => NoNews(c, found[n])
      BY <2>0, <2>1, <2>2 DEF PaceOK, Compared, NoNews
    <2>4. Awaits(c)'
      BY <1>0, <1>2, <2>0 DEF Awaits
    <2>. QED
      BY <1>0, <1>1, <2>1, <2>3, <2>4 DEF SuppressOK, NoNews
  <1>3. CASE c \notin cs
    <2>1. ~(writer = r /\ at[r] = "commit")
      BY <1>0
    <2>2. Awaits(c) => Awaits(c)'
      BY <1>0, <2>1 DEF Awaits, noteVars, workVars
    <2>. QED
      BY <1>0, <1>1, <1>3, <2>2, SuppressFrame
  <1>. QED
    BY <1>2, <1>3

\* The other steps leave a suppression waiting.
LEMMA SuppressOfOthers ==
  ASSUME PacedInv, NEW c \in Callbacks, SuppressOK(c), [Next]_vars, Undisturbed(c), c \notin overtaken,
         ~OnChange, ~RunStep, ~HandoverStep, ~\E q \in Realms : DeliveryStep(q) \/ CommitTransaction(q),
         ~\E q \in Realms : \E cs \in SUBSET Callbacks : SuppressNextNotification(q, cs)
  PROVE  SuppressOK(c)'
  <1> DEFINE n == NotifierOf[c]
             r == RealmOf[n]
  <1>0. FullInv /\ Base /\ TypeOK /\ PlaceInv /\ CallbackOK(c) /\ n \in Notifiers /\ r \in Realms
        /\ Nobody \notin Realms
    BY FullFacts DEF PacedInv
  <1>1. UNCHANGED <<worker, found>> /\ HandingOver(n)' = HandingOver(n)
    BY <1>0, NotWorking
  <1>2. ASSUME NEW q \in Realms, QuietStep(q)
        PROVE  SuppressOK(c)'
    <2>1. \/ SendingDone(q) \/ SetAutoRefresh(q) \/ Refresh(q) \/ BeginTransaction(q)
          \/ CancelTransaction(q)
      BY <1>2 DEF QuietStep
    <2>2. /\ UNCHANGED <<skip, askVars, noteVars, callVars>>
      BY <2>1 DEF SendingDone, SetAutoRefresh, Refresh, BeginTransaction, CancelTransaction, workVars
    <2>3. writer = r /\ at[r] = "commit" => writer' = r /\ at'[r] = "commit"
      <3>1. q # r => at'[r] = at[r]
        BY <1>0, <1>2, QuietStepFrame
      <3>2. writer = r /\ at[r] = "commit" => q # r /\ writer' = writer
        BY <1>0, <2>1 DEF SendingDone, SetAutoRefresh, Refresh, BeginTransaction, CancelTransaction,
                          Writing
      <3>. QED
        BY <3>1, <3>2
    <2>4. Awaits(c) => Awaits(c)'
      BY <1>1, <2>2, <2>3 DEF Awaits, askVars, noteVars
    <2>. QED
      BY <1>0, <1>1, <2>2, <2>4, SuppressFrame DEF callVars, askVars
  <1>3. ASSUME NEW m \in Notifiers, PrepareAsync(m) \/ Unregister(m)
        PROVE  SuppressOK(c)'
    <2>1. UNCHANGED <<realmVars, askVars, callVars, skip>>
      BY <1>3 DEF PrepareAsync, Unregister, workVars
    <2>2. skipNext[c] => place[n] # "none"
      BY <1>0 DEF CallbackOK, PlaceInv
    <2>3. skipNext[c] => nver'[n] = nver[n]
      BY <1>0, <1>3, <2>2, RegistrationRaises
    <2>4. skipNext[c] /\ Awaits(c) => Awaits(c)'
      BY <1>1, <2>1, <2>3 DEF Awaits, realmVars, askVars
    <2>. QED
      BY <1>0, <1>1, <2>1, <2>4, SuppressFrame DEF callVars, askVars
  <1>4. ASSUME NEW d \in Callbacks, AddCallback(d)
        PROVE  SuppressOK(c)'
    <2>1. UNCHANGED <<realmVars, askVars, nver, skip, skipNext, initial, dropped, since>>
      BY <1>0, <1>4, AddFacts DEF noteVars, workVars
    <2>2. Awaits(c) => Awaits(c)'
      BY <1>1, <2>1 DEF Awaits, realmVars, askVars
    <2>. QED
      BY <1>0, <1>1, <2>1, <2>2, SuppressFrame DEF askVars
  <1>5. ASSUME NEW d \in Callbacks, RemoveCallback(d)
        PROVE  SuppressOK(c)'
    <2>1. CASE c = d
      BY <1>0, <1>5, <2>1, RemovedFrame DEF SuppressOK, NoNews
    <2>2. CASE c # d
      <3>1. /\ UNCHANGED <<writer, at, nver, skip>>
            /\ UNCHANGED <<quiet[c], skipNext[c], initial[c], dropped[c], since[c]>>
            /\ c \in asked' <=> c \in asked
        BY <1>0, <1>5, <2>2, RemovedFrame DEF realmVars, noteVars, workVars
      <3>2. Awaits(c) => Awaits(c)'
        BY <1>1, <3>1 DEF Awaits
      <3>. QED
        BY <1>0, <1>1, <3>1, <3>2, SuppressFrame
    <2>. QED
      BY <2>1, <2>2
  <1>6. CASE OtherCommit \/ Unseen
    <2>1. UNCHANGED <<realmVars, askVars, noteVars, callVars, skip>>
      BY <1>6 DEF OtherCommit, Unseen, workVars
    <2>2. Awaits(c) => Awaits(c)'
      BY <1>1, <2>1 DEF Awaits, realmVars, askVars, noteVars
    <2>. QED
      BY <1>0, <1>1, <2>1, <2>2, SuppressFrame DEF callVars, askVars
  <1>. QED
    BY <1>2, <1>3, <1>4, <1>5, <1>6, NextForms

\* Only the end of a callback makes it one that was not overtaken.
LEMMA StaysOvertaken ==
  ASSUME Base, ThreadInv, PlaceInv, [Next]_vars, NEW c \in Callbacks, c \in overtaken,
         ~RemoveCallback(c)
  PROVE  c \in overtaken'
  <1>1. CASE OnChange \/ OtherCommit \/ Unseen
    BY <1>1 DEF OnChange, OtherCommit, Unseen, askVars
  <1>2. CASE RunStep \/ HandoverStep
    BY <1>2, RunStepFacts, HandoverStepFacts DEF askVars
  <1>3. ASSUME NEW q \in Realms, DeliveryStep(q)
        PROVE  c \in overtaken'
    BY <1>3, DeliveryFrame DEF askVars
  <1>4. ASSUME NEW q \in Realms, QuietStep(q)
        PROVE  c \in overtaken'
    BY <1>4 DEF QuietStep, SendingDone, SetAutoRefresh, Refresh, BeginTransaction,
       SuppressNextNotification, CommitTransaction, CancelTransaction, askVars
  <1>5. ASSUME NEW n \in Notifiers, PrepareAsync(n) \/ Unregister(n)
        PROVE  c \in overtaken'
    BY <1>5 DEF PrepareAsync, Unregister, askVars
  <1>6. ASSUME NEW d \in Callbacks, AddCallback(d)
        PROVE  c \in overtaken'
    BY <1>6 DEF AddCallback, askVars
  <1>7. ASSUME NEW d \in Callbacks, RemoveCallback(d)
        PROVE  c \in overtaken'
    BY <1>7 DEF RemoveCallback
  <1>. QED
    BY <1>1, <1>2, <1>3, <1>4, <1>5, <1>6, <1>7, NextForms

LEMMA NextSuppress == PacedInv /\ SuppressInv /\ [Next]_vars => SuppressInv'
  <1> SUFFICES ASSUME PacedInv, SuppressInv, [Next]_vars, NEW c \in Callbacks, Undisturbed(c)',
                      c \notin overtaken'
               PROVE  SuppressOK(c)'
    BY DEF SuppressInv, SuppressOK
  <1>0. SuppressOK(c) /\ Undisturbed(c) /\ PaceInv' /\ TypeOK
    BY FullFacts, StaysUndisturbed, NextPace DEF SuppressInv, PacedInv
  <1>1. CASE RemoveCallback(c)
    BY <1>0, <1>1, RemovedFrame DEF SuppressOK, NoNews
  <1>2. CASE ~RemoveCallback(c)
    <2>0. c \notin overtaken
      BY <1>2, FullFacts, StaysOvertaken DEF PacedInv
    <2>1. CASE OnChange
      BY <1>0, <2>0, <2>1, SuppressOfOnChange
    <2>2. CASE RunStep
      BY <1>0, <2>0, <2>2, SuppressOfRun
    <2>3. CASE HandoverStep
      BY <1>0, <2>0, <2>3, SuppressOfHandover
    <2>4. ASSUME NEW q \in Realms, DeliveryStep(q)
          PROVE  SuppressOK(c)'
      BY <1>0, <2>0, <2>4, SuppressOfDelivery
    <2>5. ASSUME NEW q \in Realms, CommitTransaction(q)
          PROVE  SuppressOK(c)'
      BY <1>0, <2>0, <2>5, SuppressOfCommit
    <2>6. ASSUME NEW q \in Realms, NEW cs \in SUBSET Callbacks, SuppressNextNotification(q, cs)
          PROVE  SuppressOK(c)'
      BY <1>0, <2>0, <2>6, SuppressOfSuppress
    <2>. QED
      BY <1>0, <2>0, <2>1, <2>2, <2>3, <2>4, <2>5, <2>6, SuppressOfOthers
  <1>. QED
    BY <1>1, <1>2

\* RLMRealm.h, commitWriteTransactionWithoutNotifying: for any number of Realm
\* instances, a callback misses, of the commits after its first call, only those
\* it asked not to hear of, unless it is disturbed or a commit of another
\* instance with notifiers took the place of the skip version it waited for.
THEOREM OnlySuppressedCommitsAreDroppedHolds == Spec => []OnlySuppressedCommitsAreDropped
  <1>1. Init => PacedInv /\ SuppressInv
    <2>1. Init => SuppressInv
      BY DEF Init, SuppressInv, SuppressOK, NoNews
    <2>. QED
      BY <2>1, InitFull DEF PacedInv
  <1>2. PacedInv /\ SuppressInv /\ [Next]_vars => (PacedInv /\ SuppressInv)'
    BY NextFull, NextPace, NextSuppress DEF PacedInv
  <1>3. PacedInv /\ SuppressInv => OnlySuppressedCommitsAreDropped
    <2> SUFFICES ASSUME PacedInv, SuppressInv, NEW c \in Callbacks, Undisturbed(c),
                        c \notin overtaken, NEW v \in dropped[c], v > since[c]
                 PROVE  v \in quiet[c]
      BY DEF OnlySuppressedCommitsAreDropped
    <2>1. v <= since[c] \/ v \in quiet[c]
      BY DEF SuppressInv, SuppressOK, NoNews
    <2>2. v \in Nat /\ since[c] \in Nat
      BY Typed DEF PacedInv, FullInv, CoreInv, Base
    <2>. QED
      BY <2>1, <2>2
  <1>. QED
    BY <1>1, <1>2, <1>3, PTL DEF Spec
=============================================================================
