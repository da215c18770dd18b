------------------------- MODULE AsyncNotifiers_proofs -------------------------
(***************************************************************************)
(* Proofs about AsyncNotifiers, for any number of Realm instances,         *)
(* notifiers, callbacks and versions.                                      *)
(***************************************************************************)
EXTENDS AsyncNotifiers, TLAPS

-----------------------------------------------------------------------------
(***************************************************************************)
(* The background worker.  Its assertions are about the pin of the         *)
(* advancer and about the skip version.  The induction needs the order of  *)
(* the versions: Realms and notifiers are at versions that exist, a skip   *)
(* version is not behind a notifier that has run or is running, and the    *)
(* notifiers the worker runs are no longer new.                            *)
(***************************************************************************)

VersionsInv ==
  /\ latest \in Nat
  /\ rv \in [Realms -> 1 .. latest]
  /\ nver \in [Notifiers -> 0 .. latest]
  /\ place \in [Notifiers -> {"none", "new", "main", "gone"}]
  /\ \A n \in Notifiers : place[n] # "none" => nver[n] >= 1

PinInv ==
  /\ pin \in Nat
  /\ \A n \in NewNotifiers : 0 < pin /\ pin <= nver[n]
  /\ NewNotifiers = {} => pin = 0

SkipInv ==
  /\ skip \in 0 .. latest
  /\ skip # 0 => MainNotifiers # {}
  /\ skip # 0 => \A n \in MainNotifiers : nver[n] <= skip

WorkerStates ==
  [at : {"idle", "skip", "skipped", "rest", "ran"}, version : Nat, skip : Nat,
   old : SUBSET Notifiers, new : SUBSET Notifiers]

RunInv ==
  /\ worker \in WorkerStates
  /\ worker.at # "idle" =>
       /\ worker.version \in 1 .. latest
       /\ skip # 0 => worker.version < skip
       /\ \A n \in worker.old \cup worker.new :
            place[n] \in {"main", "gone"} /\ nver[n] <= worker.version
  /\ worker.at \in {"skip", "skipped"} =>
       /\ worker.old # {} /\ worker.skip \in 1 .. worker.version
       /\ \A n \in worker.old : nver[n] <= worker.skip

WorkerInv == VersionsInv /\ PinInv /\ SkipInv /\ RunInv

LEMMA InitWorker == Init => WorkerInv
  BY DEF Init, WorkerInv, VersionsInv, PinInv, SkipInv, RunInv, NewNotifiers, MainNotifiers, Idle,
         WorkerStates

\* A step that only moves Realms to other versions.
LEMMA RealmsMove ==
  ASSUME WorkerInv, UNCHANGED <<latest, noteVars, workVars>>, rv' \in [Realms -> 1 .. latest]
  PROVE  WorkerInv'
  BY DEF WorkerInv, VersionsInv, PinInv, SkipInv, RunInv, NewNotifiers, MainNotifiers, noteVars,
         workVars

\* A notifier is registered, or only its callbacks and its owner change.
LEMMA Registered ==
  ASSUME WorkerInv, NEW n \in Notifiers, UNCHANGED <<latest, rv, skip, worker>>,
         \/ UNCHANGED <<pin, place, nver>>
         \/ place[n] = "none" /\ RegisterNotifier(n)
  PROVE  WorkerInv'
  <1>0. /\ latest \in Nat /\ RealmOf[n] \in Realms /\ rv[RealmOf[n]] \in 1 .. latest
        /\ rv \in [Realms -> 1 .. latest] /\ pin \in Nat
        /\ nver \in [Notifiers -> 0 .. latest]
        /\ place \in [Notifiers -> {"none", "new", "main", "gone"}]
    BY NotifierAssumptions DEF WorkerInv, VersionsInv, PinInv
  <1>1. CASE UNCHANGED <<pin, place, nver>>
    BY <1>1 DEF WorkerInv, VersionsInv, PinInv, SkipInv, RunInv, NewNotifiers, MainNotifiers
  <1>2. CASE place[n] = "none" /\ RegisterNotifier(n)
    <2> DEFINE v == rv[RealmOf[n]]
    <2>1. /\ pin' = PinVersion(v)
          /\ place' = [place EXCEPT ![n] = "new"] /\ nver' = [nver EXCEPT ![n] = v]
      BY <1>2 DEF RegisterNotifier
    <2>2. v \in 1 .. latest
      BY <1>0
    <2> HIDE DEF v
    <2>3. /\ place' \in [Notifiers -> {"none", "new", "main", "gone"}]
          /\ nver' \in [Notifiers -> 0 .. latest]
          /\ place'[n] = "new" /\ nver'[n] = v
          /\ \A m \in Notifiers : m # n => place'[m] = place[m] /\ nver'[m] = nver[m]
      BY <1>0, <2>1, <2>2
    <2>4. VersionsInv'
      BY <1>0, <2>2, <2>3 DEF WorkerInv, VersionsInv
    <2>5. NewNotifiers' = NewNotifiers \cup {n}
      BY <2>3 DEF NewNotifiers
    <2>6. PinInv'
      <3>1. CASE NewNotifiers = {}
        BY <2>1, <2>2, <2>3, <2>5, <3>1 DEF PinInv, PinVersion
      <3>2. CASE NewNotifiers # {}
        <4>1. pin > 0 /\ n \notin NewNotifiers
          BY <1>0, <1>2, <3>2 DEF WorkerInv, PinInv, NewNotifiers
        <4>2. pin' \in Nat /\ 0 < pin' /\ pin' <= v /\ pin' <= pin
          BY <1>0, <2>1, <2>2, <3>2, <4>1 DEF PinVersion
        <4>3. \A m \in NewNotifiers : pin <= nver[m] /\ nver'[m] = nver[m] /\ nver[m] \in Nat
          BY <1>0, <2>3, <4>1 DEF WorkerInv, PinInv, NewNotifiers
        <4>. QED
          BY <1>0, <2>3, <2>5, <4>2, <4>3 DEF PinInv
      <3>. QED
        BY <3>1, <3>2
    <2>7. MainNotifiers' = MainNotifiers /\ n \notin MainNotifiers
      BY <1>2, <2>3 DEF MainNotifiers
    <2>8. SkipInv'
      BY <2>3, <2>7 DEF WorkerInv, SkipInv, MainNotifiers
    <2>9. RunInv'
      <3>1. worker.at # "idle" => n \notin worker.old \cup worker.new
        BY <1>2 DEF WorkerInv, RunInv
      <3>2. worker.old \subseteq Notifiers /\ worker.new \subseteq Notifiers
        BY DEF WorkerInv, RunInv, WorkerStates
      <3>. QED
        BY <2>3, <3>1, <3>2 DEF WorkerInv, RunInv
    <2>. QED
      BY <2>4, <2>6, <2>8, <2>9 DEF WorkerInv
  <1>. QED
    BY <1>1, <1>2

\* A commit, by a Realm with or without notifiers that have run or by others.
LEMMA Committed ==
  ASSUME WorkerInv, latest' = latest + 1, UNCHANGED <<noteVars, pin, worker>>,
         rv' \in [Realms -> 1 .. latest + 1],
         \/ UNCHANGED skip
         \/ MainNotifiers # {} /\ skip' = latest + 1
  PROVE  WorkerInv'
  <1>0. /\ latest \in Nat /\ UNCHANGED <<nver, place, NewNotifiers, MainNotifiers>>
        /\ nver \in [Notifiers -> 0 .. latest]
    BY DEF WorkerInv, VersionsInv, noteVars, NewNotifiers, MainNotifiers
  <1>1. VersionsInv'
    BY <1>0 DEF WorkerInv, VersionsInv
  <1>2. PinInv'
    BY <1>0 DEF WorkerInv, PinInv
  <1>3. SkipInv'
    <2>1. \A n \in MainNotifiers : nver[n] \in 0 .. latest
      BY <1>0 DEF MainNotifiers
    <2>. QED
      BY <1>0, <2>1 DEF WorkerInv, SkipInv
  <1>4. RunInv'
    BY <1>0 DEF WorkerInv, RunInv
  <1>. QED
    BY <1>1, <1>2, <1>3, <1>4 DEF WorkerInv

\* The lists after the dead notifiers are cleaned up.
LEMMA CleanedUp ==
  ASSUME WorkerInv, NEW gone, gone = Dead(MainNotifiers \cup NewNotifiers)
  PROVE  /\ NewNotifiers \cap gone = Dead(NewNotifiers)
         /\ MainNotifiers \cap gone = Dead(MainNotifiers)
         /\ SkipAfterCleanUp(MainNotifiers) \in {0, skip}
         /\ SkipAfterCleanUp(MainNotifiers) # 0 => MainNotifiers \ gone # {}
         /\ PinAfterCleanUp(NewNotifiers) \in {0, pin}
         /\ NewNotifiers \ gone # {} => PinAfterCleanUp(NewNotifiers) = pin
         /\ NewNotifiers \ gone = {} => PinAfterCleanUp(NewNotifiers) = 0
  <1>1. /\ NewNotifiers \cap gone = Dead(NewNotifiers)
        /\ MainNotifiers \cap gone = Dead(MainNotifiers)
    BY DEF Dead
  <1>2. /\ skip # 0 => MainNotifiers # {}
        /\ NewNotifiers = {} => pin = 0
    BY DEF WorkerInv, SkipInv, PinInv
  <1>. QED
    BY <1>1, <1>2 DEF SkipAfterCleanUp, PinAfterCleanUp

LEMMA OnChangeWorker == WorkerInv /\ OnChange => WorkerInv'
  <1> SUFFICES ASSUME WorkerInv, OnChange PROVE WorkerInv'
    OBVIOUS
  <1> DEFINE old == MainNotifiers \ Dead(MainNotifiers)
             new == NewNotifiers \ Dead(NewNotifiers)
             gone == Dead(MainNotifiers \cup NewNotifiers)
             skipVersion == SkipAfterCleanUp(MainNotifiers)
  <1>0. /\ latest \in Nat /\ latest' = latest /\ rv' = rv /\ nver' = nver
        /\ nver \in [Notifiers -> 0 .. latest] /\ skip \in 0 .. latest
        /\ place \in [Notifiers -> {"none", "new", "main", "gone"}]
        /\ worker.at = "idle"
    BY DEF OnChange, WorkerInv, VersionsInv, SkipInv
  <1>1. place' = [n \in Notifiers |-> IF n \in gone THEN "gone"
                                      ELSE IF n \in new THEN "main" ELSE place[n]]
    BY DEF OnChange
  <1>2. /\ old = MainNotifiers \ gone /\ new = NewNotifiers \ gone
        /\ skipVersion \in {0, skip} /\ (skipVersion # 0 => old # {})
        /\ PinAfterCleanUp(NewNotifiers) \in {0, pin}
        /\ (new = {} => PinAfterCleanUp(NewNotifiers) = 0)
    BY CleanedUp
  <1>3. \/ /\ old \cup new = {} /\ worker' = worker /\ skip' = skipVersion
           /\ pin' = PinAfterCleanUp(NewNotifiers)
        \/ old \cup new # {} /\ RunNotifiers(old, new, skipVersion)
    BY DEF OnChange
  <1>4. /\ gone \subseteq MainNotifiers \cup NewNotifiers
        /\ MainNotifiers \subseteq Notifiers /\ NewNotifiers \subseteq Notifiers
        /\ \A n \in MainNotifiers \cup NewNotifiers : place[n] \in {"main", "new"}
    BY DEF Dead, MainNotifiers, NewNotifiers
  <1> HIDE DEF old, new, gone, skipVersion
  <1>5. /\ place' \in [Notifiers -> {"none", "new", "main", "gone"}]
        /\ \A n \in Notifiers : place'[n] # "none" => place[n] # "none"
        /\ \A n \in old \cup new : place'[n] = "main"
    BY <1>0, <1>1, <1>2, <1>4 DEF MainNotifiers
  <1>6. NewNotifiers' = {} /\ MainNotifiers' = old \cup new
    BY <1>0, <1>1, <1>2, <1>4 DEF NewNotifiers, MainNotifiers
  <1>7. VersionsInv'
    BY <1>0, <1>5 DEF WorkerInv, VersionsInv
  <1>8. CASE /\ old \cup new = {} /\ worker' = worker /\ skip' = skipVersion
             /\ pin' = PinAfterCleanUp(NewNotifiers)
    <2>1. pin' = 0 /\ skip' = 0
      BY <1>2, <1>8
    <2>. QED
      BY <1>0, <1>6, <1>7, <1>8, <2>1 DEF WorkerInv, PinInv, SkipInv, RunInv
  <1>9. CASE old \cup new # {} /\ RunNotifiers(old, new, skipVersion)
    <2>1. /\ pin' = 0 /\ skip' = 0
          /\ worker' = [at |-> IF skipVersion # 0 THEN "skip" ELSE "rest", version |-> latest,
                        skip |-> skipVersion, old |-> old, new |-> new]
      BY <1>9 DEF RunNotifiers
    <2>2. latest >= 1
      <3>1. CASE skipVersion # 0
        BY <1>0, <1>2, <3>1
      <3>2. CASE skipVersion = 0
        <4>1. PICK n \in old \cup new : n \in Notifiers /\ place[n] # "none"
          BY <1>2, <1>4, <1>9
        <4>. QED
          BY <1>0, <4>1 DEF WorkerInv, VersionsInv
      <3>. QED
        BY <3>1, <3>2
    <2>3. old \subseteq Notifiers /\ new \subseteq Notifiers /\ skipVersion \in 0 .. latest
      BY <1>0, <1>2, <1>4
    <2>4. skipVersion # 0 => \A n \in old : nver[n] <= skipVersion
      BY <1>2 DEF WorkerInv, SkipInv
    <2>5. /\ worker'.at \in {"skip", "rest"} /\ worker'.version = latest
          /\ worker'.skip = skipVersion /\ worker'.old = old /\ worker'.new = new
          /\ worker'.at = "skip" => skipVersion # 0
          /\ worker' \in WorkerStates
      BY <1>0, <2>1, <2>3 DEF WorkerStates
    <2>6. RunInv'
      BY <1>0, <1>2, <1>5, <2>1, <2>2, <2>3, <2>4, <2>5 DEF RunInv
    <2>. QED
      BY <1>0, <1>6, <1>7, <2>1, <2>6 DEF WorkerInv, PinInv, SkipInv
  <1>. QED
    BY <1>3, <1>8, <1>9

\* The worker goes on to its next phase without handing over.
LEMMA RunWorker ==
  ASSUME WorkerInv, UNCHANGED <<latest, rv, place, pin, skip, nver>>,
         \/ worker.at = "skip" /\ worker' = [worker EXCEPT !.at = "skipped"]
         \/ worker.at = "rest" /\ worker' = [worker EXCEPT !.at = "ran"]
  PROVE  WorkerInv'
  <1>1. /\ worker'.version = worker.version /\ worker'.skip = worker.skip
        /\ worker'.old = worker.old /\ worker'.new = worker.new /\ worker' \in WorkerStates
        /\ worker.at # "idle"
        /\ worker'.at \in {"skip", "skipped"} => worker.at = "skip"
    BY DEF WorkerInv, RunInv, WorkerStates
  <1>2. UNCHANGED <<NewNotifiers, MainNotifiers>>
    BY DEF NewNotifiers, MainNotifiers
  <1>3. RunInv'
    BY <1>1 DEF WorkerInv, RunInv
  <1>. QED
    BY <1>2, <1>3 DEF WorkerInv, VersionsInv, PinInv, SkipInv

\* Notifiers of the worker hand over at version v.
LEMMA HandedOver ==
  ASSUME WorkerInv, worker.at # "idle", NEW ns, ns \subseteq worker.old \cup worker.new,
         NEW v \in 1 .. worker.version, PrepareHandover(ns, v)
  PROVE  /\ nver' \in [Notifiers -> 0 .. latest]
         /\ \A n \in ns : nver'[n] = v
         /\ \A n \in Notifiers \ ns : nver'[n] = nver[n]
         /\ \A n \in Notifiers : place[n] # "none" => nver'[n] >= 1
         /\ \A n \in NewNotifiers : nver'[n] = nver[n]
         /\ \A n \in worker.old \cup worker.new : nver'[n] <= worker.version
         /\ skip # 0 => \A n \in MainNotifiers : nver'[n] <= skip
  <1>1. nver' = [n \in Notifiers |-> IF n \in ns THEN v ELSE nver[n]]
    BY DEF PrepareHandover
  <1>2. /\ latest \in Nat /\ worker.version \in 1 .. latest /\ skip \in 0 .. latest
        /\ skip # 0 => worker.version < skip
        /\ nver \in [Notifiers -> 0 .. latest]
        /\ \A n \in Notifiers : place[n] # "none" => nver[n] >= 1
        /\ skip # 0 => \A n \in MainNotifiers : nver[n] <= skip
    BY DEF WorkerInv, VersionsInv, SkipInv, RunInv
  <1>3. /\ worker.old \cup worker.new \subseteq Notifiers
        /\ \A n \in worker.old \cup worker.new :
             place[n] \in {"main", "gone"} /\ nver[n] <= worker.version
    BY DEF WorkerInv, RunInv, WorkerStates
  <1>4. NewNotifiers \cap ns = {} /\ NewNotifiers \subseteq Notifiers /\ MainNotifiers \subseteq Notifiers
    BY <1>3 DEF NewNotifiers, MainNotifiers
  <1>. QED
    BY <1>1, <1>2, <1>3, <1>4

LEMMA HandoverAtSkipVersionWorker == WorkerInv /\ HandoverAtSkipVersion => WorkerInv'
  <1> SUFFICES ASSUME WorkerInv, HandoverAtSkipVersion PROVE WorkerInv'
    OBVIOUS
  <1>0. /\ worker.at = "skipped" /\ PrepareHandover(worker.old, worker.skip)
        /\ worker' = [worker EXCEPT !.at = "rest"]
        /\ UNCHANGED <<latest, rv, place, pin, skip, NewNotifiers, MainNotifiers>>
    BY DEF HandoverAtSkipVersion, realmVars, NewNotifiers, MainNotifiers
  <1>1. worker.skip \in 1 .. worker.version /\ worker.at # "idle"
    BY <1>0 DEF WorkerInv, RunInv
  <1>2. /\ nver' \in [Notifiers -> 0 .. latest]
        /\ \A n \in Notifiers : place[n] # "none" => nver'[n] >= 1
        /\ \A n \in NewNotifiers : nver'[n] = nver[n]
        /\ \A n \in worker.old \cup worker.new : nver'[n] <= worker.version
        /\ skip # 0 => \A n \in MainNotifiers : nver'[n] <= skip
    BY <1>0, <1>1, HandedOver
  <1>3. VersionsInv' /\ PinInv' /\ SkipInv'
    BY <1>0, <1>2 DEF WorkerInv, VersionsInv, PinInv, SkipInv
  <1>4. /\ worker'.at = "rest" /\ worker'.version = worker.version /\ worker'.old = worker.old
        /\ worker'.new = worker.new /\ worker' \in WorkerStates
    BY <1>0 DEF WorkerInv, RunInv, WorkerStates
  <1>5. RunInv'
    BY <1>0, <1>1, <1>2, <1>4 DEF WorkerInv, RunInv
  <1>. QED
    BY <1>3, <1>5 DEF WorkerInv

LEMMA HandoverAtVersionWorker == WorkerInv /\ HandoverAtVersion => WorkerInv'
  <1> SUFFICES ASSUME WorkerInv, HandoverAtVersion PROVE WorkerInv'
    OBVIOUS
  <1> DEFINE gone == Dead(MainNotifiers \cup NewNotifiers)
  <1>0. /\ worker.at = "ran" /\ PrepareHandover(worker.old \cup worker.new, worker.version)
        /\ worker' = Idle /\ UNCHANGED <<latest, rv>>
        /\ place' = [n \in Notifiers |-> IF n \in gone THEN "gone" ELSE place[n]]
        /\ pin' = PinAfterCleanUp(NewNotifiers) /\ skip' = SkipAfterCleanUp(MainNotifiers)
    BY DEF HandoverAtVersion
  <1>1. /\ skip' \in {0, skip} /\ (skip' # 0 => MainNotifiers \ gone # {})
        /\ (NewNotifiers \ gone # {} => pin' = pin)
        /\ (NewNotifiers \ gone = {} => pin' = 0)
    BY <1>0, CleanedUp
  <1>2. gone \subseteq MainNotifiers \cup NewNotifiers
    BY DEF Dead
  <1> HIDE DEF gone
  <1>3. worker.version \in 1 .. worker.version /\ worker.at # "idle"
    BY <1>0 DEF WorkerInv, VersionsInv, RunInv
  <1>4. /\ nver' \in [Notifiers -> 0 .. latest]
        /\ \A n \in Notifiers : place[n] # "none" => nver'[n] >= 1
        /\ \A n \in NewNotifiers : nver'[n] = nver[n]
        /\ skip # 0 => \A n \in MainNotifiers : nver'[n] <= skip
    BY <1>0, <1>3, HandedOver
  <1>5. /\ place' \in [Notifiers -> {"none", "new", "main", "gone"}]
        /\ \A n \in Notifiers : place'[n] # "none" => place[n] # "none"
    BY <1>0, <1>2 DEF WorkerInv, VersionsInv, MainNotifiers, NewNotifiers
  <1>6. NewNotifiers' = NewNotifiers \ gone /\ MainNotifiers' = MainNotifiers \ gone
    BY <1>0 DEF NewNotifiers, MainNotifiers
  <1>7. VersionsInv'
    BY <1>0, <1>4, <1>5 DEF WorkerInv, VersionsInv
  <1>8. PinInv'
    BY <1>1, <1>4, <1>6 DEF WorkerInv, PinInv
  <1>9. SkipInv'
    BY <1>0, <1>1, <1>4, <1>6 DEF WorkerInv, SkipInv, VersionsInv
  <1>10. RunInv'
    BY <1>0 DEF RunInv, Idle, WorkerStates
  <1>. QED
    BY <1>7, <1>8, <1>9, <1>10 DEF WorkerInv

\* Steps of the threads other than commits.
LEMMA RealmStepMoves ==
  ASSUME WorkerInv, NEW r \in Realms, RealmStep(r), ~CommitTransaction(r)
  PROVE  UNCHANGED <<latest, noteVars, workVars>> /\ rv' \in [Realms -> 1 .. latest]
  <1>0. /\ latest \in Nat /\ rv \in [Realms -> 1 .. latest]
        /\ nver \in [Notifiers -> 0 .. latest]
        /\ \A n \in Notifiers : place[n] # "none" => nver[n] >= 1
    BY DEF WorkerInv, VersionsInv
  <1>1. \A n \in HaveRun(r) : nver[n] \in 1 .. latest
    BY <1>0 DEF HaveRun, NotifiersForRealm, NewNotifiers, MainNotifiers
  <1>2. latest \in 1 .. latest
    BY <1>0
  <1>3. \A v \in 1 .. latest : [rv EXCEPT ![r] = v] \in [Realms -> 1 .. latest]
    BY <1>0
  <1>4. CASE Notify(r)
    <2>1. rv' = rv \/ \E v \in 1 .. latest : rv' = [rv EXCEPT ![r] = v]
      BY <1>1, <1>2, <1>4 DEF Notify, AdvanceToReady, ProcessAvailableAsync
    <2>. QED
      BY <1>0, <1>3, <1>4, <2>1 DEF Notify
  <1>5. CASE RefreshDone(r)
    <2>1. \E v \in 1 .. latest : rv' = [rv EXCEPT ![r] = v]
      BY <1>1, <1>2, <1>5 DEF RefreshDone
    <2>. QED
      BY <1>0, <1>3, <1>5, <2>1 DEF RefreshDone
  <1>6. CASE BeginTransaction(r)
    BY <1>0, <1>2, <1>3, <1>6 DEF BeginTransaction
  <1>7. CASE \/ SendingDone(r) \/ SetAutoRefresh(r) \/ Refresh(r) \/ BeginDone(r)
             \/ CancelTransaction(r)
             \/ \E cs \in SUBSET Callbacks : SuppressNextNotification(r, cs)
    BY <1>0, <1>7 DEF SendingDone, SetAutoRefresh, Refresh, BeginDone, CancelTransaction,
                      SuppressNextNotification
  <1>. QED
    BY <1>4, <1>5, <1>6, <1>7 DEF RealmStep

LEMMA NextWorker == WorkerInv /\ [Next]_vars => WorkerInv'
  <1> SUFFICES ASSUME WorkerInv, [Next]_vars PROVE WorkerInv'
    OBVIOUS
  <1>0. latest \in Nat /\ rv \in [Realms -> 1 .. latest]
    BY DEF WorkerInv, VersionsInv
  <1>1. CASE UNCHANGED vars
    BY <1>0, <1>1, RealmsMove DEF vars, realmVars
  <1>2. CASE Work
    <2>1. CASE RunToSkipVersion \/ RunToVersion
      BY <2>1, RunWorker DEF RunToSkipVersion, RunToVersion, realmVars
    <2>. QED
      BY <1>2, <2>1, OnChangeWorker, HandoverAtSkipVersionWorker, HandoverAtVersionWorker DEF Work
  <1>3. ASSUME NEW r \in Realms, RealmStep(r), ~CommitTransaction(r)
        PROVE  WorkerInv'
    BY <1>3, RealmStepMoves, RealmsMove
  <1>4. ASSUME NEW r \in Realms, CommitTransaction(r)
        PROVE  WorkerInv'
    <2>1. /\ latest' = latest + 1 /\ rv' = [rv EXCEPT ![r] = latest + 1]
          /\ UNCHANGED <<noteVars, pin, worker>> /\ skip' = SkipAfterCommit(r)
      BY <1>4 DEF CommitTransaction
    <2>2. rv' \in [Realms -> 1 .. latest + 1]
      BY <1>0, <2>1
    <2>3. UNCHANGED skip \/ (MainNotifiers # {} /\ skip' = latest + 1)
      BY <2>1 DEF SkipAfterCommit
    <2>. QED
      BY <2>1, <2>2, <2>3, Committed
  <1>5. CASE OtherCommit
    <2>1. latest' = latest + 1 /\ UNCHANGED <<rv, noteVars, pin, skip, worker>>
      BY <1>5 DEF OtherCommit, realmVars, workVars
    <2>2. rv' \in [Realms -> 1 .. latest + 1]
      BY <1>0, <2>1
    <2>. QED
      BY <2>1, <2>2, Committed
  <1>6. ASSUME NEW n \in Notifiers, PrepareAsync(n) \/ Unregister(n)
        PROVE  WorkerInv'
    <2>1. /\ UNCHANGED <<latest, rv, skip, worker>>
          /\ \/ UNCHANGED <<pin, place, nver>>
             \/ place[n] = "none" /\ RegisterNotifier(n)
      BY <1>6 DEF PrepareAsync, Unregister, realmVars, workVars
    <2>. QED
      BY <2>1, Registered
  <1>7. ASSUME NEW c \in Callbacks, WakeUp(c) \/ AddCallback(c) \/ RemoveCallback(c)
        PROVE  WorkerInv'
    BY <1>0, <1>7, RealmsMove DEF WakeUp, AddCallback, RemoveCallback, realmVars
  <1>. QED
    BY <1>1, <1>2, <1>3, <1>4, <1>5, <1>6, <1>7 DEF Next

(***************************************************************************)
(* The assertions of run_async_notifiers hold, and the advancer never      *)
(* reads a version newer than that of a notifier still to be brought up to *)
(* date, nor any when there is none (pin_version, clean_up_dead_notifiers, *)
(* commit_write).                                                          *)
(***************************************************************************)
THEOREM WorkerAssertionsHoldAlways == Spec => []WorkerAssertionsHold
  <1>1. WorkerInv => WorkerAssertionsHold
    BY DEF WorkerInv, PinInv, RunInv, WorkerAssertionsHold
  <1>. QED
    BY <1>1, InitWorker, NextWorker, PTL DEF Spec

-----------------------------------------------------------------------------
(***************************************************************************)
(* Types.  TypeOK is taken apart into the groups of variables that actions *)
(* leave unchanged together.                                               *)
(***************************************************************************)

RealmTypes ==
  /\ writer \in Realms \cup {Nobody}
  /\ rv \in [Realms -> Versions]
  /\ at \in [Realms -> {"idle", "refresh", "begin", "commit", "sending"}]
  /\ target \in [Realms -> Versions]
  /\ notified \subseteq Realms
  /\ auto \in [Realms -> BOOLEAN]

AskTypes ==
  /\ asked \subseteq Callbacks
  /\ quiet \in [Callbacks -> SUBSET Versions]
  /\ overtaken \subseteq Callbacks

NoteTypes ==
  /\ place \in [Notifiers -> {"none", "new", "main", "gone"}]
  /\ alive \in [Notifiers -> BOOLEAN]
  /\ nver \in [Notifiers -> Versions]
  /\ hasRun \in [Notifiers -> BOOLEAN]
  /\ ran \in [Notifiers -> Versions]
  /\ found \in [Notifiers -> SUBSET Versions]

FlagTypes ==
  /\ on \in [Callbacks -> {"unused", "on", "off"}]
  /\ have \in [Notifiers -> BOOLEAN]
  /\ skipNext \in [Callbacks -> BOOLEAN]
  /\ initial \in [Callbacks -> BOOLEAN]

ChangeTypes ==
  /\ acc \in [Callbacks -> SUBSET Versions]
  /\ deliver \in [Callbacks -> SUBSET Versions]
  /\ told \in [Callbacks -> SUBSET Versions]
  /\ dropped \in [Callbacks -> SUBSET Versions]
  /\ since \in [Callbacks -> Versions]
  /\ shown \in [Callbacks -> Versions]

WorkTypes ==
  /\ pin \in Versions
  /\ skip \in Versions
  /\ worker \in [at : {"idle", "skip", "skipped", "rest", "ran"}, version : Versions,
                 skip : Versions, old : SUBSET Notifiers, new : SUBSET Notifiers]

WakeTypes == wake \in BOOLEAN /\ adding \subseteq Callbacks

HistTypes == nested \in BOOLEAN /\ looked \subseteq Notifiers /\ late \subseteq Callbacks

TypedParts ==
  /\ latest \in Versions /\ WakeTypes
  /\ RealmTypes /\ AskTypes /\ NoteTypes /\ FlagTypes /\ ChangeTypes /\ WorkTypes /\ HistTypes

LEMMA TypeParts == (TypeOK <=> TypedParts) /\ (TypeOK' <=> TypedParts')
  BY DEF TypeOK, TypedParts, RealmTypes, AskTypes, NoteTypes, FlagTypes, ChangeTypes, WorkTypes,
         WakeTypes, HistTypes

LEMMA VersionsSet ==
  /\ Versions \subseteq Nat /\ 0 \in Versions
  /\ \A v \in Versions : \A u \in Nat : u <= v => u \in Versions
  /\ \A u \in Nat, v \in Versions : u + 1 .. v \subseteq Versions
  BY NotifierAssumptions DEF Versions

\* What delivery does to the callbacks.
LEMMA PackageTypes ==
  ASSUME FlagTypes, ChangeTypes, NEW ns, NEW v \in Versions,
         Package(ns) \/ PackageAndCall(ns, v) \/ UNCHANGED callVars
  PROVE  FlagTypes' /\ ChangeTypes'
  <1>0. 0 \in Versions
    BY VersionsSet
  <1>1. CASE UNCHANGED callVars
    BY <1>1 DEF FlagTypes, ChangeTypes, callVars
  <1>2. CASE Package(ns)
    <2>1. FlagTypes'
      BY <1>2 DEF Package, FlagTypes
    <2>2. ChangeTypes'
      BY <1>2 DEF Package, ChangeTypes
    <2>. QED
      BY <2>1, <2>2
  <1>3. CASE PackageAndCall(ns, v)
    <2> DEFINE cs == CallbacksOf(ns)
    <2>1. /\ acc' = [c \in Callbacks |-> IF c \in cs THEN {} ELSE acc[c]]
          /\ deliver' = [c \in Callbacks |-> IF c \in cs THEN {} ELSE deliver[c]]
          /\ told' = [c \in Callbacks |->
                        IF c \in cs /\ initial[c] THEN told[c] \cup acc[c] ELSE told[c]]
          /\ since' = [c \in Callbacks |-> IF c \in cs /\ ~initial[c] THEN v ELSE since[c]]
          /\ shown' = [c \in Callbacks |-> IF c \in cs THEN v ELSE shown[c]]
          /\ initial' = [c \in Callbacks |-> initial[c] \/ c \in cs]
          /\ UNCHANGED <<on, have, skipNext, dropped>>
      BY <1>3 DEF PackageAndCall
    <2> HIDE DEF cs
    <2>2. FlagTypes'
      BY <2>1 DEF FlagTypes
    <2>3. ChangeTypes'
      BY <2>1 DEF ChangeTypes
    <2>. QED
      BY <2>2, <2>3
  <1>. QED
    BY <1>1, <1>2, <1>3

\* Steps of one thread, other than a commit.
LEMMA RealmStepTypes ==
  ASSUME TypeOK, WorkerInv, NEW r \in Realms, RealmStep(r), ~CommitTransaction(r)
  PROVE  TypeOK'
  <1>0. /\ latest \in Versions /\ WakeTypes
        /\ RealmTypes /\ AskTypes /\ NoteTypes /\ FlagTypes /\ ChangeTypes
        /\ WorkTypes /\ HistTypes
    BY TypeParts DEF TypedParts
  <1>1. 0 \in Versions /\ \A n \in Notifiers : nver[n] \in Versions
    BY <1>0, VersionsSet DEF NoteTypes
  <1>2. HaveRun(r) \subseteq Notifiers
    BY DEF HaveRun, NotifiersForRealm, NewNotifiers, MainNotifiers
  <1>3. UNCHANGED <<latest, noteVars, workVars>> /\ rv' \in [Realms -> 1 .. latest]
    BY RealmStepMoves
  <1>4. latest' \in Versions /\ NoteTypes' /\ WorkTypes' /\ rv' \in [Realms -> Versions]
    <2>1. 1 .. latest \subseteq Versions
      BY <1>0, VersionsSet DEF Versions
    <2>. QED
      BY <1>0, <1>3, <2>1 DEF NoteTypes, WorkTypes, noteVars, workVars
  <1>5. CASE Notify(r) \/ RefreshDone(r) \/ BeginDone(r)
    <2>1. \E ns \in SUBSET Notifiers, v \in Versions :
            Package(ns) \/ PackageAndCall(ns, v) \/ UNCHANGED callVars
      <3>1. CASE Notify(r)
        BY <1>0, <1>1, <1>2, <3>1
        DEF Notify, AdvanceToReady, ProcessAvailableAsync, RealmTypes
      <3>2. CASE RefreshDone(r)
        BY <1>1, <1>2, <3>2 DEF RefreshDone
      <3>3. CASE BeginDone(r)
        BY <1>0, <1>1, <1>2, <3>3 DEF BeginDone, RealmTypes
      <3>. QED
        BY <1>5, <3>1, <3>2, <3>3
    <2>2. FlagTypes' /\ ChangeTypes'
      BY <1>0, <2>1, PackageTypes
    <2>3. /\ UNCHANGED <<writer, auto, askVars, wakeVars, histVars>> /\ notified' \subseteq notified
          /\ target' \in {target, [target EXCEPT ![r] = 0]}
          /\ \E x \in {"idle", "sending"} : at' \in {at, [at EXCEPT ![r] = x]}
      BY <1>5 DEF Notify, RefreshDone, BeginDone, AdvanceToReady, ProcessAvailableAsync, AfterCalls
    <2>4. RealmTypes'
      BY <1>0, <1>1, <1>4, <2>3 DEF RealmTypes
    <2>. QED
      BY <1>0, <1>4, <2>2, <2>3, <2>4, TypeParts
      DEF TypedParts, AskTypes, WakeTypes, HistTypes, askVars, wakeVars, histVars
  <1>6. CASE \/ SendingDone(r) \/ SetAutoRefresh(r) \/ Refresh(r) \/ BeginTransaction(r)
             \/ CancelTransaction(r)
    <2>1. /\ UNCHANGED <<notified, askVars, callVars, looked, late>>
          /\ nested' \in BOOLEAN /\ WakeTypes'
          /\ auto' \in {auto, [auto EXCEPT ![r] = ~auto[r]]}
      BY <1>0, <1>6 DEF SendingDone, SetAutoRefresh, Refresh, BeginTransaction, CancelTransaction,
                        histVars, wakeVars, HistTypes, WakeTypes
    <2>2. /\ writer' \in {writer, r, Nobody}
          /\ target' \in {target, [target EXCEPT ![r] = latest]}
          /\ \E x \in {"idle", "refresh", "begin"} : at' \in {at, [at EXCEPT ![r] = x]}
      BY <1>6 DEF SendingDone, SetAutoRefresh, Refresh, BeginTransaction, CancelTransaction
    <2>3. auto' \in [Realms -> BOOLEAN]
      BY <1>0, <2>1 DEF RealmTypes
    <2>4. RealmTypes'
      BY <1>0, <1>4, <2>1, <2>2, <2>3 DEF RealmTypes
    <2>. QED
      BY <1>0, <1>4, <2>1, <2>4, TypeParts
      DEF TypedParts, AskTypes, FlagTypes, ChangeTypes, HistTypes, askVars, callVars
  <1>7. ASSUME NEW cs \in SUBSET Callbacks, SuppressNextNotification(r, cs)
        PROVE  TypeOK'
    <2>1. /\ skipNext' = [c \in Callbacks |-> skipNext[c] \/ c \in cs] /\ asked' = cs
          /\ at' = [at EXCEPT ![r] = "commit"]
          /\ UNCHANGED <<writer, target, notified, auto, quiet, overtaken, on, have, initial, acc,
                         deliver, told, dropped, since, shown, wakeVars, histVars>>
      BY <1>7 DEF SuppressNextNotification
    <2>2. RealmTypes'
      BY <1>0, <1>4, <2>1 DEF RealmTypes
    <2>3. FlagTypes'
      BY <1>0, <2>1 DEF FlagTypes
    <2>. QED
      BY <1>0, <1>4, <2>1, <2>2, <2>3, TypeParts
      DEF TypedParts, AskTypes, ChangeTypes, WakeTypes, HistTypes, wakeVars, histVars
  <1>. QED
    BY <1>5, <1>6, <1>7 DEF RealmStep

LEMMA CommitTypes ==
  ASSUME TypeOK, WorkerInv, OtherCommit \/ \E r \in Realms : CommitTransaction(r)
  PROVE  TypeOK'
  <1>0. TypedParts
    BY TypeParts
  <1>1. latest + 1 \in Versions
    <2>1. latest < MaxVersion
      BY DEF OtherCommit, CommitTransaction
    <2>. QED
      BY <1>0, <2>1, NotifierAssumptions DEF TypedParts, Versions
  <1>2. CASE OtherCommit
    BY <1>0, <1>1, <1>2, TypeParts
    DEF OtherCommit, TypedParts, RealmTypes, AskTypes, NoteTypes, FlagTypes, ChangeTypes, WorkTypes,
        WakeTypes, HistTypes, realmVars, askVars, noteVars, callVars, workVars, histVars
  <1>3. ASSUME NEW r \in Realms, CommitTransaction(r)
        PROVE  TypeOK'
    <2>1. /\ latest' = latest + 1 /\ writer' = Nobody /\ rv' = [rv EXCEPT ![r] = latest + 1]
          /\ at' = [at EXCEPT ![r] = IF at[r] = "commit" THEN "idle" ELSE at[r]]
          /\ skip' \in {skip, latest + 1}
          /\ quiet' = [c \in Callbacks |->
                         quiet[c] \cup (IF c \in asked THEN {latest + 1} ELSE {})]
          /\ asked' = {} /\ wake' = TRUE /\ overtaken' = overtaken \cup Overtaken(r)
          /\ UNCHANGED <<target, notified, auto, noteVars, callVars, pin, worker, adding, histVars>>
      BY <1>3 DEF CommitTransaction, SkipAfterCommit
    <2>2. RealmTypes'
      BY <1>0, <1>1, <2>1 DEF TypedParts, RealmTypes
    <2>3. AskTypes'
      BY <1>0, <1>1, <2>1 DEF TypedParts, AskTypes, Overtaken
    <2>4. WorkTypes'
      BY <1>0, <1>1, <2>1 DEF TypedParts, WorkTypes
    <2>5. NoteTypes' /\ FlagTypes' /\ ChangeTypes' /\ HistTypes'
      BY <1>0, <2>1 DEF TypedParts, NoteTypes, FlagTypes, ChangeTypes, HistTypes, noteVars, callVars,
                        histVars
    <2>6. WakeTypes'
      BY <1>0, <2>1 DEF TypedParts, WakeTypes
    <2>. QED
      BY <1>1, <2>1, <2>2, <2>3, <2>4, <2>5, <2>6, TypeParts DEF TypedParts
  <1>. QED
    BY <1>2, <1>3

LEMMA RegistrationTypes ==
  ASSUME TypeOK, WorkerInv,
         \/ \E n \in Notifiers : PrepareAsync(n) \/ Unregister(n)
         \/ \E c \in Callbacks : WakeUp(c) \/ AddCallback(c) \/ RemoveCallback(c)
  PROVE  TypeOK'
  <1>0. TypedParts /\ 0 \in Versions
    BY TypeParts, VersionsSet
  <1>1. ASSUME NEW c \in Callbacks, WakeUp(c)
        PROVE  TypeOK'
    BY <1>0, <1>1, TypeParts
    DEF WakeUp, TypedParts, RealmTypes, AskTypes, NoteTypes, FlagTypes, ChangeTypes, WorkTypes,
        WakeTypes, HistTypes, realmVars, askVars, noteVars, callVars, workVars, histVars
  <1>2. ASSUME NEW n \in Notifiers, PrepareAsync(n)
        PROVE  TypeOK'
    <2>1. rv[RealmOf[n]] \in Versions
      BY <1>0, NotifierAssumptions DEF TypedParts, RealmTypes
    <2>2. NoteTypes' /\ WorkTypes'
      BY <1>0, <1>2, <2>1 DEF PrepareAsync, RegisterNotifier, PinVersion, TypedParts, NoteTypes,
                              WorkTypes
    <2>. QED
      BY <1>0, <1>2, <2>2, TypeParts
      DEF PrepareAsync, TypedParts, RealmTypes, AskTypes, FlagTypes, ChangeTypes, WakeTypes, HistTypes,
          realmVars, askVars, callVars, wakeVars, histVars
  <1>3. ASSUME NEW n \in Notifiers, Unregister(n)
        PROVE  TypeOK'
    BY <1>0, <1>3, TypeParts
    DEF Unregister, TypedParts, RealmTypes, AskTypes, NoteTypes, FlagTypes, ChangeTypes, WorkTypes,
        WakeTypes, HistTypes, realmVars, askVars, callVars, workVars, wakeVars, histVars
  <1>4. ASSUME NEW c \in Callbacks, AddCallback(c)
        PROVE  TypeOK'
    <2>1. NotifierOf[c] \in Notifiers
      BY NotifierAssumptions
    <2>2. FlagTypes'
      <3>1. /\ on' = [on EXCEPT ![c] = "on"] /\ UNCHANGED <<skipNext, initial>>
            /\ have' = [have EXCEPT ![NotifierOf[c]] = @ \/ c \in adding]
        BY <1>4 DEF AddCallback
      <3>2. have[NotifierOf[c]] \in BOOLEAN
        BY <1>0, <2>1 DEF TypedParts, FlagTypes
      <3>. QED
        BY <1>0, <2>1, <3>1, <3>2 DEF TypedParts, FlagTypes
    <2>3. WakeTypes' /\ HistTypes'
      BY <1>0, <1>4 DEF AddCallback, TypedParts, WakeTypes, HistTypes
    <2>. QED
      BY <1>0, <1>4, <2>2, <2>3, TypeParts
      DEF AddCallback, TypedParts, RealmTypes, AskTypes, NoteTypes, ChangeTypes, WorkTypes, realmVars,
          askVars, noteVars, workVars
  <1>5. ASSUME NEW c \in Callbacks, RemoveCallback(c)
        PROVE  TypeOK'
    <2>1. FlagTypes'
      BY <1>0, <1>5 DEF RemoveCallback, TypedParts, FlagTypes
    <2>2. ChangeTypes' /\ AskTypes'
      BY <1>0, <1>5 DEF RemoveCallback, TypedParts, ChangeTypes, AskTypes
    <2>. QED
      BY <1>0, <1>5, <2>1, <2>2, TypeParts
      DEF RemoveCallback, TypedParts, RealmTypes, NoteTypes, WorkTypes, WakeTypes, HistTypes, realmVars,
          noteVars, workVars, wakeVars, histVars
  <1>. QED
    BY <1>1, <1>2, <1>3, <1>4, <1>5

LEMMA WorkTypesKept ==
  ASSUME TypeOK, WorkerInv, Work
  PROVE  TypeOK'
  <1>0. TypedParts /\ 0 \in Versions
    BY TypeParts, VersionsSet
  <1>1. /\ worker.version \in Versions /\ worker.skip \in Versions
        /\ worker.old \subseteq Notifiers /\ worker.new \subseteq Notifiers
    BY <1>0 DEF TypedParts, WorkTypes
  <1>2. UNCHANGED <<latest, askVars>>
    BY DEF Work, OnChange, RunToSkipVersion, HandoverAtSkipVersion, RunToVersion, HandoverAtVersion
  <1>3. CASE OnChange
    <2> DEFINE old == MainNotifiers \ Dead(MainNotifiers)
               new == NewNotifiers \ Dead(NewNotifiers)
    <2>1. /\ place' \in [Notifiers -> {"none", "new", "main", "gone"}]
          /\ UNCHANGED <<writer, rv, at, target, auto, alive, nver, hasRun, ran, found, callVars,
                         adding, histVars>>
          /\ notified' \in {notified, Realms} /\ wake' = FALSE
      BY <1>0, <1>3 DEF OnChange, TypedParts, NoteTypes
    <2>2. old \subseteq Notifiers /\ new \subseteq Notifiers
      BY DEF MainNotifiers, NewNotifiers
    <2>3. \/ UNCHANGED worker /\ pin' \in {0, pin} /\ skip' \in {0, skip}
          \/ \E sv \in {0, skip} : RunNotifiers(old, new, sv)
      BY <1>3 DEF OnChange, PinAfterCleanUp, SkipAfterCleanUp
    <2> HIDE DEF old, new
    <2>4. WorkTypes'
      BY <1>0, <2>2, <2>3 DEF TypedParts, WorkTypes, RunNotifiers
    <2>. QED
      BY <1>0, <1>2, <2>1, <2>4, TypeParts
      DEF TypedParts, RealmTypes, AskTypes, NoteTypes, FlagTypes, ChangeTypes, WakeTypes, HistTypes,
          askVars, callVars, histVars
  <1>4. ASSUME NEW ns \in SUBSET Notifiers, NEW v \in Versions, Run(ns, v)
        PROVE  /\ ran' \in [Notifiers -> Versions] /\ found' \in [Notifiers -> SUBSET Versions]
               /\ looked' \subseteq Notifiers
    <2>1. \A n \in ns : Changes(n, v) \subseteq Versions
      <3> TAKE n \in ns
      <3>1. ran[n] \in Versions
        BY <1>0 DEF TypedParts, NoteTypes
      <3>. QED
        BY <3>1, VersionsSet DEF Changes
    <2>2. found' \in [Notifiers -> SUBSET Versions]
      BY <1>0, <1>4, <2>1 DEF Run, TypedParts, NoteTypes
    <2>3. ran' \in [Notifiers -> Versions] /\ looked' \subseteq Notifiers
      BY <1>0, <1>4 DEF Run, TypedParts, NoteTypes
    <2>. QED
      BY <2>2, <2>3
  <1>5. CASE RunToSkipVersion \/ RunToVersion
    <2>1. /\ ran' \in [Notifiers -> Versions] /\ found' \in [Notifiers -> SUBSET Versions]
          /\ looked' \subseteq Notifiers
      BY <1>1, <1>4, <1>5 DEF RunToSkipVersion, RunToVersion
    <2>2. /\ UNCHANGED <<realmVars, place, alive, nver, hasRun, callVars, pin, skip, wakeVars,
                         nested, late>>
          /\ \E x \in {"skipped", "ran"} : worker' = [worker EXCEPT !.at = x]
      BY <1>5 DEF RunToSkipVersion, RunToVersion
    <2>3. WorkTypes'
      BY <1>0, <2>2 DEF TypedParts, WorkTypes
    <2>. QED
      BY <1>0, <1>2, <2>1, <2>2, <2>3, TypeParts
      DEF TypedParts, RealmTypes, AskTypes, NoteTypes, FlagTypes, ChangeTypes, WakeTypes, HistTypes,
          realmVars, askVars, callVars, wakeVars
  <1>6. ASSUME NEW ns \in SUBSET Notifiers, NEW v \in Versions, PrepareHandover(ns, v)
        PROVE  /\ FlagTypes' /\ ChangeTypes' /\ HistTypes'
               /\ nver' \in [Notifiers -> Versions] /\ hasRun' \in [Notifiers -> BOOLEAN]
               /\ ran' \in [Notifiers -> Versions] /\ found' \in [Notifiers -> SUBSET Versions]
    <2> DEFINE reached == {c \in Callbacks : on[c] = "on" /\ NotifierOf[c] \in ns}
    <2>1. /\ nver' = [n \in Notifiers |-> IF n \in ns THEN v ELSE nver[n]]
          /\ hasRun' = [n \in Notifiers |-> hasRun[n] \/ n \in ns]
          /\ found' = [n \in Notifiers |-> IF n \in ns THEN {} ELSE found[n]]
          /\ acc' = [c \in Callbacks |-> IF c \in reached /\ ~skipNext[c]
                                         THEN acc[c] \cup found[NotifierOf[c]] ELSE acc[c]]
          /\ dropped' = [c \in Callbacks |-> IF c \in reached /\ skipNext[c]
                                             THEN dropped[c] \cup found[NotifierOf[c]]
                                             ELSE dropped[c]]
          /\ skipNext' = [c \in Callbacks |-> skipNext[c] /\ c \notin reached]
          /\ looked' = {}
          /\ UNCHANGED <<ran, on, have, initial, deliver, told, since, shown, nested, late>>
      BY <1>6 DEF PrepareHandover, Accumulated
    <2> HIDE DEF reached
    <2>2. \A c \in Callbacks : found[NotifierOf[c]] \subseteq Versions
      BY <1>0, NotifierAssumptions DEF TypedParts, NoteTypes
    <2>3. FlagTypes' /\ HistTypes'
      BY <1>0, <2>1 DEF TypedParts, FlagTypes, HistTypes
    <2>4. ChangeTypes'
      BY <1>0, <2>1, <2>2 DEF TypedParts, ChangeTypes
    <2>. QED
      BY <1>0, <2>1, <2>3, <2>4 DEF TypedParts, NoteTypes
  <1>7. CASE HandoverAtSkipVersion \/ HandoverAtVersion
    <2>1. /\ FlagTypes' /\ ChangeTypes' /\ HistTypes'
          /\ nver' \in [Notifiers -> Versions] /\ hasRun' \in [Notifiers -> BOOLEAN]
          /\ ran' \in [Notifiers -> Versions] /\ found' \in [Notifiers -> SUBSET Versions]
      BY <1>1, <1>6, <1>7 DEF HandoverAtSkipVersion, HandoverAtVersion
    <2>2. /\ UNCHANGED <<writer, rv, at, target, auto, alive, wakeVars>> /\ notified' \in {notified, Realms}
          /\ place' \in [Notifiers -> {"none", "new", "main", "gone"}]
          /\ pin' \in {0, pin} /\ skip' \in {0, skip}
          /\ worker' \in {Idle, [worker EXCEPT !.at = "rest"]}
      BY <1>0, <1>7 DEF HandoverAtSkipVersion, HandoverAtVersion, PinAfterCleanUp, SkipAfterCleanUp,
                        TypedParts, NoteTypes, realmVars
    <2>3. WorkTypes'
      BY <1>0, <2>2 DEF TypedParts, WorkTypes, Idle
    <2>. QED
      BY <1>0, <1>2, <2>1, <2>2, <2>3, TypeParts
      DEF TypedParts, RealmTypes, AskTypes, NoteTypes, WakeTypes, askVars, wakeVars
  <1>. QED
    BY <1>3, <1>5, <1>7 DEF Work

LEMMA InitType == Init => TypeOK
  <1>1. 0 \in Versions /\ 1 \in Versions
    BY NotifierAssumptions DEF Versions
  <1> SUFFICES ASSUME Init PROVE TypedParts
    BY TypeParts
  <1>2. RealmTypes /\ AskTypes /\ NoteTypes /\ HistTypes
    BY <1>1 DEF Init, RealmTypes, AskTypes, NoteTypes, HistTypes
  <1>3. FlagTypes /\ ChangeTypes
    BY <1>1 DEF Init, FlagTypes, ChangeTypes
  <1>4. WorkTypes
    BY <1>1 DEF Init, WorkTypes, Idle
  <1>. QED
    BY <1>1, <1>2, <1>3, <1>4 DEF Init, TypedParts, WakeTypes

(***************************************************************************)
(* Type correctness, for any number of Realms, notifiers and callbacks:    *)
(* packages, changes, the pin and the skip version are made of versions of *)
(* the file only.                                                          *)
(***************************************************************************)
THEOREM TypeOKHolds == Spec => []TypeOK
  <1>1. TypeOK /\ WorkerInv /\ [Next]_vars => TypeOK'
    <2> SUFFICES ASSUME TypeOK, WorkerInv, [Next]_vars PROVE TypeOK'
      OBVIOUS
    <2>1. CASE UNCHANGED vars
      BY <2>1 DEF vars, TypeOK, realmVars, askVars, noteVars, callVars, workVars, wakeVars, histVars
    <2>. QED
      BY <2>1, RealmStepTypes, CommitTypes, RegistrationTypes, WorkTypesKept DEF Next
  <1>. QED
    BY <1>1, InitType, InitWorker, NextWorker, PTL DEF Spec
=============================================================================
