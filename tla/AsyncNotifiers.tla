--------------------------- MODULE AsyncNotifiers ---------------------------
(***************************************************************************)
(* How change notifications reach their callbacks: RealmCoordinator with   *)
(* its background worker, CollectionNotifier with the callbacks of one     *)
(* Results, and the threads that notify, refresh and write a Realm.        *)
(*                                                                         *)
(* A commit is the version it makes, and every commit changes every        *)
(* collection: a set of changes is the set of commits it covers.           *)
(* Each action is one critical section of m_notifier_mutex, or a stretch   *)
(* of one thread between two of them.  Delivery (packaging under the lock, *)
(* advancing, calling) is one action: nobody else uses what was packaged.  *)
(* run() of the notifiers and prepare_handover() are two: the first reads  *)
(* m_have_callbacks without a lock, the second is for the callbacks        *)
(* registered by then.                                                     *)
(***************************************************************************)
EXTENDS Naturals, FiniteSets

CONSTANTS
  Realms,         \* Realm instances of the coordinator, each with its thread
  Notifiers,
  RealmOf,        \* RealmOf[n]: the Realm instance of the Results of n
  Callbacks,
  NotifierOf,     \* NotifierOf[c]: the notifier c is registered with
  Nobody,
  MaxVersion      \* bound: versions of the file

ASSUME NotifierAssumptions ==
  /\ RealmOf \in [Notifiers -> Realms]
  /\ NotifierOf \in [Callbacks -> Notifiers]
  /\ Nobody \notin Realms
  /\ MaxVersion \in Nat \ {0}

VARIABLES
  latest,    \* the latest version of the file
  writer,    \* the Realm that is in a write transaction
  rv,        \* rv[r]: read version of the Realm r
  at,        \* at[r]: what the thread of r is in
  target,    \* target[r]: the version package_and_wait waits for, while it does
  notified,  \* Realms with a call of notify() scheduled on their thread
  auto,      \* auto[r]: m_auto_refresh
  asked,     \* callbacks the current write transaction shall not notify
  quiet,     \* quiet[c]: commits made with c among those
  overtaken, \* history: callbacks whose suppressed commit is no longer the skip
             \* version, for a commit of another Realm instance was made
  place,     \* place[n]: in m_new_notifiers, in m_notifiers, or in neither
  alive,     \* alive[n]: the notifier is not unregistered
  nver,      \* nver[n]: m_sg_version
  hasRun,    \* hasRun[n]: m_has_run
  ran,       \* ran[n]: the version of m_previous_rows
  found,     \* found[n]: m_changes, from run() to prepare_handover()
  on,        \* on[c]: "unused", "on" or "off"
  have,      \* have[n]: m_have_callbacks
  skipNext,  \* skipNext[c]: skip_next
  initial,   \* initial[c]: initial_delivered
  acc,       \* acc[c]: accumulated_changes
  deliver,   \* deliver[c]: changes_to_deliver
  told,      \* told[c]: changes c was called with after its first call
  dropped,   \* dropped[c]: changes that skip_next kept from c
  since,     \* since[c]: version at the first call of c
  shown,     \* shown[c]: version at the last time c was called or passed over
  pin,       \* version m_advancer_sg reads, 0 when it reads none
  skip,      \* m_notifier_skip_version
  worker,    \* what the background worker is at
  wake,      \* the worker was woken up
  adding,    \* callbacks in add_callback, between the wake up and m_have_callbacks
  nested,    \* history: a callback began a write or registered a callback
  looked,    \* history: notifiers whose last run() looked for changes
  late       \* history: callbacks registered after a run() that did not look
             \* for changes and before its prepare_handover()

realmVars == <<writer, rv, at, target, notified, auto>>

askVars == <<asked, quiet, overtaken>>

noteVars == <<place, alive, nver, hasRun, ran, found>>

callVars == <<on, have, skipNext, initial, acc, deliver, told, dropped, since, shown>>

workVars == <<pin, skip, worker>>

wakeVars == <<wake, adding>>

histVars == <<nested, looked, late>>

vars == <<latest, realmVars, askVars, noteVars, callVars, workVars, wakeVars, histVars>>

Versions == 0 .. MaxVersion

Idle == [at |-> "idle", version |-> 0, skip |-> 0, old |-> {}, new |-> {}]

TypeOK ==
  /\ latest \in Versions
  /\ writer \in Realms \cup {Nobody}
  /\ rv \in [Realms -> Versions]
  /\ at \in [Realms -> {"idle", "refresh", "begin", "commit", "sending"}]
  /\ target \in [Realms -> Versions]
  /\ notified \subseteq Realms
  /\ auto \in [Realms -> BOOLEAN]
  /\ asked \subseteq Callbacks
  /\ quiet \in [Callbacks -> SUBSET Versions]
  /\ overtaken \subseteq Callbacks
  /\ place \in [Notifiers -> {"none", "new", "main", "gone"}]
  /\ alive \in [Notifiers -> BOOLEAN]
  /\ nver \in [Notifiers -> Versions]
  /\ hasRun \in [Notifiers -> BOOLEAN]
  /\ ran \in [Notifiers -> Versions]
  /\ found \in [Notifiers -> SUBSET Versions]
  /\ on \in [Callbacks -> {"unused", "on", "off"}]
  /\ have \in [Notifiers -> BOOLEAN]
  /\ skipNext \in [Callbacks -> BOOLEAN]
  /\ initial \in [Callbacks -> BOOLEAN]
  /\ acc \in [Callbacks -> SUBSET Versions]
  /\ deliver \in [Callbacks -> SUBSET Versions]
  /\ told \in [Callbacks -> SUBSET Versions]
  /\ dropped \in [Callbacks -> SUBSET Versions]
  /\ since \in [Callbacks -> Versions]
  /\ shown \in [Callbacks -> Versions]
  /\ pin \in Versions
  /\ skip \in Versions
  /\ worker \in [at : {"idle", "skip", "skipped", "rest", "ran"}, version : Versions,
                 skip : Versions, old : SUBSET Notifiers, new : SUBSET Notifiers]
  /\ wake \in BOOLEAN
  /\ adding \subseteq Callbacks
  /\ nested \in BOOLEAN
  /\ looked \subseteq Notifiers
  /\ late \subseteq Callbacks

Init ==
  /\ latest = 1
  /\ writer = Nobody
  /\ rv = [r \in Realms |-> 1]
  /\ at = [r \in Realms |-> "idle"]
  /\ target = [r \in Realms |-> 0]
  /\ notified = {}
  /\ auto = [r \in Realms |-> TRUE]
  /\ asked = {}
  /\ quiet = [c \in Callbacks |-> {}]
  /\ overtaken = {}
  /\ place = [n \in Notifiers |-> "none"]
  /\ alive = [n \in Notifiers |-> FALSE]
  /\ nver = [n \in Notifiers |-> 0]
  /\ hasRun = [n \in Notifiers |-> FALSE]
  /\ ran = [n \in Notifiers |-> 0]
  /\ found = [n \in Notifiers |-> {}]
  /\ on = [c \in Callbacks |-> "unused"]
  /\ have = [n \in Notifiers |-> FALSE]
  /\ skipNext = [c \in Callbacks |-> FALSE]
  /\ initial = [c \in Callbacks |-> FALSE]
  /\ acc = [c \in Callbacks |-> {}]
  /\ deliver = [c \in Callbacks |-> {}]
  /\ told = [c \in Callbacks |-> {}]
  /\ dropped = [c \in Callbacks |-> {}]
  /\ since = [c \in Callbacks |-> 0]
  /\ shown = [c \in Callbacks |-> 0]
  /\ pin = 0
  /\ skip = 0
  /\ worker = Idle
  /\ wake = FALSE
  /\ adding = {}
  /\ nested = FALSE
  /\ looked = {}
  /\ late = {}

-----------------------------------------------------------------------------
(***************************************************************************)
(* Registration.                                                           *)
(***************************************************************************)

NewNotifiers == {n \in Notifiers : place[n] = "new"}

MainNotifiers == {n \in Notifiers : place[n] = "main"}

\* notifiers_for_realm
NotifiersForRealm(r) ==
  {n \in NewNotifiers \cup MainNotifiers : alive[n] /\ RealmOf[n] = r}

\* m_callbacks of n, without the callbacks cs.
CallbacksBut(n, cs) == {c \in Callbacks \ cs : NotifierOf[c] = n /\ on[c] = "on"}

\* pin_version: m_advancer_sg reads the oldest version a new notifier is for.
PinVersion(v) == IF NewNotifiers = {} \/ v < pin THEN v ELSE pin

\* prepare_async and register_notifier, for a Results that has no notifier.
RegisterNotifier(n) ==
  /\ pin' = PinVersion(rv[RealmOf[n]])
  /\ place' = [place EXCEPT ![n] = "new"]
  /\ alive' = [alive EXCEPT ![n] = TRUE]
  /\ nver' = [nver EXCEPT ![n] = rv[RealmOf[n]]]

\* Nothing else runs on the thread of r while it is in add_callback.
ThreadFree(r) == \A c \in adding : RealmOf[NotifierOf[c]] # r

\* m_callback_mutex of n is not held by add_callback.
CallbackMutexFree(n) == \A c \in adding : NotifierOf[c] # n

\* A Results is used, or gets its first callback.
PrepareAsync(n) ==
  /\ at[RealmOf[n]] \in {"idle", "sending"} /\ writer # RealmOf[n]
  /\ ThreadFree(RealmOf[n])
  /\ place[n] = "none"
  /\ RegisterNotifier(n)
  /\ UNCHANGED <<latest, realmVars, askVars, hasRun, ran, found, callVars, skip, worker, wakeVars,
                 histVars>>

\* m_callback_index of n is npos, or is not: the thread is in the callbacks it
\* calls, those of n or those of another notifier.
MayBeQuiet(n) ==
  \/ at[RealmOf[n]] = "idle"
  \/ \E c \in Callbacks : RealmOf[NotifierOf[c]] = RealmOf[n] /\ NotifierOf[c] # n /\ on[c] # "unused"

MayBeCalling(n) ==
  at[RealmOf[n]] = "sending" /\ \E c \in Callbacks : NotifierOf[c] = n /\ on[c] # "unused"

\* add_notification_callback, for a Results that has its notifier.
MayAdd(c) ==
  LET n == NotifierOf[c]
      r == RealmOf[n]
  IN /\ at[r] \in {"idle", "sending"} /\ writer # r
     /\ place[n] \in {"new", "main"} /\ alive[n]
     /\ on[c] = "unused"

\* Variant with a bug: add_callback wakes nobody up.
WakeUpNobody(c) ==
  /\ MayAdd(c) /\ ThreadFree(RealmOf[NotifierOf[c]]) /\ MayBeQuiet(NotifierOf[c])
  /\ adding' = adding \cup {c}
  /\ UNCHANGED <<latest, realmVars, askVars, noteVars, callVars, workVars, wake, histVars>>

\* add_callback, up to the wake up of the worker, which then runs with the
\* m_have_callbacks of before.
WakeUp(c) ==
  /\ MayAdd(c) /\ ThreadFree(RealmOf[NotifierOf[c]]) /\ MayBeQuiet(NotifierOf[c])
  /\ adding' = adding \cup {c}
  /\ wake' = TRUE
  /\ UNCHANGED <<latest, realmVars, askVars, noteVars, callVars, workVars, histVars>>

\* The worker has called run() of n and not yet its prepare_handover().
HandingOver(n) ==
  \/ worker.at = "skipped" /\ n \in worker.old
  \/ worker.at = "ran" /\ n \in worker.old \cup worker.new

\* The end of add_callback: the callback is in m_callbacks when the mutex is
\* released.  While its notifier is calling callbacks, nobody was woken up, and
\* m_have_callbacks stays as it is.
AddCallback(c) ==
  LET n == NotifierOf[c]
  IN /\ MayAdd(c)
     /\ c \in adding \/ (ThreadFree(RealmOf[n]) /\ MayBeCalling(n))
     /\ on' = [on EXCEPT ![c] = "on"]
     /\ have' = [have EXCEPT ![n] = @ \/ c \in adding]
     /\ adding' = adding \ {c}
     /\ nested' = (nested \/ at[RealmOf[n]] = "sending")
     /\ late' = IF HandingOver(n) /\ hasRun[n] /\ n \notin looked THEN late \cup {c} ELSE late
     /\ UNCHANGED <<latest, realmVars, askVars, noteVars, skipNext, initial, acc, deliver, told,
                    dropped, since, shown, workVars, wake, looked>>

\* remove_callback, from any thread; the callback and its history are gone.
RemoveCallback(c) ==
  /\ on[c] = "on" /\ CallbackMutexFree(NotifierOf[c])
  /\ on' = [on EXCEPT ![c] = "off"]
  /\ have' = [have EXCEPT ![NotifierOf[c]] = CallbacksBut(NotifierOf[c], {c}) # {}]
  /\ skipNext' = [skipNext EXCEPT ![c] = FALSE]
  /\ initial' = [initial EXCEPT ![c] = FALSE]
  /\ acc' = [acc EXCEPT ![c] = {}]
  /\ deliver' = [deliver EXCEPT ![c] = {}]
  /\ told' = [told EXCEPT ![c] = {}]
  /\ dropped' = [dropped EXCEPT ![c] = {}]
  /\ since' = [since EXCEPT ![c] = 0]
  /\ shown' = [shown EXCEPT ![c] = 0]
  /\ asked' = asked \ {c}
  /\ quiet' = [quiet EXCEPT ![c] = {}]
  /\ overtaken' = overtaken \ {c}
  /\ UNCHANGED <<latest, realmVars, noteVars, workVars, wakeVars, histVars>>

\* unregister: the Results goes, which its callbacks would have kept.
Unregister(n) ==
  /\ alive[n] /\ CallbacksBut(n, {}) = {} /\ CallbackMutexFree(n)
  /\ alive' = [alive EXCEPT ![n] = FALSE]
  /\ UNCHANGED <<latest, realmVars, askVars, place, nver, hasRun, ran, found, callVars, workVars,
                 wakeVars, histVars>>

-----------------------------------------------------------------------------
(***************************************************************************)
(* The background worker: on_change and run_async_notifiers.               *)
(***************************************************************************)

Dead(ns) == {n \in ns : ~alive[n]}

\* Variant with a bug: the version pinned for new notifiers is not released.
PinAfterCleanUpKept(news) == pin

\* clean_up_dead_notifiers: the last notifier of a list takes the pin, or the
\* skip version, with it.
PinAfterCleanUp(news) ==
  IF Dead(news) # {} /\ news \subseteq Dead(news) THEN 0 ELSE pin

SkipAfterCleanUp(mains) ==
  IF Dead(mains) # {} /\ mains \subseteq Dead(mains) THEN 0 ELSE skip

\* Variant with a bug: the skip version is not looked at.
RunNotifiersWithoutSkip(old, new, skipVersion) ==
  /\ pin' = 0
  /\ skip' = 0
  /\ worker' = [at |-> "rest", version |-> latest, skip |-> 0, old |-> old, new |-> new]

\* The first critical section of run_async_notifiers, after the cleaning up:
\* new notifiers are brought to the latest version, which is the one to run at;
\* the skip version is taken, the lists are copied.
RunNotifiers(old, new, skipVersion) ==
  /\ pin' = 0
  /\ skip' = 0
  /\ worker' = [at |-> IF skipVersion # 0 THEN "skip" ELSE "rest",
                version |-> latest, skip |-> skipVersion, old |-> old, new |-> new]

OnChange ==
  /\ wake /\ worker.at = "idle"
  /\ wake' = FALSE
  /\ LET old == MainNotifiers \ Dead(MainNotifiers)
         new == NewNotifiers \ Dead(NewNotifiers)
         skipVersion == SkipAfterCleanUp(MainNotifiers)
     IN /\ place' = [n \in Notifiers |->
                       IF n \in Dead(MainNotifiers \cup NewNotifiers) THEN "gone"
                       ELSE IF n \in new THEN "main" ELSE place[n]]
        /\ \/ /\ old \cup new = {}
              /\ pin' = PinAfterCleanUp(NewNotifiers)
              /\ skip' = skipVersion
              /\ notified' = Realms
              /\ UNCHANGED worker
           \/ /\ old \cup new # {}
              /\ RunNotifiers(old, new, skipVersion)
              /\ UNCHANGED notified
  /\ UNCHANGED <<latest, writer, rv, at, target, auto, askVars, alive, nver, hasRun, ran, found,
                 callVars, adding, histVars>>

\* run() at version v: the first run only records rows; without callbacks the
\* query runs only when the Results wants background updates (its table view was
\* used since it was last replaced), which is left open here.
Changes(n, v) == IF hasRun[n] /\ have[n] THEN ran[n] + 1 .. v ELSE {}

\* Variant with a bug: m_previous_rows is not replaced after a comparison.
RanAtFirst(n, v) == IF hasRun[n] THEN {ran[n]} ELSE {v}

RanAt(n, v) == IF hasRun[n] /\ ~have[n] THEN {ran[n], v} ELSE {v}

\* Variant with a bug: changes that were not delivered yet are replaced.
AccumulatedReplacing(c, changes) == changes

\* accumulated_changes.merge
Accumulated(c, changes) == acc[c] \cup changes

\* run() of the notifiers ns at version v.
Run(ns, v) ==
  /\ found' = [n \in Notifiers |-> IF n \in ns THEN Changes(n, v) ELSE found[n]]
  /\ \E f \in [ns -> Versions] :
        /\ \A n \in ns : f[n] \in RanAt(n, v)
        /\ ran' = [n \in Notifiers |-> IF n \in ns THEN f[n] ELSE ran[n]]
  /\ looked' = {n \in ns : hasRun[n] /\ have[n]}

\* prepare_handover() of the notifiers ns at version v, with add_changes for
\* every callback.
PrepareHandover(ns, v) ==
  /\ \A n \in ns : CallbackMutexFree(n)
  /\ nver' = [n \in Notifiers |-> IF n \in ns THEN v ELSE nver[n]]
  /\ hasRun' = [n \in Notifiers |-> hasRun[n] \/ n \in ns]
  /\ found' = [n \in Notifiers |-> IF n \in ns THEN {} ELSE found[n]]
  /\ LET reached == {c \in Callbacks : on[c] = "on" /\ NotifierOf[c] \in ns}
         kept(c) == c \in reached /\ ~skipNext[c]
         lost(c) == c \in reached /\ skipNext[c]
     IN /\ acc' = [c \in Callbacks |->
                     IF kept(c) THEN Accumulated(c, found[NotifierOf[c]]) ELSE acc[c]]
        /\ dropped' = [c \in Callbacks |->
                     IF lost(c) THEN dropped[c] \cup found[NotifierOf[c]] ELSE dropped[c]]
        /\ skipNext' = [c \in Callbacks |-> skipNext[c] /\ c \notin reached]
  /\ looked' = {}
  /\ UNCHANGED <<ran, on, have, initial, deliver, told, since, shown, nested, late>>

\* The notifiers that are not new stop at the skip version.
RunToSkipVersion ==
  /\ worker.at = "skip"
  /\ Run(worker.old, worker.skip)
  /\ worker' = [worker EXCEPT !.at = "skipped"]
  /\ UNCHANGED <<latest, realmVars, askVars, place, alive, nver, hasRun, callVars, pin, skip, wakeVars,
                 nested, late>>

HandoverAtSkipVersion ==
  /\ worker.at = "skipped"
  /\ PrepareHandover(worker.old, worker.skip)
  /\ worker' = [worker EXCEPT !.at = "rest"]
  /\ UNCHANGED <<latest, realmVars, askVars, place, alive, pin, skip, wakeVars>>

\* All of them run at the version picked.
RunToVersion ==
  /\ worker.at = "rest"
  /\ Run(worker.old \cup worker.new, worker.version)
  /\ worker' = [worker EXCEPT !.at = "ran"]
  /\ UNCHANGED <<latest, realmVars, askVars, place, alive, nver, hasRun, callVars, pin, skip, wakeVars,
                 nested, late>>

\* Dead notifiers are cleaned up, waiting threads and all Realms are notified.
HandoverAtVersion ==
  /\ worker.at = "ran"
  /\ PrepareHandover(worker.old \cup worker.new, worker.version)
  /\ worker' = Idle
  /\ place' = [n \in Notifiers |->
                 IF n \in Dead(MainNotifiers \cup NewNotifiers) THEN "gone" ELSE place[n]]
  /\ pin' = PinAfterCleanUp(NewNotifiers)
  /\ skip' = SkipAfterCleanUp(MainNotifiers)
  /\ notified' = Realms
  /\ UNCHANGED <<latest, writer, rv, at, target, auto, askVars, alive, wakeVars>>

-----------------------------------------------------------------------------
(***************************************************************************)
(* Delivery, on the thread of the Realm r.                                 *)
(***************************************************************************)

\* Callbacks of the packaged notifiers ns.
CallbacksOf(ns) == {c \in Callbacks : on[c] = "on" /\ NotifierOf[c] \in ns}

\* package_for_delivery, without delivery.
Package(ns) ==
  /\ deliver' = [c \in Callbacks |-> IF c \in CallbacksOf(ns) THEN acc[c] ELSE deliver[c]]
  /\ acc' = [c \in Callbacks |-> IF c \in CallbacksOf(ns) THEN {} ELSE acc[c]]
  /\ UNCHANGED <<on, have, skipNext, initial, told, dropped, since, shown>>

\* package_for_delivery and after_advance, with the Realm at version v.
PackageAndCall(ns, v) ==
  LET cs == CallbacksOf(ns)
  IN /\ acc' = [c \in Callbacks |-> IF c \in cs THEN {} ELSE acc[c]]
     /\ deliver' = [c \in Callbacks |-> IF c \in cs THEN {} ELSE deliver[c]]
     /\ told' = [c \in Callbacks |->
                   IF c \in cs /\ initial[c] THEN told[c] \cup acc[c] ELSE told[c]]
     /\ since' = [c \in Callbacks |-> IF c \in cs /\ ~initial[c] THEN v ELSE since[c]]
     /\ shown' = [c \in Callbacks |-> IF c \in cs THEN v ELSE shown[c]]
     /\ initial' = [c \in Callbacks |-> initial[c] \/ c \in cs]
     /\ UNCHANGED <<on, have, skipNext, dropped>>

\* The thread is in the callbacks it calls.
AfterCalls(r, ns) ==
  at' = [at EXCEPT ![r] = IF CallbacksOf(ns) # {} THEN "sending" ELSE "idle"]

HaveRun(r) == {n \in NotifiersForRealm(r) : hasRun[n]}

\* advance_to_ready: deliver at the version of the notifiers, unless the Realm
\* is past it; with nothing to deliver, advance to the latest version.
AdvanceToReady(r) ==
  \/ /\ HaveRun(r) = {}
     /\ rv' = [rv EXCEPT ![r] = latest]
     /\ UNCHANGED <<at, callVars>>
  \/ \E n \in HaveRun(r) :
       \/ /\ nver[n] < rv[r]
          /\ Package(HaveRun(r))
          /\ UNCHANGED <<rv, at>>
       \/ /\ nver[n] >= rv[r]
          /\ rv' = [rv EXCEPT ![r] = nver[n]]
          /\ PackageAndCall(HaveRun(r), nver[n])
          /\ AfterCalls(r, HaveRun(r))

\* process_available_async: only what is for the version shown.
ProcessAvailableAsync(r) ==
  LET ns == {n \in HaveRun(r) : nver[n] = rv[r]}
  IN /\ PackageAndCall(ns, rv[r])
     /\ AfterCalls(r, ns)
     /\ UNCHANGED rv

\* Realm::notify of a Realm that is in a read transaction, which it leaves only
\* by invalidate().  Without autorefresh it passes new commits over.
Notify(r) ==
  /\ r \in notified /\ at[r] = "idle" /\ ThreadFree(r)
  /\ notified' = notified \ {r}
  /\ \/ writer = r /\ UNCHANGED <<rv, at, callVars>>
     \/ writer # r /\ rv[r] = latest /\ ProcessAvailableAsync(r)
     \/ writer # r /\ rv[r] < latest /\ auto[r] /\ AdvanceToReady(r)
     \/ writer # r /\ rv[r] < latest /\ ~auto[r] /\ UNCHANGED <<rv, at, callVars>>
  /\ UNCHANGED <<latest, writer, target, auto, askVars, noteVars, workVars, wakeVars, histVars>>

\* setAutorefresh, which delivers nothing.
SetAutoRefresh(r) ==
  /\ at[r] \in {"idle", "sending"} /\ ThreadFree(r)
  /\ auto' = [auto EXCEPT ![r] = ~auto[r]]
  /\ UNCHANGED <<latest, writer, rv, at, target, notified, askVars, noteVars, callVars, workVars,
                 wakeVars, histVars>>

SendingDone(r) ==
  /\ at[r] = "sending" /\ writer # r /\ ThreadFree(r)
  /\ at' = [at EXCEPT ![r] = "idle"]
  /\ UNCHANGED <<latest, writer, rv, target, notified, auto, askVars, noteVars, callVars, workVars,
                 wakeVars, histVars>>

\* Variant with a bug: the version a notifier has run at is not looked at.
ReadyAtAnyVersion(r, v) ==
  \A n \in NotifiersForRealm(r) : ~have[n] \/ hasRun[n]

\* The predicate of package_and_wait.
Ready(r, v) ==
  \A n \in NotifiersForRealm(r) : ~have[n] \/ (hasRun[n] /\ nver[n] >= v)

\* Realm::refresh, up to the wait of advance_to_latest.
Refresh(r) ==
  /\ at[r] = "idle" /\ writer # r /\ ThreadFree(r)
  /\ at' = [at EXCEPT ![r] = "refresh"]
  /\ target' = [target EXCEPT ![r] = latest]
  /\ wake' = (wake \/ ~Ready(r, latest))
  /\ UNCHANGED <<latest, writer, rv, notified, auto, askVars, noteVars, callVars, workVars, adding,
                 histVars>>

\* The end of package_and_wait and the delivery: a version before the target
\* clears the package.
RefreshDone(r) ==
  /\ at[r] = "refresh"
  /\ Ready(r, target[r])
  /\ target' = [target EXCEPT ![r] = 0]
  /\ \/ /\ HaveRun(r) = {}
        /\ rv' = [rv EXCEPT ![r] = latest]
        /\ at' = [at EXCEPT ![r] = "idle"]
        /\ UNCHANGED callVars
     \/ \E n \in HaveRun(r) :
          \/ /\ nver[n] < target[r]
             /\ Package(HaveRun(r))
             /\ rv' = [rv EXCEPT ![r] = latest]
             /\ at' = [at EXCEPT ![r] = "idle"]
          \/ /\ nver[n] >= target[r]
             /\ rv' = [rv EXCEPT ![r] = nver[n]]
             /\ PackageAndCall(HaveRun(r), nver[n])
             /\ AfterCalls(r, HaveRun(r))
  /\ UNCHANGED <<latest, writer, notified, auto, askVars, noteVars, workVars, wakeVars, histVars>>

-----------------------------------------------------------------------------
(***************************************************************************)
(* Write transactions.                                                     *)
(***************************************************************************)

\* begin_transaction, promote_to_write: the write lock, the latest version, and
\* a wait for the notifiers; inside a callback neither wait nor delivery.
BeginTransaction(r) ==
  /\ writer = Nobody
  /\ at[r] \in {"idle", "sending"} /\ ThreadFree(r)
  /\ writer' = r
  /\ nested' = (nested \/ at[r] = "sending")
  /\ rv' = [rv EXCEPT ![r] = latest]
  /\ IF at[r] = "idle" /\ NotifiersForRealm(r) # {}
     THEN /\ at' = [at EXCEPT ![r] = "begin"]
          /\ target' = [target EXCEPT ![r] = latest]
          /\ wake' = (wake \/ ~Ready(r, latest))
     ELSE UNCHANGED <<at, target, wake>>
  /\ UNCHANGED <<latest, notified, auto, askVars, noteVars, callVars, workVars, adding, looked,
                 late>>

\* The callbacks are called inside the write transaction.
BeginDone(r) ==
  /\ at[r] = "begin"
  /\ Ready(r, target[r])
  /\ target' = [target EXCEPT ![r] = 0]
  /\ at' = [at EXCEPT ![r] = "idle"]
  /\ \/ /\ HaveRun(r) = {}
        /\ UNCHANGED callVars
     \/ \E n \in HaveRun(r) :
          \/ nver[n] < target[r] /\ Package(HaveRun(r))
          \/ nver[n] >= target[r] /\ PackageAndCall(HaveRun(r), rv[r])
  /\ UNCHANGED <<latest, writer, rv, notified, auto, askVars, noteVars, workVars, wakeVars, histVars>>

Writing(r) == writer = r /\ at[r] \in {"idle", "sending"}

\* commitWriteTransactionWithoutNotifying: suppress_next_notification for each
\* of the callbacks, the commit follows.
SuppressNextNotification(r, cs) ==
  /\ writer = r /\ at[r] = "idle"
  /\ latest < MaxVersion
  /\ cs # {}
  /\ \A c \in cs : on[c] = "on" /\ RealmOf[NotifierOf[c]] = r
  /\ skipNext' = [c \in Callbacks |-> skipNext[c] \/ c \in cs]
  /\ asked' = cs
  /\ at' = [at EXCEPT ![r] = "commit"]
  /\ UNCHANGED <<latest, writer, rv, target, notified, auto, quiet, overtaken, noteVars, on, have,
                 initial, acc, deliver, told, dropped, since, shown, workVars, wakeVars, histVars>>

\* Variant with a bug: the skip version is the one after the commit.
SkipAfterCommitNext(r) ==
  IF \E n \in MainNotifiers : alive[n] /\ RealmOf[n] = r THEN latest + 2 ELSE skip

\* have_notifiers, and the version of the commit.
SkipAfterCommit(r) ==
  IF \E n \in MainNotifiers : alive[n] /\ RealmOf[n] = r THEN latest + 1 ELSE skip

\* The callbacks of other Realm instances that wait for a skip version, when the
\* commit of r replaces it.
Overtaken(r) ==
  {c \in Callbacks : /\ skip \notin {0, SkipAfterCommit(r)}
                     /\ skipNext[c] /\ RealmOf[NotifierOf[c]] # r}

\* commit_transaction, commit_write: the commit and the skip version are one
\* critical section, then the worker is woken up.
CommitTransaction(r) ==
  /\ writer = r /\ at[r] \in {"idle", "sending", "commit"}
  /\ latest < MaxVersion
  /\ latest' = latest + 1
  /\ writer' = Nobody
  /\ rv' = [rv EXCEPT ![r] = latest + 1]
  /\ at' = [at EXCEPT ![r] = IF at[r] = "commit" THEN "idle" ELSE at[r]]
  /\ skip' = SkipAfterCommit(r)
  /\ quiet' = [c \in Callbacks |-> quiet[c] \cup (IF c \in asked THEN {latest + 1} ELSE {})]
  /\ asked' = {}
  /\ overtaken' = overtaken \cup Overtaken(r)
  /\ wake' = TRUE
  /\ UNCHANGED <<target, notified, auto, noteVars, callVars, pin, worker, adding, histVars>>

CancelTransaction(r) ==
  /\ Writing(r)
  /\ writer' = Nobody
  /\ UNCHANGED <<latest, rv, at, target, notified, auto, askVars, noteVars, callVars, workVars,
                 wakeVars, histVars>>

\* A commit of another process, or of a Realm without notifiers.
OtherCommit ==
  /\ writer = Nobody
  /\ latest < MaxVersion
  /\ latest' = latest + 1
  /\ wake' = TRUE
  /\ UNCHANGED <<realmVars, askVars, noteVars, callVars, workVars, adding, histVars>>

-----------------------------------------------------------------------------
Work ==
  \/ OnChange \/ RunToSkipVersion \/ HandoverAtSkipVersion
  \/ RunToVersion \/ HandoverAtVersion

RealmStep(r) ==
  \/ Notify(r) \/ SendingDone(r) \/ SetAutoRefresh(r)
  \/ Refresh(r) \/ RefreshDone(r)
  \/ BeginTransaction(r) \/ BeginDone(r)
  \/ \E cs \in SUBSET Callbacks : SuppressNextNotification(r, cs)
  \/ CommitTransaction(r) \/ CancelTransaction(r)

Next ==
  \/ Work
  \/ \E r \in Realms : RealmStep(r)
  \/ \E n \in Notifiers : PrepareAsync(n) \/ Unregister(n)
  \/ \E c \in Callbacks : WakeUp(c) \/ AddCallback(c) \/ RemoveCallback(c)
  \/ OtherCommit

Spec == Init /\ [][Next]_vars

(***************************************************************************)
(* The worker and the run loops run, waits that are over end, callbacks    *)
(* return, and nobody stays in a write transaction or in add_callback.     *)
(***************************************************************************)
EndsWrite(r) == CommitTransaction(r) \/ CancelTransaction(r)

Fairness ==
  /\ WF_vars(Work)
  /\ \A r \in Realms :
       /\ SF_vars(Notify(r)) /\ WF_vars(SendingDone(r))
       /\ SF_vars(RefreshDone(r)) /\ SF_vars(BeginDone(r))
       /\ WF_vars(EndsWrite(r))
  /\ \A c \in Callbacks : WF_vars(c \in adding /\ AddCallback(c))

FairSpec == Spec /\ Fairness

-----------------------------------------------------------------------------
(***************************************************************************)
(* Properties.                                                             *)
(***************************************************************************)

(***************************************************************************)
(* Two things the code does not guard against can lose changes.  Callbacks *)
(* that begin a write or register a callback (nested): what is packaged    *)
(* for a version the write has passed is discarded, and a callback         *)
(* registered while the only other one removed itself does not make the    *)
(* notifier look for changes.  And the first callback of a notifier that   *)
(* has been used without one (late): registered, and even called, between  *)
(* a run() that did not look for changes and its prepare_handover(), it is *)
(* not told of what that run passed over.                                  *)
(***************************************************************************)
Undisturbed(c) == ~nested /\ c \notin late

\* The changes told to a callback tile the history: from its first call on, up
\* to the version it was last called at, each commit was told to it or dropped
\* by a suppression.
EveryCommitIsTold ==
  \A c \in Callbacks :
    initial[c] /\ on[c] = "on" /\ Undisturbed(c) =>
      since[c] + 1 .. shown[c] \subseteq told[c] \cup dropped[c]

\* No commit is told twice, and none before the thread shows it, also when
\* callbacks begin write transactions that move the thread on.
NothingIsToldTwiceOrEarly ==
  \A c \in Callbacks :
    on[c] = "on" => acc[c] \cap told[c] = {} /\ \A v \in told[c] : v <= shown[c]

\* Handover objects do not keep their version alive, the advancer has to: it
\* reads a version no newer than that of any new notifier, however they come
\* and go, and none when there is no new notifier; and what run_async_notifiers
\* asserts of the skip version holds.
WorkerAssertionsHold ==
  /\ \A n \in NewNotifiers : 0 < pin /\ pin <= nver[n]
  /\ NewNotifiers = {} => pin = 0
  /\ worker.at = "skip" =>
       /\ worker.old # {} /\ worker.skip <= worker.version
       /\ \A n \in worker.old : nver[n] <= worker.skip

\* RLMRealm.h, commitWriteTransactionWithoutNotifying: the tokens skip "the
\* changes made in this write transaction".  Of the commits after its first
\* call, a callback misses only those it asked not to hear of.
SuppressionIsForItsCommit ==
  \A c \in Callbacks :
    Undisturbed(c) => \A v \in dropped[c] : v > since[c] => v \in quiet[c]

\* The same, as far as the code keeps it: until a commit of another Realm
\* instance with notifiers takes the place of the suppressed one as the skip
\* version, which the coordinator has only one of.
OnlySuppressedCommitsAreDropped ==
  \A c \in Callbacks :
    Undisturbed(c) /\ c \notin overtaken =>
      \A v \in dropped[c] : v > since[c] => v \in quiet[c]

\* advance_to_ready: that packaged notifications are out of date and discarded
\* "should only happen if begin_read() was used to change the read version
\* outside of our control".  Nothing is discarded that a callback has to be told
\* of, that is, no commit after the version it was first called with.
NothingIsDiscarded ==
  \A c \in Callbacks :
    initial[c] /\ Undisturbed(c) => \A v \in deliver[c] : v <= since[c]

\* A registered callback is called, and called again until it has been told of
\* everything committed, when the autorefresh of its Realm is never turned off;
\* turning it on again delivers nothing that was passed over.
CallbacksCatchUp ==
  \A c \in Callbacks : \A v \in Versions \ {0} :
    []auto[RealmOf[NotifierOf[c]]] =>
      (on[c] = "on" /\ latest >= v
         ~> nested \/ on[c] = "off" \/ (initial[c] /\ shown[c] >= v))
=============================================================================
