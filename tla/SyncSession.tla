----------------------------- MODULE SyncSession -----------------------------
(***************************************************************************)
(* The Object Store's SyncSession: its four states, the completion         *)
(* callbacks queued on it, the wait operations it starts on the underlying *)
(* sync::Session, and its external reference.                              *)
(*                                                                         *)
(* A step is one critical section of m_state_mutex, or of the manager's    *)
(* m_session_mutex in unregister_session.  Application threads take such   *)
(* steps at any time.  The event loop thread of the sync client runs one   *)
(* handler after the other; a handler that releases the lock half way      *)
(* (handle_error) is several steps, and loop says which is next.           *)
(*                                                                         *)
(* Callbacks that a step takes off a list are called right after it, by    *)
(* the same thread and without the lock; status records the call in the    *)
(* step itself.                                                            *)
(***************************************************************************)
EXTENDS Naturals, FiniteSets

CONSTANTS
  UploadCallbacks, DownloadCallbacks,  \* callbacks the application may register
  Configs,           \* configurations the application opens the Realm with
  ErrorKinds,        \* the errors the server and the client may report
  MaxSessions,       \* bound: underlying sessions ever made
  MaxVersion,        \* bound: local commits
  MaxWaits,          \* bound: wait operations at one time
  MaxDeaths,         \* bound: times the session is dying
  MaxResyncs,        \* bound: automatic resyncs
  MaxDrops,          \* bound: destructors of external references at one time
  MaxUnregisters     \* bound: application threads before unregister_session at one time

\* What the state machine reads of a SyncConfig.
SyncConfig ==
  [stopPolicy : {"Immediately", "LiveIndefinitely", "AfterChangesUploaded"},
   clientResyncMode : {"Manual", "Recover"},
   cancelWaits : BOOLEAN]

\* The errors handle_error tells apart: the client resets, permission_denied,
\* token_expired, bad_authentication, the informational ones, and the others.
Kinds == {"reset", "denied", "expired", "badAuth", "ignored", "fatal", "nonfatal"}

ASSUME SessionAssumptions ==
  /\ UploadCallbacks \cap DownloadCallbacks = {}
  /\ Configs \subseteq SyncConfig /\ Configs # {}
  /\ ErrorKinds \subseteq Kinds
  /\ {MaxSessions, MaxVersion, MaxWaits, MaxDeaths, MaxResyncs, MaxDrops, MaxUnregisters}
       \subseteq Nat

VARIABLES
  config,          \* m_config
  state,           \* m_state
  session,         \* m_session: number of the underlying session, 0 for nullptr
  made,            \* underlying sessions made so far
  deathCount,      \* m_death_count
  resyncCounter,   \* m_client_resync_counter
  deferredClose,   \* m_deferred_close
  deferredCommit,  \* m_deferred_commit_notification, 0 for none
  queue,           \* m_upload_completion_callbacks, m_download_completion_callbacks
  status,          \* status[c]: what happened to the callback c
  waits,           \* wait operations whose handler has not run
  loop,            \* where the event loop thread stands
  ref,             \* an external reference exists
  dropping,        \* destructors of ExternalReference before their critical section
  getting,         \* threads in get_session, past register_session
  registered,      \* SyncManager::m_sessions holds this session
  unregisters,     \* unregisters[t]: threads in unregister(lock), the lock released,
                   \* before the critical section of unregister_session
  failed,          \* an assertion failed: the process is gone
  local,           \* local commits so far
  announced,       \* commits the current underlying session was told of, if there is one
  missed,          \* history: a commit of the current session came while it was dying
  uploaded         \* commits the server has acknowledged

lifeVars == <<config, state, session, made, deathCount, resyncCounter>>

deferredVars == <<deferredClose, deferredCommit>>

dataVars == <<local, uploaded>>

toldVars == <<announced, missed>>

ownerVars == <<ref, dropping, getting, registered>>

refVars == <<ownerVars, unregisters>>

callbackVars == <<queue, status>>

vars == <<lifeVars, deferredVars, callbackVars, waits, loop, refVars, failed, dataVars,
          toldVars>>

\* The event loop thread, and the application's.
Threads == {"loop", "app"}

States == {"waiting", "active", "dying", "inactive"}

Callbacks == UploadCallbacks \cup DownloadCallbacks

Versions == 0 .. MaxVersion

\* A wait operation: its underlying session, what it waits for, who asked (a
\* completion callback or a death), the counter its handler captured, and the
\* commits that were announced when it started.
Wait == [session : 1 .. MaxSessions, direction : {"upload", "download"},
         purpose : {"completion", "death"}, tag : Nat, covers : Versions]

\* Where handle_error goes on when it takes the lock again, and the callbacks a
\* resync has moved aside.
LoopStates ==
  [at : {"idle", "resync", "restore", "revive", "expired", "badAuth", "deactivate", "cancel"},
   aside : SUBSET Callbacks]

LoopIdle == [at |-> "idle", aside |-> {}]

TypeOK ==
  /\ config \in Configs
  /\ state \in States
  /\ session \in 0 .. MaxSessions
  /\ made \in 0 .. MaxSessions
  /\ deathCount \in Nat
  /\ resyncCounter \in Nat
  /\ deferredClose \in BOOLEAN
  /\ deferredCommit \in Versions
  /\ queue \subseteq Callbacks
  /\ status \in [Callbacks -> {"unused", "waiting", "ok", "aborted", "error"}]
  /\ waits \subseteq Wait
  /\ loop \in LoopStates
  /\ ref \in BOOLEAN
  /\ dropping \in 0 .. MaxDrops
  /\ getting \in BOOLEAN
  /\ registered \in BOOLEAN
  /\ unregisters \in [Threads -> 0 .. MaxUnregisters]
  /\ failed \in BOOLEAN
  /\ local \in Versions
  /\ announced \in Versions
  /\ missed \in BOOLEAN
  /\ uploaded \in Versions

\* SyncManager::get_session has made the session and its external reference;
\* register_session is a revive_if_needed like any other.
Init ==
  /\ config \in Configs
  /\ state = "inactive"
  /\ session = 0
  /\ made = 0
  /\ deathCount = 0
  /\ resyncCounter = 0
  /\ deferredClose = FALSE
  /\ deferredCommit = 0
  /\ queue = {}
  /\ status = [c \in Callbacks |-> "unused"]
  /\ waits = {}
  /\ loop = LoopIdle
  /\ ref = TRUE
  /\ dropping = 0
  /\ getting = FALSE
  /\ registered = TRUE
  /\ unregisters = [t \in Threads |-> 0]
  /\ failed = FALSE
  /\ local = 0
  /\ announced = 0
  /\ missed = FALSE
  /\ uploaded = 0

-----------------------------------------------------------------------------
(***************************************************************************)
(* Pieces of the critical sections.                                        *)
(***************************************************************************)

\* The callbacks of list are called with the given outcome.
Call(list, outcome) ==
  status' = [c \in Callbacks |-> IF c \in list THEN outcome ELSE status[c]]

\* Wait operations for the given directions on session s, as their handlers
\* will see them.  Equal ones are one: the client completes them together.
NewWaits(s, todo, covers) ==
  {[session |-> s, direction |-> d, purpose |-> "completion", tag |-> resyncCounter,
    covers |-> IF d = "upload" THEN covers ELSE 0] : d \in todo}

StartWaits(new) ==
  /\ waits' = waits \cup new
  /\ Cardinality(waits') <= MaxWaits

\* Variant with a bug: the underlying session is not destroyed.
EnterInactiveKeepingSession(cancelled) ==
  /\ state' = "inactive"
  /\ UNCHANGED <<session, toldVars>>
  /\ queue' = {}
  /\ Call(cancelled, "aborted")

\* Variant with a bug: the queued callbacks are dropped without a call.
EnterInactiveSilently(cancelled) ==
  /\ state' = "inactive"
  /\ session' = 0
  /\ announced' = 0
  /\ missed' = FALSE
  /\ queue' = {}
  /\ UNCHANGED status

\* Inactive::enter_state.  The underlying session is destroyed and the callbacks
\* are called with operation_aborted; in between comes Unregister.
EnterInactive(cancelled) ==
  /\ state' = "inactive"
  /\ session' = 0
  /\ announced' = 0
  /\ missed' = FALSE
  /\ queue' = {}
  /\ Call(cancelled, "aborted")

Direction(c) == IF c \in UploadCallbacks THEN "upload" ELSE "download"

\* Directions with callbacks queued.
Queued == {Direction(c) : c \in queue}

\* unregister(lock), in the thread t: the lock is released, and unregister_session
\* is still to come.
Unregister(t) ==
  /\ unregisters[t] < MaxUnregisters
  /\ unregisters' = [unregisters EXCEPT ![t] = @ + 1]

\* advance_state(lock, State::inactive), in the thread t.
ToInactive(t) ==
  /\ EnterInactive(queue)
  /\ Unregister(t)
  /\ UNCHANGED <<config, made, deathCount, resyncCounter, deferredVars, waits,
                 failed, dataVars>>

\* Dying::enter_state, on the session s with the commits v announced: the
\* handler of the wait remembers which death it belongs to.
EnterDying(s, todo, v) ==
  /\ deathCount < MaxDeaths
  /\ state' = "dying"
  /\ deathCount' = deathCount + 1
  /\ StartWaits(NewWaits(s, todo, v)
       \cup {[session |-> s, direction |-> "upload", purpose |-> "death",
              tag |-> deathCount + 1, covers |-> v]})

-----------------------------------------------------------------------------
(***************************************************************************)
(* The application and the binding.                                        *)
(***************************************************************************)

\* Some thread can reach the object: through the external reference, or through
\* the manager's or the user's map.
Reachable == (ref \/ registered) /\ ~failed

\* The bound handler and its owner keep the object alive while a token is awaited.
TokenAwaited == state = "waiting" /\ ~failed

\* Variant with a bug: the commit deferred while the token was awaited is
\* not announced.
AnnouncedAfterRefreshForgetful == IF session = 0 THEN local ELSE announced

\* bind() announces every commit made so far; a session that was bound before
\* learns of the deferred one.
AnnouncedAfterRefresh ==
  IF session = 0 THEN local
  ELSE IF deferredCommit > announced THEN deferredCommit ELSE announced

\* WaitingForAccessToken::refresh_access_token: create_sync_session and bind(),
\* or refresh(); the deferred commit; then active, and at once close() when the
\* close was deferred.
RefreshAccessToken ==
  /\ TokenAwaited
  /\ session = 0 => made < MaxSessions
  /\ LET s == IF session = 0 THEN made + 1 ELSE session
         v == AnnouncedAfterRefresh
     IN /\ session' = s
        /\ made' = IF session = 0 THEN s ELSE made
        /\ announced' = v
        /\ missed' = (missed /\ session # 0)
        /\ deferredCommit' = 0
        /\ \/ /\ deferredClose
              /\ config.stopPolicy = "AfterChangesUploaded"
              /\ EnterDying(s, Queued, v)
           \/ /\ ~(deferredClose /\ config.stopPolicy = "AfterChangesUploaded")
              /\ state' = "active"
              /\ StartWaits(NewWaits(s, Queued, v))
              /\ UNCHANGED deathCount
  /\ UNCHANGED <<config, resyncCounter, deferredClose, callbackVars, loop, refVars,
                 failed, local, uploaded>>

\* revive_if_needed, in each state.
Revived ==
  \/ /\ state = "waiting"
     /\ deferredClose' = FALSE
     /\ UNCHANGED <<state, waits>>
  \/ /\ state = "dying"
     /\ state' = "active"
     /\ StartWaits(NewWaits(session, Queued, announced))
     /\ UNCHANGED deferredClose
  \/ /\ state = "inactive"
     /\ state' = "waiting"
     /\ deferredClose' = FALSE
     /\ UNCHANGED waits
  \/ /\ state = "active"
     /\ UNCHANGED <<state, deferredClose, waits>>

ReviveIfNeeded ==
  /\ Reachable
  /\ Revived
  /\ UNCHANGED <<config, session, made, deathCount, resyncCounter, deferredCommit, callbackVars,
                 loop, refVars, failed, dataVars, toldVars>>

\* log_out: inactive from every other state.
LogOut ==
  /\ Reachable
  /\ state # "inactive"
  /\ ToInactive("app")
  /\ UNCHANGED <<ownerVars, loop>>

\* A round of update_configuration: inactive again and again, the lock released
\* each time, until the session is found there and takes the new configuration;
\* the revive_if_needed at its end is one like any other.
UpdateConfiguration(new) ==
  /\ Reachable
  /\ \/ /\ state # "inactive"
        /\ ToInactive("app")
        /\ UNCHANGED <<ownerVars, loop>>
     \/ /\ state = "inactive"
        /\ config' = new
        /\ UNCHANGED <<state, session, made, deathCount, resyncCounter, deferredVars,
                       callbackVars, waits, loop, refVars, failed, dataVars, toldVars>>

\* Variant with a bug: in active, no wait operation is started.
WaitForCompletionLazily(c) ==
  /\ Reachable
  /\ status[c] = "unused"
  /\ status' = [status EXCEPT ![c] = "waiting"]
  /\ queue' = queue \cup {c}
  /\ IF Direction(c) \notin Queued /\ state = "dying"
     THEN StartWaits(NewWaits(session, {Direction(c)}, announced))
     ELSE UNCHANGED waits
  /\ UNCHANGED <<lifeVars, deferredVars, loop, refVars, failed, dataVars, toldVars>>

\* Variant with a bug: the wait operation starts in waiting too, where there may
\* be no underlying session.
WaitForCompletionAnyState(c) ==
  /\ Reachable
  /\ status[c] = "unused"
  /\ status' = [status EXCEPT ![c] = "waiting"]
  /\ queue' = queue \cup {c}
  /\ IF Direction(c) \notin Queued /\ state # "inactive"
     THEN StartWaits(NewWaits(session, {Direction(c)}, announced))
     ELSE UNCHANGED waits
  /\ UNCHANGED <<lifeVars, deferredVars, loop, refVars, failed, dataVars, toldVars>>

\* wait_for_upload_completion and wait_for_download_completion: a wait operation
\* starts only for the first callback of the list, and only in active and dying.
WaitForCompletion(c) ==
  /\ Reachable
  /\ status[c] = "unused"
  /\ status' = [status EXCEPT ![c] = "waiting"]
  /\ queue' = queue \cup {c}
  /\ IF Direction(c) \notin Queued /\ state \in {"active", "dying"}
     THEN StartWaits(NewWaits(session, {Direction(c)}, announced))
     ELSE UNCHANGED waits
  /\ UNCHANGED <<lifeVars, deferredVars, loop, refVars, failed, dataVars, toldVars>>

\* A commit of the Realm that holds the reference, and nonsync_transact_notify
\* in each state: inactive and dying do not pass it on.
Commit ==
  /\ ref /\ ~getting /\ ~failed
  /\ local < MaxVersion
  /\ local' = local + 1
  /\ announced' = IF state = "active" THEN local' ELSE announced
  /\ missed' = (state = "dying" \/ (missed /\ state # "active"))
  /\ deferredCommit' = IF state = "waiting" THEN local' ELSE deferredCommit
  /\ UNCHANGED <<lifeVars, deferredClose, callbackVars, waits, loop,
                 refVars, failed, uploaded>>

\* The last external reference goes; its destructor has not got the lock yet.
DropReference ==
  /\ ref /\ ~getting /\ ~failed
  /\ dropping < MaxDrops
  /\ ref' = FALSE
  /\ dropping' = dropping + 1
  /\ UNCHANGED <<lifeVars, deferredVars, callbackVars, waits, loop,
                 getting, registered, unregisters, failed, dataVars, toldVars>>

NothingCloses ==
  UNCHANGED <<lifeVars, deferredVars, callbackVars, waits, unregisters, failed,
              dataVars, toldVars>>

\* A close while a token is awaited is deferred.
CloseWaiting ==
  /\ state = "waiting"
  /\ \/ config.stopPolicy = "Immediately" /\ ToInactive("app")
     \/ /\ config.stopPolicy # "Immediately"
        /\ deferredClose' = TRUE
        /\ UNCHANGED <<lifeVars, deferredCommit, callbackVars, waits,
                       unregisters, failed, dataVars, toldVars>>

CloseActive ==
  /\ state = "active"
  /\ \/ config.stopPolicy = "Immediately" /\ ToInactive("app")
     \/ /\ config.stopPolicy = "AfterChangesUploaded"
        /\ EnterDying(session, {}, announced)
        /\ UNCHANGED <<config, session, made, resyncCounter, deferredVars, callbackVars,
                       unregisters, failed, dataVars, toldVars>>
     \/ config.stopPolicy = "LiveIndefinitely" /\ NothingCloses

CloseInactive ==
  /\ state = "inactive"
  /\ Unregister("app")
  /\ UNCHANGED <<lifeVars, deferredVars, callbackVars, waits, failed, dataVars, toldVars>>

\* close(), in each state; the dying state has none.
Close ==
  \/ CloseWaiting
  \/ CloseActive
  \/ CloseInactive
  \/ state = "dying" /\ NothingCloses

\* did_drop_external_reference: nothing when the session was resurrected.
DidDropExternalReference ==
  /\ dropping > 0 /\ ~failed
  /\ dropping' = dropping - 1
  /\ UNCHANGED <<ref, getting, registered, loop>>
  /\ \/ /\ ref
        /\ UNCHANGED <<lifeVars, deferredVars, callbackVars, waits,
                       unregisters, failed, dataVars, toldVars>>
     \/ ~ref /\ Close

\* Variant with a bug: the external reference is not looked at.
UnregisterSessionBlindly(t) ==
  /\ unregisters[t] > 0 /\ ~getting /\ ~failed
  /\ unregisters' = [unregisters EXCEPT ![t] = @ - 1]
  /\ registered' = FALSE
  /\ UNCHANGED <<lifeVars, deferredVars, callbackVars, waits, loop, ref, dropping, getting,
                 failed, dataVars, toldVars>>

\* SyncManager::unregister_session, which waits for get_session to release the
\* mutex of the map.  A session with an external reference stays in the map.
\* When another thread has taken this one out, the assertion that there is a
\* session of this path fails, unless a newer one has been made meanwhile.
UnregisterSession(t) ==
  /\ unregisters[t] > 0 /\ ~getting /\ ~failed
  /\ unregisters' = [unregisters EXCEPT ![t] = @ - 1]
  /\ \/ registered /\ registered' = ref /\ UNCHANGED failed
     \/ ~registered /\ failed' \in BOOLEAN /\ UNCHANGED registered
  /\ UNCHANGED <<lifeVars, deferredVars, callbackVars, waits, loop, ref, dropping, getting,
                 dataVars, toldVars>>

\* get_session for a session the manager knows: register_session, which revives
\* it ...
GetSession ==
  /\ registered /\ ~ref /\ ~getting /\ ~failed
  /\ getting' = TRUE
  /\ Revived
  /\ UNCHANGED <<config, session, made, deathCount, resyncCounter, deferredCommit, callbackVars,
                 loop, ref, dropping, registered, unregisters, failed, dataVars, toldVars>>

\* ... then external_reference().
ExternalReference ==
  /\ getting /\ ~failed
  /\ getting' = FALSE
  /\ ref' = TRUE
  /\ UNCHANGED <<lifeVars, deferredVars, callbackVars, waits, loop,
                 dropping, registered, unregisters, failed, dataVars, toldVars>>

-----------------------------------------------------------------------------
(***************************************************************************)
(* The sync client and its event loop thread.                              *)
(***************************************************************************)

\* The handler before this one has ended.
LoopFree == loop.at = "idle" /\ unregisters["loop"] = 0 /\ ~failed

\* The server acknowledges what the current session was told of.
Upload ==
  /\ state \in {"active", "dying"} /\ ~failed
  /\ uploaded < announced
  /\ uploaded' = uploaded + 1
  /\ UNCHANGED <<lifeVars, deferredVars, callbackVars, waits, loop,
                 refVars, failed, local, announced, missed>>

\* The operation is complete, or its session was destroyed and it is cancelled.
Outcomes(w) ==
  (IF w.session = session /\ (w.direction = "upload" => uploaded >= w.covers)
   THEN {"ok"} ELSE {}) \cup (IF w.session # session THEN {"aborted"} ELSE {})

\* The handler made by add_completion_callback: all callbacks of the direction,
\* unless a resync came between.
Completed(w, outcome) ==
  LET list == IF w.tag # resyncCounter THEN {}
              ELSE {c \in queue : Direction(c) = w.direction}
  IN /\ Call(list, outcome)
     /\ queue' = queue \ list

CompletionHandler(w) ==
  /\ LoopFree
  /\ w.purpose = "completion"
  /\ \E outcome \in Outcomes(w) : Completed(w, outcome)
  /\ waits' = waits \ {w}
  /\ UNCHANGED <<lifeVars, deferredVars, loop, refVars, failed,
                 dataVars, toldVars>>

\* Variant with a bug: a death from before a revival counts.
AnyDeath(w) == state = "dying"

\* m_state == dying && m_death_count == current_death_count
ThisDeath(w) == state = "dying" /\ deathCount = w.tag

\* The handler made by Dying::enter_state.
DeathHandler(w) ==
  /\ LoopFree
  /\ w.purpose = "death"
  /\ Outcomes(w) # {}
  /\ waits' = waits \ {w}
  /\ \/ /\ ThisDeath(w)
        /\ EnterInactive(queue)
        /\ Unregister("loop")
     \/ /\ ~ThisDeath(w)
        /\ UNCHANGED <<state, session, callbackVars, unregisters, toldVars>>
  /\ UNCHANGED <<config, made, deathCount, resyncCounter, deferredVars, loop,
                 ownerVars, failed, dataVars>>

\* What is_fatal may be for an error of this kind.
IsFatal(kind) ==
  CASE kind \in {"reset", "denied", "fatal"} -> {TRUE}
    [] kind \in {"expired", "nonfatal"}      -> {FALSE}
    [] kind \in {"badAuth", "ignored"}       -> BOOLEAN

\* Where handle_error takes the lock next for each kind of error.
AfterFirst(kind) ==
  CASE kind = "reset"   -> IF config.clientResyncMode = "Manual" THEN "deactivate" ELSE "resync"
    [] kind = "denied"  -> "deactivate"
    [] kind = "expired" -> "expired"
    [] kind = "badAuth" -> "badAuth"
    [] kind = "ignored" -> "idle"
    [] kind = "fatal"   -> "cancel"
    [] kind = "nonfatal" -> IF config.cancelWaits THEN "cancel" ELSE "idle"

\* handle_error is called, by the current session or by one that is destroyed and
\* not yet terminated, and leaves its first critical section.  The dying state
\* takes every error: a fatal one ends the session, another one is dropped.
HandleError(kind) ==
  /\ LoopFree
  /\ made > 0
  /\ Reachable
  /\ \/ /\ state = "dying"
        /\ TRUE \in IsFatal(kind)
        /\ ToInactive("loop")
        /\ UNCHANGED <<ownerVars, loop>>
     \/ /\ state # "dying"
        /\ AfterFirst(kind) # "idle"
        /\ loop' = [loop EXCEPT !.at = AfterFirst(kind)]
        /\ UNCHANGED <<lifeVars, deferredVars, callbackVars, waits, refVars, failed, dataVars, toldVars>>

\* REALM_ASSERT(&state != m_state) in advance_state.
AssertionFails ==
  /\ failed' = TRUE
  /\ UNCHANGED <<lifeVars, deferredVars, callbackVars, waits, loop,
                 refVars, dataVars, toldVars>>

\* permission_denied and the client resets in manual mode.
HandleErrorDeactivate ==
  /\ loop.at = "deactivate" /\ ~failed
  /\ \/ /\ state = "inactive"
        /\ AssertionFails
     \/ /\ state # "inactive"
        /\ ToInactive("loop")
        /\ UNCHANGED ownerVars
        /\ loop' = LoopIdle

\* token_expired: only the active state reacts.
HandleErrorExpired ==
  /\ loop.at = "expired" /\ ~failed
  /\ loop' = LoopIdle
  /\ state' = IF state = "active" THEN "waiting" ELSE state
  /\ deferredClose' = (deferredClose /\ state # "active")
  /\ UNCHANGED <<config, session, made, deathCount, resyncCounter, deferredCommit, callbackVars,
                 waits, refVars, failed, dataVars, toldVars>>

\* cancel_pending_waits; after bad_authentication once more when non-fatal errors
\* cancel waits.
HandleErrorCancel ==
  /\ loop.at \in {"badAuth", "cancel"} /\ ~failed
  /\ loop' = IF loop.at = "badAuth" /\ config.cancelWaits
             THEN [loop EXCEPT !.at = "cancel"] ELSE LoopIdle
  /\ Call(queue, "error")
  /\ queue' = {}
  /\ UNCHANGED <<lifeVars, deferredVars, waits, refVars, failed, dataVars, toldVars>>

\* Variant with a bug: the callbacks are copied, and cancelled with the session.
HandleErrorResyncCopying ==
  /\ loop.at = "resync" /\ ~failed
  /\ \/ /\ state = "inactive"
        /\ AssertionFails
     \/ /\ state # "inactive"
        /\ resyncCounter < MaxResyncs
        /\ EnterInactive(queue)
        /\ Unregister("loop")
        /\ resyncCounter' = resyncCounter + 1
        /\ loop' = [at |-> "restore", aside |-> queue]
        /\ UNCHANGED <<config, made, deathCount, deferredVars, waits,
                       ownerVars, failed, dataVars>>

\* Client resync: the callbacks are moved aside, the session is torn down.
HandleErrorResync ==
  /\ loop.at = "resync" /\ ~failed
  /\ \/ /\ state = "inactive"
        /\ AssertionFails
     \/ /\ state # "inactive"
        /\ resyncCounter < MaxResyncs
        /\ EnterInactive({})
        /\ Unregister("loop")
        /\ resyncCounter' = resyncCounter + 1
        /\ loop' = [at |-> "restore", aside |-> queue]
        /\ UNCHANGED <<config, made, deathCount, deferredVars, waits,
                       ownerVars, failed, dataVars>>

\* The lists are put back.  enter_state released the lock: what another thread
\* has queued meanwhile is overwritten.
HandleErrorRestore ==
  /\ loop.at = "restore" /\ unregisters["loop"] = 0 /\ ~failed
  /\ queue' = loop.aside
  /\ loop' = [at |-> "revive", aside |-> {}]
  /\ UNCHANGED <<lifeVars, deferredVars, status, waits, refVars, failed, dataVars, toldVars>>

HandleErrorRevive ==
  /\ loop.at = "revive" /\ ~failed
  /\ loop' = LoopIdle
  /\ Revived
  /\ UNCHANGED <<config, session, made, deathCount, resyncCounter, deferredCommit, callbackVars,
                 refVars, failed, dataVars, toldVars>>

-----------------------------------------------------------------------------
LoopStep ==
  \/ \E w \in waits : CompletionHandler(w) \/ DeathHandler(w)
  \/ HandleErrorDeactivate
  \/ HandleErrorExpired
  \/ HandleErrorCancel
  \/ HandleErrorResync
  \/ HandleErrorRestore
  \/ HandleErrorRevive

AppStep ==
  \/ ReviveIfNeeded
  \/ LogOut
  \/ \E new \in Configs : UpdateConfiguration(new)
  \/ \E c \in Callbacks : WaitForCompletion(c)
  \/ Commit
  \/ DropReference
  \/ GetSession

Next ==
  \/ LoopStep
  \/ AppStep
  \/ RefreshAccessToken
  \/ DidDropExternalReference
  \/ \E t \in Threads : UnregisterSession(t)
  \/ ExternalReference
  \/ Upload
  \/ \E kind \in ErrorKinds : HandleError(kind)

Spec == Init /\ [][Next]_vars

-----------------------------------------------------------------------------
(***************************************************************************)
(* Properties.                                                             *)
(***************************************************************************)

\* m_session exists in active and dying (add_completion_callback dereferences
\* it) and is destroyed in inactive (update_configuration asserts it).
SessionMatchesState ==
  /\ state \in {"active", "dying"} => session # 0
  /\ state = "inactive" => session = 0

\* The session was not resynced automatically.  A resync releases the lock while
\* the callbacks are set aside: what is queued in that window is overwritten.
NotResynced == resyncCounter = 0

\* Until an automatic resync, callbacks queued on a session that is up have a
\* wait operation on the current underlying session whose handler will take
\* them, through revivals, expired tokens and sessions made anew.
QueuedCallbacksHaveAWait ==
  NotResynced /\ state \in {"active", "dying"} =>
    \A d \in Queued : \E w \in waits :
       /\ w.purpose = "completion" /\ w.direction = d
       /\ w.session = session /\ w.tag = resyncCounter

\* A dying session goes inactive by itself only when everything announced at
\* its last close is on the server: the wait of an earlier death, outlived by a
\* revival, does not end it.
DeathWaitsForUploads ==
  [][\A w \in waits \ waits' :
       w.purpose = "death" /\ state = "dying" /\ state' = "inactive"
         => w.session = session /\ uploaded >= w.covers /\ \A x \in waits :
              x.purpose = "death" /\ x.session = session => x.covers <= w.covers]_vars

\* An active session was told of every local commit, the ones made while a token
\* was awaited or while there was no session too.  The one exception: a commit
\* through a reference obtained while the destructor of the previous one closed
\* the session, which the dying state does not pass on.
ActiveSessionKnowsAllCommits == state = "active" /\ ~missed => announced = local

\* Until an automatic resync, a callback that was registered and not called is
\* in one of the lists.
NoCallbackIsLost ==
  NotResynced =>
    \A c \in Callbacks : status[c] = "waiting" <=> c \in queue

\* The manager knows every session that somebody holds or is about to get, so
\* that there is never a second session of the same file: unregister_session,
\* which comes some time after the state change that calls for it, leaves a
\* session alone that get_session has handed out meanwhile.
HeldSessionIsRegistered == ref \/ getting => registered

\* The assertions of advance_state and of unregister_session hold: a session is
\* made inactive only when it is not, and is in the map when it is taken out.
NoAssertionFails == ~failed

Contract == INSTANCE SessionContract WITH resynced <- ~NotResynced

\* A SyncSession does what SessionContract says: only the arrows of the diagram
\* above SyncSession::State, and every queued callback called once, by the
\* completion of its direction, by an error or by the step to INACTIVE.
ImplementsContract == Contract!Spec

=============================================================================
