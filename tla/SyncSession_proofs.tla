-------------------------- MODULE SyncSession_proofs --------------------------
(***************************************************************************)
(* Proofs about SyncSession, for every set of callbacks, every set of      *)
(* configurations and of errors, and any number of sessions, commits, wait *)
(* operations, deaths and resyncs.                                         *)
(***************************************************************************)
EXTENDS SyncSession, TLAPS

-----------------------------------------------------------------------------
(***************************************************************************)
(* What a step can do to the state, the callbacks, the wait operations and *)
(* the commits.  The proofs below argue about these forms; the lemma       *)
(* StepForms shows that there are no others.                               *)
(***************************************************************************)

coreVars == <<state, session, made, deathCount, resyncCounter, deferredCommit, callbackVars,
              waits, dataVars, toldVars>>

LoopKept == loop' = loop \/ (loop.at \notin {"restore", "revive"} /\ loop' = LoopIdle)

\* advance_state(lock, State::inactive), from another state.
GoesInactive ==
  /\ state # "inactive"
  /\ EnterInactive(queue)
  /\ waits' \subseteq waits
  /\ LoopKept
  /\ UNCHANGED <<made, deathCount, resyncCounter, deferredCommit, dataVars>>

\* revive_if_needed by an application thread or at the end of a resync.
IsRevived ==
  /\ Revived
  /\ loop' = loop \/ (loop.at = "revive" /\ loop' = LoopIdle)
  /\ UNCHANGED <<session, made, deathCount, resyncCounter, deferredCommit, callbackVars,
                 dataVars, toldVars>>

\* close() of an active session that has changes to upload.
BeginsToDie ==
  /\ state = "active"
  /\ EnterDying(session, {}, announced)
  /\ UNCHANGED <<session, made, resyncCounter, deferredCommit, callbackVars, dataVars, toldVars,
                 loop>>

\* The wait of an earlier death ends.
OldDeathEnds ==
  /\ waits' \subseteq waits
  /\ \A w \in waits \ waits' : w.purpose = "death"
  /\ UNCHANGED <<state, session, made, deathCount, resyncCounter, deferredCommit, callbackVars,
                 dataVars, toldVars, loop>>

\* handle_error begins, or fails an assertion, or nothing happens to the core.
Quiet ==
  /\ UNCHANGED coreVars
  /\ loop' = loop \/ \E at \in {"resync", "expired", "badAuth", "deactivate", "cancel"} :
                       loop.at = "idle" /\ loop' = [loop EXCEPT !.at = at]

\* A resync moves the callbacks aside.
MovesAside ==
  /\ loop.at = "resync"
  /\ state # "inactive"
  /\ EnterInactive({})
  /\ resyncCounter' = resyncCounter + 1
  /\ loop' = [at |-> "restore", aside |-> queue]
  /\ UNCHANGED <<made, deathCount, deferredCommit, waits, dataVars>>

Form ==
  \/ GoesInactive
  \/ RefreshAccessToken
  \/ IsRevived
  \/ BeginsToDie
  \/ OldDeathEnds
  \/ Quiet
  \/ MovesAside
  \/ \E c \in Callbacks : WaitForCompletion(c)
  \/ Commit
  \/ Upload
  \/ \E w \in waits : CompletionHandler(w)
  \/ HandleErrorExpired
  \/ HandleErrorCancel
  \/ HandleErrorRestore

LEMMA StepForms == [Next]_vars => Form
  <1> SUFFICES ASSUME [Next]_vars PROVE Form
    OBVIOUS
  <1> USE DEF Form
  <1>1. CASE UNCHANGED vars
    <2>1. Quiet
      BY <1>1 DEF vars, lifeVars, deferredVars, Quiet, coreVars
    <2>. QED
      BY <2>1
  <1>2. ASSUME NEW w \in waits, DeathHandler(w)
        PROVE  Form
    <2>1. CASE ThisDeath(w)
      <3>1. GoesInactive
        BY <1>2, <2>1 DEF DeathHandler, ThisDeath, GoesInactive, deferredVars, LoopKept
      <3>. QED
        BY <3>1
    <2>2. CASE ~ThisDeath(w)
      <3>1. OldDeathEnds
        BY <1>2, <2>2 DEF DeathHandler, OldDeathEnds, deferredVars, EnterInactive
      <3>. QED
        BY <3>1
    <2>. QED
      BY <2>1, <2>2
  <1>3. CASE HandleErrorDeactivate
    <2>1. GoesInactive \/ Quiet
      BY <1>3 DEF HandleErrorDeactivate, AssertionFails, ToInactive, GoesInactive, Quiet, coreVars,
                  LoopKept, lifeVars, deferredVars
    <2>. QED
      BY <2>1
  <1>4. CASE HandleErrorResync
    <2>1. MovesAside \/ Quiet
      BY <1>4 DEF HandleErrorResync, AssertionFails, MovesAside, Quiet, coreVars, lifeVars, deferredVars
    <2>. QED
      BY <2>1
  <1>5. CASE HandleErrorRevive \/ ReviveIfNeeded \/ GetSession
    <2>1. IsRevived
      BY <1>5 DEF HandleErrorRevive, ReviveIfNeeded, GetSession, IsRevived
    <2>. QED
      BY <2>1
  <1>6. CASE LogOut \/ \E new \in Configs : UpdateConfiguration(new)
    <2>1. GoesInactive \/ Quiet
      BY <1>6 DEF LogOut, UpdateConfiguration, ToInactive, GoesInactive, LoopKept, Quiet, coreVars,
                  deferredVars
    <2>. QED
      BY <2>1
  <1>7. CASE DropReference \/ ExternalReference \/ \E t \in Threads : UnregisterSession(t)
    <2>1. Quiet
      BY <1>7 DEF DropReference, ExternalReference, UnregisterSession, Quiet, coreVars, lifeVars, deferredVars
    <2>. QED
      BY <2>1
  <1>8. CASE DidDropExternalReference
    <2>1. GoesInactive \/ BeginsToDie \/ Quiet
      BY <1>8 DEF DidDropExternalReference, Close, CloseWaiting, CloseActive, CloseInactive,
                  NothingCloses, ToInactive, GoesInactive, BeginsToDie, Quiet, coreVars, lifeVars,
                  deferredVars, LoopKept
    <2>. QED
      BY <2>1
  <1>9. ASSUME NEW kind \in ErrorKinds, HandleError(kind)
        PROVE  Form
    <2>1. CASE state = "dying"
      <3>1. GoesInactive
        BY <1>9, <2>1 DEF HandleError, ToInactive, GoesInactive, LoopKept, deferredVars
      <3>. QED
        BY <3>1
    <2>2. CASE state # "dying"
      <3>1. kind \in Kinds
        BY SessionAssumptions
      <3>2. AfterFirst(kind) \in {"idle", "resync", "expired", "badAuth", "deactivate", "cancel"}
        BY <3>1 DEF AfterFirst, Kinds
      <3>3. Quiet
        BY <1>9, <2>2, <3>2 DEF HandleError, Quiet, coreVars, lifeVars, deferredVars, LoopFree
      <3>. QED
        BY <3>3
    <2>. QED
      BY <2>1, <2>2
  <1>. QED
    BY <1>1, <1>2, <1>3, <1>4, <1>5, <1>6, <1>7, <1>8, <1>9 DEF Next, LoopStep, AppStep

-----------------------------------------------------------------------------
(***************************************************************************)
(* The underlying session.                                                 *)
(***************************************************************************)

SessionInv ==
  /\ state \in States
  /\ made \in Nat
  /\ session \in 0 .. made
  /\ SessionMatchesState

LEMMA InitSession == Init => SessionInv
  BY DEF Init, SessionInv, SessionMatchesState, States

LEMMA NextSession == SessionInv /\ [Next]_vars => SessionInv'
  <1> SUFFICES ASSUME SessionInv, Form PROVE SessionInv'
    BY StepForms
  <1> USE DEF SessionInv, SessionMatchesState, States
  <1>1. CASE GoesInactive \/ MovesAside
    BY <1>1 DEF GoesInactive, MovesAside, EnterInactive
  <1>2. CASE RefreshAccessToken
    BY <1>2 DEF RefreshAccessToken, TokenAwaited, EnterDying
  <1>3. CASE IsRevived
    BY <1>3 DEF IsRevived, Revived
  <1>4. CASE BeginsToDie
    BY <1>4 DEF BeginsToDie, EnterDying
  <1>5. CASE HandleErrorExpired
    BY <1>5 DEF HandleErrorExpired
  <1>6. CASE UNCHANGED <<state, session, made>>
    BY <1>6
  <1>. QED
    BY <1>1, <1>2, <1>3, <1>4, <1>5, <1>6
    DEF Form, OldDeathEnds, Quiet, coreVars, WaitForCompletion, Commit, Upload, CompletionHandler,
        HandleErrorCancel, HandleErrorRestore, lifeVars

(***************************************************************************)
(* m_session exists wherever add_completion_callback dereferences it, and  *)
(* is gone in the inactive state, as update_configuration asserts.         *)
(***************************************************************************)
THEOREM SessionMatchesStateHolds == Spec => []SessionMatchesState
  <1>1. SessionInv => SessionMatchesState
    BY DEF SessionInv
  <1>. QED
    BY <1>1, InitSession, NextSession, PTL DEF Spec

-----------------------------------------------------------------------------
(***************************************************************************)
(* Completion callbacks.  Besides NoCallbackIsLost, the induction needs    *)
(* what a resync does while the lock is released: the callbacks set aside  *)
(* are still waiting and none of them is queued again.                     *)
(***************************************************************************)

Statuses == {"unused", "waiting", "ok", "aborted", "error"}

CallbackInv ==
  /\ resyncCounter \in Nat
  /\ queue \subseteq Callbacks
  /\ loop \in LoopStates
  /\ status \in [Callbacks -> Statuses]
  /\ \A c \in queue \cup loop.aside : status[c] = "waiting"
  /\ queue \cap loop.aside = {}
  /\ loop.at # "restore" => loop.aside = {}
  /\ loop.at \in {"restore", "revive"} => ~NotResynced
  /\ NoCallbackIsLost

LEMMA InitCallback == Init => CallbackInv
  BY DEF Init, CallbackInv, LoopIdle, LoopStates, Statuses, NoCallbackIsLost, NotResynced

\* Callbacks of the queue are called and taken off it.
LEMMA CalledOff ==
  ASSUME CallbackInv, NEW list \in SUBSET queue, NEW outcome \in Statuses \ {"waiting"},
         Call(list, outcome), queue' = queue \ list, UNCHANGED resyncCounter,
         loop' \in LoopStates, loop'.aside = loop.aside,
         loop'.at = loop.at \/ {loop.at, loop'.at} \cap {"restore", "revive"} = {}
  PROVE  CallbackInv'
  <1> USE DEF CallbackInv
  <1>1. /\ status' \in [Callbacks -> Statuses]
        /\ \A c \in Callbacks : status'[c] = IF c \in list THEN outcome ELSE status[c]
    BY DEF Call
  <1>2. loop.aside \subseteq Callbacks
    BY DEF LoopStates
  <1>3. /\ \A c \in queue' \cup loop'.aside : status'[c] = "waiting"
        /\ queue' \subseteq Callbacks /\ queue' \cap loop'.aside = {}
    BY <1>1, <1>2
  <1>4. NoCallbackIsLost'
    BY <1>1 DEF NoCallbackIsLost, NotResynced
  <1>5. loop'.at # "restore" => loop'.aside = {}
    OBVIOUS
  <1>6. loop'.at \in {"restore", "revive"} => ~NotResynced'
    BY DEF NotResynced
  <1>. QED
    BY <1>1, <1>3, <1>4, <1>5, <1>6

\* The callbacks and the counter stay, and the event loop enters no resync.
LEMMA CallbacksKept ==
  ASSUME CallbackInv, UNCHANGED <<queue, status, resyncCounter>>, loop' \in LoopStates,
         loop'.aside = loop.aside, loop'.at = loop.at \/ loop'.at \notin {"restore", "revive"},
         loop.at = "restore" => loop'.at = "restore"
  PROVE  CallbackInv'
  BY DEF CallbackInv, NoCallbackIsLost, NotResynced

LEMMA LoopIdleType == LoopIdle \in LoopStates /\ LoopIdle.at = "idle" /\ LoopIdle.aside = {}
  BY DEF LoopIdle, LoopStates

LEMMA NextCallback == CallbackInv /\ [Next]_vars => CallbackInv'
  <1> SUFFICES ASSUME CallbackInv, Form PROVE CallbackInv'
    BY StepForms
  <1>0. /\ loop \in LoopStates /\ queue \subseteq Callbacks
        /\ loop.at # "restore" => loop.aside = {}
    BY DEF CallbackInv
  <1>1. CASE GoesInactive
    <2>1. /\ Call(queue, "aborted") /\ queue' = queue \ queue /\ UNCHANGED resyncCounter
      BY <1>1 DEF GoesInactive, EnterInactive
    <2>2. loop' \in LoopStates /\ loop'.aside = loop.aside
          /\ (loop'.at = loop.at \/ {loop.at, loop'.at} \cap {"restore", "revive"} = {})
      BY <1>0, <1>1, LoopIdleType DEF GoesInactive, LoopKept
    <2>. QED
      BY <2>1, <2>2, CalledOff DEF Statuses
  <1>2. ASSUME UNCHANGED <<queue, status, resyncCounter, loop>>
        PROVE  CallbackInv'
    BY <1>0, <1>2, CallbacksKept
  <1>3. CASE RefreshAccessToken \/ BeginsToDie \/ OldDeathEnds \/ Commit \/ Upload
    BY <1>2, <1>3 DEF RefreshAccessToken, BeginsToDie, OldDeathEnds, Commit, Upload, callbackVars,
                      lifeVars
  <1>4. CASE IsRevived
    <2>1. UNCHANGED <<queue, status, resyncCounter>>
          /\ (loop' = loop \/ (loop.at = "revive" /\ loop' = LoopIdle))
      BY <1>4 DEF IsRevived, callbackVars
    <2>. QED
      BY <1>0, <2>1, LoopIdleType, CallbacksKept
  <1>5. CASE Quiet
    <2>1. UNCHANGED <<queue, status, resyncCounter>>
      BY <1>5 DEF Quiet, coreVars, callbackVars
    <2>2. ASSUME NEW at \in {"resync", "expired", "badAuth", "deactivate", "cancel"},
                 loop.at = "idle", loop' = [loop EXCEPT !.at = at]
          PROVE  CallbackInv'
      <3>1. loop' \in LoopStates /\ loop'.aside = loop.aside /\ loop'.at = at
        BY <1>0, <2>2 DEF LoopStates
      <3>. QED
        BY <2>1, <2>2, <3>1, CallbacksKept
    <2>. QED
      BY <1>2, <1>5, <2>1, <2>2 DEF Quiet
  <1>6. CASE MovesAside
    <2>1. /\ queue' = {} /\ Call({}, "aborted") /\ resyncCounter' = resyncCounter + 1
          /\ loop' = [at |-> "restore", aside |-> queue]
      BY <1>6 DEF MovesAside, EnterInactive
    <2>2. status' = status
      BY <2>1 DEF Call, CallbackInv
    <2>3. loop' \in LoopStates /\ loop'.aside = queue /\ loop'.at = "restore"
      BY <1>0, <2>1 DEF LoopStates
    <2>4. resyncCounter' \in Nat /\ ~NotResynced'
      BY <2>1 DEF CallbackInv, NotResynced
    <2>. QED
      BY <2>1, <2>2, <2>3, <2>4 DEF CallbackInv, NoCallbackIsLost
  <1>7. ASSUME NEW c \in Callbacks, WaitForCompletion(c)
        PROVE  CallbackInv'
    <2>1. /\ status[c] = "unused" /\ status' = [status EXCEPT ![c] = "waiting"]
          /\ queue' = queue \cup {c} /\ UNCHANGED <<resyncCounter, loop>>
      BY <1>7 DEF WaitForCompletion, lifeVars
    <2>2. c \notin loop.aside
      BY <2>1 DEF CallbackInv
    <2>3. loop.aside \subseteq Callbacks
      BY <1>0 DEF LoopStates
    <2>. QED
      BY <2>1, <2>2, <2>3 DEF CallbackInv, NoCallbackIsLost, NotResynced, Statuses
  <1>8. ASSUME NEW w \in waits, CompletionHandler(w)
        PROVE  CallbackInv'
    <2>1. PICK outcome \in Outcomes(w) : Completed(w, outcome)
      BY <1>8 DEF CompletionHandler
    <2>2. outcome \in {"ok", "aborted"}
      BY <2>1 DEF Outcomes
    <2>3. PICK list \in SUBSET queue : Call(list, outcome) /\ queue' = queue \ list
      BY <2>1 DEF Completed
    <2>4. UNCHANGED <<resyncCounter, loop>>
      BY <1>8 DEF CompletionHandler, lifeVars
    <2>. QED
      BY <1>0, <2>2, <2>3, <2>4, CalledOff DEF Statuses
  <1>9. CASE HandleErrorExpired
    <2>1. UNCHANGED <<queue, status, resyncCounter>> /\ loop.at = "expired" /\ loop' = LoopIdle
      BY <1>9 DEF HandleErrorExpired, callbackVars
    <2>. QED
      BY <1>0, <2>1, LoopIdleType, CallbacksKept
  <1>10. CASE HandleErrorCancel
    <2>1. /\ Call(queue, "error") /\ queue' = queue \ queue /\ UNCHANGED resyncCounter
          /\ loop.at \in {"badAuth", "cancel"}
      BY <1>10 DEF HandleErrorCancel, lifeVars
    <2>2. loop' \in LoopStates /\ loop'.aside = loop.aside /\ loop'.at \in {"idle", "cancel"}
      <3>1. loop' = LoopIdle \/ loop' = [loop EXCEPT !.at = "cancel"]
        BY <1>10 DEF HandleErrorCancel
      <3>. QED
        BY <1>0, <2>1, <3>1, LoopIdleType DEF LoopStates
    <2>. QED
      BY <2>1, <2>2, CalledOff DEF Statuses
  <1>11. CASE HandleErrorRestore
    <2>1. /\ loop.at = "restore" /\ queue' = loop.aside /\ loop' = [at |-> "revive", aside |-> {}]
          /\ UNCHANGED <<status, resyncCounter>>
      BY <1>11 DEF HandleErrorRestore, lifeVars
    <2>2. loop' \in LoopStates /\ loop'.aside = {} /\ loop'.at = "revive"
      BY <2>1 DEF LoopStates
    <2>3. loop.aside \subseteq Callbacks /\ ~NotResynced /\ ~NotResynced'
      BY <1>0, <2>1 DEF LoopStates, CallbackInv, NotResynced
    <2>. QED
      BY <2>1, <2>2, <2>3 DEF CallbackInv, NoCallbackIsLost
  <1>. QED
    BY <1>1, <1>3, <1>4, <1>5, <1>6, <1>7, <1>8, <1>9, <1>10, <1>11 DEF Form

(***************************************************************************)
(* Until an automatic resync, a callback that was registered and not       *)
(* called is in one of the lists, whatever closes, revives, cancels and    *)
(* completes in between.                                                   *)
(***************************************************************************)
THEOREM NoCallbackIsLostHolds == Spec => []NoCallbackIsLost
  <1>1. CallbackInv => NoCallbackIsLost
    BY DEF CallbackInv
  <1>. QED
    BY <1>1, InitCallback, NextCallback, PTL DEF Spec

-----------------------------------------------------------------------------
(***************************************************************************)
(* SyncSession implements SessionContract.                                 *)
(***************************************************************************)

contractVars == <<state, status, ~NotResynced>>

\* Every wait operation is one for uploads or one for downloads.
DirectionInv == \A w \in waits : w.direction \in {"upload", "download"}

LEMMA DirectionType ==
  /\ \A c \in Callbacks : Direction(c) \in {"upload", "download"}
  /\ \A c \in Callbacks : Direction(c) = "upload" <=> c \in UploadCallbacks
  /\ \A c \in Callbacks : Direction(c) = "download" <=> c \in DownloadCallbacks
  BY SessionAssumptions DEF Direction, Callbacks

LEMMA NewWaitsDirection ==
  ASSUME NEW s, NEW todo, todo \subseteq {"upload", "download"}, NEW covers
  PROVE  \A w \in NewWaits(s, todo, covers) : w.direction \in todo
  BY DEF NewWaits

LEMMA NextDirection ==
  ASSUME CallbackInv, DirectionInv, [Next]_vars
  PROVE  DirectionInv'
  <1> SUFFICES ASSUME Form PROVE DirectionInv'
    BY StepForms
  <1>0. Queued \subseteq {"upload", "download"}
    BY DirectionType DEF Queued, CallbackInv
  <1>1. ASSUME waits' \subseteq waits PROVE DirectionInv'
    BY <1>1 DEF DirectionInv
  <1>2. ASSUME NEW s, NEW todo \in SUBSET {"upload", "download"}, NEW v,
               StartWaits(NewWaits(s, todo, v)) \/ EnterDying(s, todo, v)
        PROVE  DirectionInv'
    <2>1. \A w \in NewWaits(s, todo, v) : w.direction \in {"upload", "download"}
      BY NewWaitsDirection
    <2>2. \A w \in waits' : \/ w \in waits \cup NewWaits(s, todo, v)
                            \/ w.direction = "upload"
      BY <1>2 DEF StartWaits, EnterDying
    <2>. QED
      BY <2>1, <2>2 DEF DirectionInv
  <1>3. CASE RefreshAccessToken
    <2>1. \E s, v : StartWaits(NewWaits(s, Queued, v)) \/ EnterDying(s, Queued, v)
      BY <1>3 DEF RefreshAccessToken
    <2>. QED
      BY <1>0, <1>2, <2>1
  <1>4. CASE IsRevived
    <2>1. waits' = waits \/ StartWaits(NewWaits(session, Queued, announced))
      BY <1>4 DEF IsRevived, Revived
    <2>. QED
      BY <1>0, <1>1, <1>2, <2>1
  <1>5. CASE BeginsToDie
    BY <1>2, <1>5 DEF BeginsToDie
  <1>6. ASSUME NEW c \in Callbacks, WaitForCompletion(c)
        PROVE  DirectionInv'
    <2>1. waits' = waits \/ StartWaits(NewWaits(session, {Direction(c)}, announced))
      BY <1>6 DEF WaitForCompletion
    <2>2. {Direction(c)} \in SUBSET {"upload", "download"}
      BY DirectionType
    <2>. QED
      BY <1>1, <1>2, <2>1, <2>2
  <1>7. CASE waits' \subseteq waits
    BY <1>1, <1>7
  <1>. QED
    BY <1>3, <1>4, <1>5, <1>6, <1>7
    DEF Form, GoesInactive, OldDeathEnds, Quiet, coreVars, MovesAside, Commit, Upload,
        CompletionHandler, HandleErrorExpired, HandleErrorCancel, HandleErrorRestore

\* The callbacks of list are called, those of cs promised: all that are queued
\* among cs, unless a resync has taken some out of reach.
LEMMA CallIsCallAll ==
  ASSUME CallbackInv, NEW cs \in SUBSET Callbacks, NEW outcome,
         Call(queue \cap cs, outcome)
  PROVE  Contract!CallAll(cs, outcome)
  <1> DEFINE reached == IF NotResynced THEN cs ELSE queue \cap cs
  <1>1. reached \in IF ~NotResynced THEN SUBSET cs ELSE {cs}
    OBVIOUS
  <1>2. Contract!Queue = Callbacks
    BY DEF Contract!Queue, Callbacks
  <1>3. ASSUME NEW c \in Callbacks
        PROVE  c \in queue \cap cs <=> c \in reached /\ status[c] = "waiting"
    <2>1. c \in queue => status[c] = "waiting"
      BY DEF CallbackInv
    <2>2. NotResynced => (status[c] = "waiting" <=> c \in queue)
      BY DEF CallbackInv, NoCallbackIsLost
    <2>. QED
      BY <2>1, <2>2
  <1>4. status' = [c \in Callbacks |->
                     IF c \in reached /\ status[c] = "waiting" THEN outcome ELSE status[c]]
    BY <1>3 DEF Call
  <1>. QED
    BY <1>1, <1>2, <1>4 DEF Contract!CallAll

LEMMA ContractStep ==
  ASSUME SessionInv, CallbackInv, DirectionInv, [Next]_vars
  PROVE  [Contract!Next]_contractVars
  <1> SUFFICES ASSUME Form PROVE [Contract!Next]_contractVars
    BY StepForms
  <1>0. /\ state \in States /\ queue \subseteq Callbacks
        /\ Contract!Queue = Callbacks /\ status \in [Callbacks -> Statuses]
    BY DEF SessionInv, CallbackInv, Contract!Queue, Callbacks
  <1>1. CASE UNCHANGED <<state, status, resyncCounter>>
    BY <1>1 DEF contractVars, NotResynced
  <1>2. ASSUME NEW next \in {"waiting", "active", "dying"}, state' = next,
               <<state, next>> \in Contract!Arrows, UNCHANGED <<status, resyncCounter>>
        PROVE  [Contract!Next]_contractVars
    <2>1. Contract!Move(next)
      BY <1>2 DEF Contract!Move, NotResynced
    <2>. QED
      BY <1>2, <2>1 DEF Contract!Next
  <1>3. CASE GoesInactive
    <2>1. /\ state # "inactive" /\ state' = "inactive" /\ Call(queue, "aborted")
          /\ UNCHANGED resyncCounter
      BY <1>3 DEF GoesInactive, EnterInactive
    <2>2. Contract!CallAll(Callbacks, "aborted")
      <3>1. queue \cap Callbacks = queue
        BY <1>0
      <3>. QED
        BY <2>1, <3>1, CallIsCallAll
    <2>3. <<state, "inactive">> \in Contract!Arrows
      BY <1>0, <2>1 DEF States, Contract!Arrows
    <2>4. Contract!Move("inactive")
      BY <1>0, <2>1, <2>2, <2>3 DEF Contract!Move, NotResynced
    <2>. QED
      BY <2>4 DEF Contract!Next
  <1>4. CASE RefreshAccessToken
    <2>1. state = "waiting" /\ state' \in {"active", "dying"} /\ UNCHANGED <<status, resyncCounter>>
      BY <1>4 DEF RefreshAccessToken, TokenAwaited, EnterDying, callbackVars
    <2>. QED
      BY <1>2, <2>1 DEF Contract!Arrows
  <1>5. CASE IsRevived
    <2>1. UNCHANGED <<status, resyncCounter>>
      BY <1>5 DEF IsRevived, callbackVars
    <2>2. \/ UNCHANGED state
          \/ state = "dying" /\ state' = "active"
          \/ state = "inactive" /\ state' = "waiting"
      BY <1>5 DEF IsRevived, Revived
    <2>. QED
      BY <1>1, <1>2, <2>1, <2>2 DEF Contract!Arrows
  <1>6. CASE BeginsToDie
    <2>1. state = "active" /\ state' = "dying" /\ UNCHANGED <<status, resyncCounter>>
      BY <1>6 DEF BeginsToDie, EnterDying, callbackVars
    <2>. QED
      BY <1>2, <2>1 DEF Contract!Arrows
  <1>7. CASE MovesAside
    <2>1. /\ state # "inactive" /\ state' = "inactive" /\ Call({}, "aborted")
          /\ resyncCounter' = resyncCounter + 1
      BY <1>7 DEF MovesAside, EnterInactive
    <2>2. status' = status
      BY <1>0, <2>1 DEF Call
    <2>3. ~NotResynced'
      BY <2>1 DEF NotResynced, CallbackInv
    <2>4. <<state, "inactive">> \in Contract!Arrows
      BY <1>0, <2>1 DEF States, Contract!Arrows
    <2>5. Contract!Resync
      BY <2>1, <2>2, <2>3, <2>4 DEF Contract!Resync
    <2>. QED
      BY <2>5 DEF Contract!Next
  <1>8. ASSUME NEW c \in Callbacks, WaitForCompletion(c)
        PROVE  [Contract!Next]_contractVars
    <2>1. Contract!Register(c)
      BY <1>8 DEF WaitForCompletion, Contract!Register, lifeVars, NotResynced
    <2>. QED
      BY <1>0, <2>1 DEF Contract!Next
  <1>9. ASSUME NEW w \in waits, CompletionHandler(w)
        PROVE  [Contract!Next]_contractVars
    <2>1. PICK outcome \in Outcomes(w) : Completed(w, outcome)
      BY <1>9 DEF CompletionHandler
    <2>2. outcome \in {"ok", "aborted"}
      BY <2>1 DEF Outcomes
    <2>3. UNCHANGED <<state, resyncCounter>>
      BY <1>9 DEF CompletionHandler, lifeVars
    <2>4. CASE w.tag # resyncCounter
      <3>1. Call({}, outcome)
        BY <2>1, <2>4 DEF Completed
      <3>2. status' = status
        BY <1>0, <3>1 DEF Call
      <3>. QED
        BY <1>1, <2>3, <3>2
    <2>5. CASE w.tag = resyncCounter
      <3>1. PICK cs \in {UploadCallbacks, DownloadCallbacks} :
              {c \in queue : Direction(c) = w.direction} = queue \cap cs
        <4>1. w.direction \in {"upload", "download"}
          BY DEF DirectionInv
        <4>2. CASE w.direction = "upload"
          <5>1. {c \in queue : Direction(c) = w.direction} = queue \cap UploadCallbacks
            BY <1>0, <4>2, DirectionType
          <5>. QED
            BY <5>1
        <4>3. CASE w.direction = "download"
          <5>1. {c \in queue : Direction(c) = w.direction} = queue \cap DownloadCallbacks
            BY <1>0, <4>3, DirectionType
          <5>. QED
            BY <5>1
        <4>. QED
          BY <4>1, <4>2, <4>3
      <3>2. Call(queue \cap cs, outcome)
        BY <2>1, <2>5, <3>1 DEF Completed
      <3>3. cs \in SUBSET Callbacks
        BY DEF Callbacks
      <3>4. Contract!CallAll(cs, outcome)
        BY <3>2, <3>3, CallIsCallAll
      <3>5. Contract!Complete(cs)
        BY <2>2, <2>3, <3>4 DEF Contract!Complete, NotResynced
      <3>. QED
        BY <3>5 DEF Contract!Next
    <2>. QED
      BY <2>4, <2>5
  <1>10. CASE HandleErrorExpired
    <2>1. UNCHANGED <<status, resyncCounter>>
          /\ state' = IF state = "active" THEN "waiting" ELSE state
      BY <1>10 DEF HandleErrorExpired, callbackVars
    <2>. QED
      BY <1>1, <1>2, <2>1 DEF Contract!Arrows
  <1>11. CASE HandleErrorCancel
    <2>1. Call(queue, "error") /\ UNCHANGED <<state, resyncCounter>>
      BY <1>11 DEF HandleErrorCancel, lifeVars
    <2>2. queue \cap Callbacks = queue
      BY <1>0
    <2>3. Contract!CallAll(Callbacks, "error")
      BY <2>1, <2>2, CallIsCallAll
    <2>4. Contract!Cancel
      BY <1>0, <2>1, <2>3 DEF Contract!Cancel, NotResynced
    <2>. QED
      BY <2>4 DEF Contract!Next
  <1>. QED
    BY <1>1, <1>3, <1>4, <1>5, <1>6, <1>7, <1>8, <1>9, <1>10, <1>11
    DEF Form, OldDeathEnds, Quiet, coreVars, callbackVars, Commit, Upload, HandleErrorRestore, lifeVars

(***************************************************************************)
(* SyncSession implements SessionContract: what the users of a session see *)
(* of it are the arrows of the diagram above SyncSession::State, and each  *)
(* registered callback called once, at a moment the contract names.        *)
(***************************************************************************)
THEOREM ImplementsContractHolds == Spec => ImplementsContract
  <1>1. Init => Contract!Init
    BY DEF Init, Contract!Init, Contract!Queue, Callbacks, NotResynced
  <1>2. Init => DirectionInv
    BY DEF Init, DirectionInv
  <1>3. SessionInv /\ CallbackInv /\ DirectionInv /\ [Next]_vars => DirectionInv'
    BY NextDirection
  <1>4. SessionInv /\ CallbackInv /\ DirectionInv /\ [Next]_vars => [Contract!Next]_contractVars
    BY ContractStep
  <1>5. Spec => Contract!Init /\ [][Contract!Next]_contractVars
    BY <1>1, <1>2, <1>3, <1>4, InitSession, NextSession, InitCallback, NextCallback, PTL DEF Spec
  <1>. QED
    BY <1>5 DEF ImplementsContract, Contract!Spec, contractVars

-----------------------------------------------------------------------------
(***************************************************************************)
(* Commits.  A session that waits for a token again keeps its underlying   *)
(* session, which then knows all commits but the ones the deferred         *)
(* notification stands for.                                                *)
(***************************************************************************)

CommitInv ==
  /\ local \in Nat /\ announced \in 0 .. local /\ deferredCommit \in 0 .. local
  /\ ~missed /\ state \in {"active", "dying"} => announced = local
  /\ ~missed /\ state = "waiting" /\ session # 0 => announced = local \/ deferredCommit = local
  /\ missed \in BOOLEAN

LEMMA InitCommit == Init => CommitInv
  <1> SUFFICES ASSUME Init PROVE CommitInv
    OBVIOUS
  <1>1. missed \in BOOLEAN
    BY Zenon DEF Init
  <1>. QED
    BY <1>1 DEF Init, CommitInv

LEMMA NextCommit == SessionInv /\ CommitInv /\ [Next]_vars => CommitInv'
  <1> SUFFICES ASSUME SessionInv, CommitInv, Form PROVE CommitInv'
    BY StepForms
  <1>0. missed \in BOOLEAN
    BY DEF CommitInv
  <1>1. CASE GoesInactive \/ MovesAside
    <2>1. /\ state' = "inactive" /\ announced' = 0 /\ missed' = FALSE
          /\ UNCHANGED <<local, deferredCommit>>
      BY <1>1 DEF GoesInactive, MovesAside, EnterInactive, dataVars
    <2>2. missed' \in BOOLEAN
      BY <2>1, Zenon
    <2>. QED
      BY <2>1, <2>2 DEF CommitInv
  <1>2. CASE RefreshAccessToken
    <2>1. /\ state = "waiting" /\ state' \in {"active", "dying"}
          /\ announced' = AnnouncedAfterRefresh /\ missed' = (missed /\ session # 0)
          /\ deferredCommit' = 0 /\ UNCHANGED local
      BY <1>2 DEF RefreshAccessToken, TokenAwaited, EnterDying
    <2>2. missed' \in BOOLEAN
      BY <1>0, <2>1, Zenon
    <2>3. announced' \in 0 .. local /\ (~missed' => announced' = local)
      <3>1. CASE session = 0
        BY <2>1, <3>1 DEF AnnouncedAfterRefresh, CommitInv
      <3>2. CASE session # 0
        BY <2>1, <3>2 DEF AnnouncedAfterRefresh, CommitInv
      <3>. QED
        BY <3>1, <3>2
    <2>. QED
      BY <2>1, <2>2, <2>3 DEF CommitInv
  <1>3. CASE IsRevived
    <2>1. UNCHANGED <<session, announced, missed, deferredCommit, local>>
      BY <1>3 DEF IsRevived, dataVars, toldVars
    <2>2. \/ UNCHANGED state
          \/ state = "dying" /\ state' = "active"
          \/ state = "inactive" /\ state' = "waiting" /\ session = 0
      BY <1>3 DEF IsRevived, Revived, SessionInv, SessionMatchesState
    <2>. QED
      BY <1>0, <2>1, <2>2 DEF CommitInv
  <1>4. CASE BeginsToDie
    <2>1. state = "active" /\ state' = "dying"
          /\ UNCHANGED <<session, announced, missed, deferredCommit, local>>
      BY <1>4 DEF BeginsToDie, EnterDying, dataVars, toldVars
    <2>. QED
      BY <1>0, <2>1 DEF CommitInv
  <1>5. CASE Commit
    <2>1. /\ local' = local + 1
          /\ announced' = IF state = "active" THEN local' ELSE announced
          /\ missed' = (state = "dying" \/ (missed /\ state # "active"))
          /\ deferredCommit' = IF state = "waiting" THEN local' ELSE deferredCommit
          /\ UNCHANGED <<state, session>>
      BY <1>5 DEF Commit, lifeVars
    <2>2. missed' \in BOOLEAN
      BY <1>0, <2>1, Zenon
    <2>3. /\ local' \in Nat /\ announced' \in 0 .. local' /\ deferredCommit' \in 0 .. local'
          /\ state = "active" => announced' = local'
          /\ state = "waiting" => deferredCommit' = local'
      BY <2>1 DEF CommitInv
    <2>4. state = "dying" => missed'
      BY <2>1, Zenon
    <2>. QED
      BY <2>1, <2>2, <2>3, <2>4 DEF CommitInv
  <1>6. CASE HandleErrorExpired
    <2>1. UNCHANGED <<session, announced, missed, deferredCommit, local>>
          /\ state' = IF state = "active" THEN "waiting" ELSE state
      BY <1>6 DEF HandleErrorExpired, dataVars, toldVars
    <2>. QED
      BY <1>0, <2>1 DEF CommitInv
  <1>7. CASE UNCHANGED <<state, session, announced, missed, deferredCommit, local>>
    BY <1>0, <1>7 DEF CommitInv
  <1>. QED
    BY <1>1, <1>2, <1>3, <1>4, <1>5, <1>6, <1>7
    DEF Form, OldDeathEnds, Quiet, coreVars, WaitForCompletion, Upload, CompletionHandler,
        HandleErrorCancel, HandleErrorRestore, lifeVars, deferredVars, dataVars, toldVars

(***************************************************************************)
(* An active session was told of every local commit, whatever was          *)
(* committed while a token was awaited or no session existed, unless the   *)
(* commit came through a reference obtained while the session was dying    *)
(* (nonsync_transact_notify, refresh_access_token).                        *)
(***************************************************************************)
THEOREM ActiveSessionKnowsAllCommitsHolds == Spec => []ActiveSessionKnowsAllCommits
  <1>1. CommitInv => ActiveSessionKnowsAllCommits
    BY DEF CommitInv, ActiveSessionKnowsAllCommits
  <1>. QED
    BY <1>1, InitSession, NextSession, InitCommit, NextCommit, PTL DEF Spec

-----------------------------------------------------------------------------
(***************************************************************************)
(* Wait operations of queued callbacks.                                    *)
(***************************************************************************)

\* w is an operation whose handler will take the callbacks of direction d.
Serves(w, d) ==
  /\ w.purpose = "completion" /\ w.direction = d
  /\ w.session = session /\ w.tag = resyncCounter

LEMMA NewWaitsServe ==
  ASSUME NEW s, NEW todo, NEW covers, NEW d \in todo
  PROVE  \E w \in NewWaits(s, todo, covers) :
           /\ w.purpose = "completion" /\ w.direction = d
           /\ w.session = s /\ w.tag = resyncCounter
  <1> DEFINE w == [session |-> s, direction |-> d, purpose |-> "completion", tag |-> resyncCounter,
                   covers |-> IF d = "upload" THEN covers ELSE 0]
  <1>1. w \in NewWaits(s, todo, covers)
    BY DEF NewWaits
  <1>2. w.purpose = "completion" /\ w.direction = d /\ w.session = s /\ w.tag = resyncCounter
    OBVIOUS
  <1> HIDE DEF w
  <1>. QED
    BY <1>1, <1>2

LEMMA NextWait ==
  ASSUME CallbackInv, QueuedCallbacksHaveAWait, [Next]_vars
  PROVE  QueuedCallbacksHaveAWait'
  <1> SUFFICES ASSUME Form, NotResynced', state' \in {"active", "dying"}, NEW d, d \in Queued'
               PROVE  \E w \in waits' : Serves(w, d)'
    BY StepForms DEF QueuedCallbacksHaveAWait, Serves
  <1>0. ASSUME NotResynced, state \in {"active", "dying"}, d \in Queued
        PROVE  \E w \in waits : Serves(w, d)
    BY <1>0 DEF QueuedCallbacksHaveAWait, Serves
  <1>1. ASSUME UNCHANGED <<session, resyncCounter, queue>>, state \in {"active", "dying"},
               \A w \in waits \ waits' : w.purpose = "death"
        PROVE  \E w \in waits' : Serves(w, d)'
    <2>1. d \in Queued /\ NotResynced
      BY <1>1 DEF Queued, NotResynced
    <2>2. PICK w \in waits : Serves(w, d)
      BY <1>0, <1>1, <2>1
    <2>3. w \in waits' /\ Serves(w, d)'
      BY <1>1, <2>2 DEF Serves
    <2>. QED
      BY <2>3
  <1>2. ASSUME NEW s, NEW v, UNCHANGED <<queue, resyncCounter>>, session' = s,
               NewWaits(s, Queued, v) \subseteq waits'
        PROVE  \E w \in waits' : Serves(w, d)'
    <2>1. d \in Queued
      BY <1>2 DEF Queued
    <2>2. PICK w \in NewWaits(s, Queued, v) :
            /\ w.purpose = "completion" /\ w.direction = d
            /\ w.session = s /\ w.tag = resyncCounter
      BY <2>1, NewWaitsServe
    <2>. QED
      BY <1>2, <2>2 DEF Serves
  <1>3. CASE GoesInactive \/ MovesAside
    BY <1>3 DEF GoesInactive, MovesAside, EnterInactive
  <1>4. CASE RefreshAccessToken
    <2>1. \E s, v : session' = s /\ NewWaits(s, Queued, v) \subseteq waits'
      BY <1>4 DEF RefreshAccessToken, EnterDying, StartWaits
    <2>. QED
      BY <1>2, <1>4, <2>1 DEF RefreshAccessToken, callbackVars
  <1>5. CASE IsRevived
    <2>1. UNCHANGED <<session, queue, resyncCounter>>
      BY <1>5 DEF IsRevived, callbackVars
    <2>2. CASE state = "dying" /\ StartWaits(NewWaits(session, Queued, announced))
      BY <1>2, <2>1, <2>2 DEF StartWaits
    <2>3. CASE state = "active" /\ UNCHANGED waits
      BY <1>1, <2>1, <2>3
    <2>. QED
      BY <1>5, <2>2, <2>3 DEF IsRevived, Revived
  <1>6. CASE BeginsToDie
    <2>1. UNCHANGED <<session, queue, resyncCounter>> /\ state = "active" /\ waits \subseteq waits'
      BY <1>6 DEF BeginsToDie, EnterDying, StartWaits, callbackVars
    <2>. QED
      BY <1>1, <2>1
  <1>7. CASE OldDeathEnds \/ Quiet \/ Commit \/ Upload
    <2>1. UNCHANGED <<state, session, queue, resyncCounter>>
          /\ \A w \in waits \ waits' : w.purpose = "death"
      BY <1>7 DEF OldDeathEnds, Quiet, coreVars, Commit, Upload, callbackVars, lifeVars
    <2>. QED
      BY <1>1, <2>1
  <1>8. ASSUME NEW c \in Callbacks, WaitForCompletion(c)
        PROVE  \E w \in waits' : Serves(w, d)'
    <2>1. /\ queue' = queue \cup {c} /\ UNCHANGED <<state, session, resyncCounter>>
          /\ IF Direction(c) \notin Queued /\ state \in {"active", "dying"}
             THEN StartWaits(NewWaits(session, {Direction(c)}, announced))
             ELSE UNCHANGED waits
      BY <1>8 DEF WaitForCompletion, lifeVars
    <2>2. d \in Queued \/ d = Direction(c)
      BY <2>1 DEF Queued
    <2>3. waits \subseteq waits'
      BY <2>1 DEF StartWaits
    <2>4. CASE d \in Queued
      <3>1. PICK w \in waits : Serves(w, d)
        BY <1>0, <2>1, <2>4 DEF NotResynced
      <3>. QED
        BY <2>1, <2>3, <3>1 DEF Serves
    <2>5. CASE d \notin Queued
      <3>1. StartWaits(NewWaits(session, {Direction(c)}, announced)) /\ d \in {Direction(c)}
        BY <2>1, <2>2, <2>5
      <3>2. PICK w \in NewWaits(session, {Direction(c)}, announced) :
              /\ w.purpose = "completion" /\ w.direction = d
              /\ w.session = session /\ w.tag = resyncCounter
        BY <3>1, NewWaitsServe
      <3>. QED
        BY <2>1, <3>1, <3>2 DEF StartWaits, Serves
    <2>. QED
      BY <2>4, <2>5
  <1>9. ASSUME NEW x \in waits, CompletionHandler(x)
        PROVE  \E w \in waits' : Serves(w, d)'
    <2>1. UNCHANGED <<state, session, resyncCounter>> /\ waits' = waits \ {x}
      BY <1>9 DEF CompletionHandler, lifeVars
    <2>2. queue' = queue \ (IF x.tag # resyncCounter THEN {}
                            ELSE {c \in queue : Direction(c) = x.direction})
      BY <1>9 DEF CompletionHandler, Completed
    <2>3. d \in Queued /\ NotResynced
      BY <2>1, <2>2 DEF Queued, NotResynced
    <2>4. PICK w \in waits : Serves(w, d)
      BY <1>0, <2>1, <2>3
    <2>5. w # x
      <3>1. CASE x.tag # resyncCounter
        BY <2>4, <3>1 DEF Serves
      <3>2. CASE x.tag = resyncCounter
        <4>1. d # x.direction
          BY <2>2, <3>2 DEF Queued
        <4>. QED
          BY <2>4, <4>1 DEF Serves
      <3>. QED
        BY <3>1, <3>2
    <2>. QED
      BY <2>1, <2>4, <2>5 DEF Serves
  <1>10. CASE HandleErrorExpired
    <2>1. UNCHANGED <<session, queue, resyncCounter, waits>>
          /\ state \in {"active", "dying"}
      BY <1>10 DEF HandleErrorExpired, callbackVars
    <2>. QED
      BY <1>1, <2>1
  <1>11. CASE HandleErrorCancel
    BY <1>11 DEF HandleErrorCancel, Queued
  <1>12. CASE HandleErrorRestore
    BY <1>12 DEF HandleErrorRestore, CallbackInv, NotResynced, lifeVars
  <1>. QED
    BY <1>3, <1>4, <1>5, <1>6, <1>7, <1>8, <1>9, <1>10, <1>11, <1>12 DEF Form

(***************************************************************************)
(* Until an automatic resync, no callback queued on a session that is up   *)
(* waits for nothing: a wait operation of its direction runs on the        *)
(* current underlying session (add_completion_callback and the states that *)
(* start the operations again).                                            *)
(***************************************************************************)
THEOREM QueuedCallbacksHaveAWaitHolds == Spec => []QueuedCallbacksHaveAWait
  <1>1. Init => QueuedCallbacksHaveAWait
    BY DEF Init, QueuedCallbacksHaveAWait
  <1>2. CallbackInv /\ QueuedCallbacksHaveAWait /\ [Next]_vars => QueuedCallbacksHaveAWait'
    BY NextWait
  <1>. QED
    BY <1>1, <1>2, InitCallback, NextCallback, PTL DEF Spec

-----------------------------------------------------------------------------
(***************************************************************************)
(* Deaths.  m_death_count names the last death, whose wait covers all that *)
(* the current underlying session was told of; the waits of the deaths     *)
(* before it have smaller numbers.                                         *)
(***************************************************************************)

\* A wait of this session, in what the numbers of deaths and sessions say of it.
DeathWaitOK(w) ==
  /\ w.session \in 1 .. made
  /\ w.covers \in Nat
  /\ w.session = session => w.covers <= announced
  /\ w.purpose = "death" =>
       /\ w.tag \in 0 .. deathCount
       /\ w.direction = "upload"
       /\ w.tag = deathCount /\ state = "dying" => w.session = session /\ w.covers = announced

DeathInv ==
  /\ deathCount \in Nat
  /\ \A w \in waits : DeathWaitOK(w)

\* A wait operation started for callbacks on session s with v announced.
LEMMA NewWaitOK ==
  ASSUME NEW s \in Nat, NEW todo, NEW v \in Nat, NEW w \in NewWaits(s, todo, v)
  PROVE  w.session = s /\ w.covers \in 0 .. v /\ w.purpose = "completion"
  <1>1. PICK d \in todo :
          w = [session |-> s, direction |-> d, purpose |-> "completion", tag |-> resyncCounter,
               covers |-> IF d = "upload" THEN v ELSE 0]
    BY DEF NewWaits
  <1>. QED
    BY <1>1

LEMMA NextDeath ==
  ASSUME SessionInv, CommitInv, DeathInv, [Next]_vars
  PROVE  DeathInv'
  <1> SUFFICES ASSUME Form PROVE DeathInv'
    BY StepForms
  <1>0. /\ made \in Nat /\ session \in 0 .. made /\ announced \in Nat /\ local \in Nat
        /\ deathCount \in Nat /\ deferredCommit \in Nat
    BY DEF SessionInv, CommitInv, DeathInv
  <1>1. ASSUME waits' \subseteq waits, UNCHANGED <<made, deathCount>>, state' # "dying",
               session' = 0 \/ (session' = session /\ announced' \in Nat /\ announced' >= announced)
        PROVE  DeathInv'
    BY <1>0, <1>1 DEF DeathInv, DeathWaitOK
  <1>2. ASSUME waits' \subseteq waits, UNCHANGED <<made, deathCount, session, announced>>,
               state' = state \/ state' # "dying"
        PROVE  DeathInv'
    BY <1>0, <1>2 DEF DeathInv, DeathWaitOK
  <1>3. ASSUME NEW s \in 1 .. made', NEW todo, NEW v \in Nat, session' = s, announced' = v,
               \/ s = session /\ v >= announced /\ made' = made
               \/ s = made + 1 /\ made' = made + 1,
               \/ EnterDying(s, todo, v)
               \/ StartWaits(NewWaits(s, todo, v)) /\ UNCHANGED deathCount /\ state' # "dying"
        PROVE  DeathInv'
    <2>1. ASSUME NEW w \in waits, deathCount' \in {deathCount, deathCount + 1},
                 deathCount' = deathCount => state' # "dying"
          PROVE  DeathWaitOK(w)'
      <3>1. DeathWaitOK(w)
        BY DEF DeathInv
      <3>. QED
        BY <1>0, <1>3, <2>1, <3>1 DEF DeathWaitOK
    <2>2. ASSUME NEW w \in NewWaits(s, todo, v)
          PROVE  DeathWaitOK(w)'
      <3>1. w.session = s /\ w.covers \in 0 .. v /\ w.purpose = "completion"
        BY <1>0, <1>3, NewWaitOK
      <3>. QED
        BY <1>3, <3>1 DEF DeathWaitOK
    <2>3. CASE EnterDying(s, todo, v)
      <3>0. PICK x : x = [session |-> s, direction |-> "upload", purpose |-> "death",
                          tag |-> deathCount + 1, covers |-> v]
        OBVIOUS
      <3>1. deathCount' = deathCount + 1 /\ waits' = waits \cup (NewWaits(s, todo, v) \cup {x})
        BY <2>3, <3>0 DEF EnterDying, StartWaits
      <3>2. DeathWaitOK(x)'
        <4>1. /\ x.session = s /\ x.covers = v /\ x.direction = "upload"
              /\ x.tag = deathCount + 1 /\ x.purpose = "death"
          BY <3>0
        <4>2. x.tag \in 0 .. deathCount'
          BY <1>0, <3>1, <4>1
        <4>. QED
          BY <1>0, <1>3, <3>1, <4>1, <4>2 DEF DeathWaitOK
      <3>3. \A w \in waits : DeathWaitOK(w)'
        BY <1>0, <2>1, <3>1
      <3>4. \A w \in waits' : DeathWaitOK(w)'
        BY <2>2, <3>1, <3>2, <3>3
      <3>. QED
        BY <1>0, <3>1, <3>4 DEF DeathInv
    <2>4. CASE StartWaits(NewWaits(s, todo, v)) /\ UNCHANGED deathCount /\ state' # "dying"
      <3>1. waits' = waits \cup NewWaits(s, todo, v)
        BY <2>4 DEF StartWaits
      <3>2. \A w \in waits' : DeathWaitOK(w)'
        BY <2>1, <2>2, <2>4, <3>1
      <3>. QED
        BY <1>0, <2>4, <3>2 DEF DeathInv
    <2>. QED
      BY <1>3, <2>3, <2>4
  <1>4. CASE GoesInactive \/ MovesAside
    BY <1>1, <1>4 DEF GoesInactive, MovesAside, EnterInactive
  <1>5. CASE RefreshAccessToken
    <2> DEFINE s == IF session = 0 THEN made + 1 ELSE session
               v == AnnouncedAfterRefresh
    <2>1. v \in Nat /\ (session # 0 => v >= announced)
      BY <1>0 DEF AnnouncedAfterRefresh
    <2>2. /\ session' = s /\ announced' = v /\ made' = IF session = 0 THEN s ELSE made
          /\ \/ EnterDying(s, Queued, v)
             \/ state' = "active" /\ StartWaits(NewWaits(s, Queued, v)) /\ UNCHANGED deathCount
      BY <1>5 DEF RefreshAccessToken
    <2> HIDE DEF v
    <2>3. /\ s \in 1 .. made'
          /\ \/ s = session /\ v >= announced /\ made' = made
             \/ s = made + 1 /\ made' = made + 1
      BY <1>0, <2>1, <2>2
    <2> HIDE DEF s
    <2>. QED
      BY <1>3, <2>1, <2>2, <2>3
  <1>6. ASSUME NEW todo, state \in {"active", "dying"}, UNCHANGED <<session, made, announced>>,
               \/ EnterDying(session, todo, announced)
               \/ /\ StartWaits(NewWaits(session, todo, announced))
                  /\ UNCHANGED deathCount /\ state' # "dying"
        PROVE  DeathInv'
    <2>1. session \in 1 .. made'
      BY <1>0, <1>6 DEF SessionInv, SessionMatchesState
    <2>. QED
      BY <1>0, <1>3, <1>6, <2>1
  <1>7. CASE IsRevived
    <2>1. UNCHANGED <<session, made, deathCount, announced>>
      BY <1>7 DEF IsRevived, toldVars
    <2>2. \/ UNCHANGED waits /\ (state' = state \/ state' # "dying")
          \/ /\ state = "dying" /\ state' = "active"
             /\ StartWaits(NewWaits(session, Queued, announced))
      BY <1>7 DEF IsRevived, Revived
    <2>. QED
      BY <1>2, <1>6, <2>1, <2>2
  <1>8. CASE BeginsToDie
    BY <1>6, <1>8 DEF BeginsToDie, toldVars
  <1>9. ASSUME NEW c \in Callbacks, WaitForCompletion(c)
        PROVE  DeathInv'
    <2>1. UNCHANGED <<state, session, made, deathCount, announced>>
      BY <1>9 DEF WaitForCompletion, lifeVars, toldVars
    <2>2. CASE UNCHANGED waits
      BY <1>2, <2>1, <2>2
    <2>3. CASE state \in {"active", "dying"}
               /\ StartWaits(NewWaits(session, {Direction(c)}, announced))
      <3>1. session # 0
        BY <2>3 DEF SessionInv, SessionMatchesState
      <3>2. ASSUME NEW w \in NewWaits(session, {Direction(c)}, announced)
            PROVE  DeathWaitOK(w)'
        <4>1. w.session = session /\ w.covers \in 0 .. announced /\ w.purpose = "completion"
          BY <1>0, NewWaitOK
        <4>. QED
          BY <1>0, <2>1, <3>1, <4>1 DEF DeathWaitOK
      <3>3. \A w \in waits : DeathWaitOK(w)'
        BY <2>1 DEF DeathInv, DeathWaitOK
      <3>. QED
        BY <1>0, <2>1, <2>3, <3>2, <3>3 DEF DeathInv, StartWaits
    <2>. QED
      BY <1>9, <2>2, <2>3 DEF WaitForCompletion
  <1>10. CASE Commit
    <2>1. /\ UNCHANGED <<state, session, made, deathCount, waits>>
          /\ local' = local + 1
          /\ announced' = IF state = "active" THEN local' ELSE announced
      BY <1>10 DEF Commit, lifeVars
    <2>2. announced <= local
      BY DEF CommitInv
    <2>3. CASE state = "active"
      BY <1>0, <1>1, <2>1, <2>2, <2>3
    <2>4. CASE state # "active"
      BY <1>2, <2>1, <2>4
    <2>. QED
      BY <2>3, <2>4
  <1>11. CASE \/ OldDeathEnds \/ Quiet \/ Upload \/ HandleErrorExpired \/ HandleErrorCancel
              \/ HandleErrorRestore \/ \E w \in waits : CompletionHandler(w)
    <2>1. /\ waits' \subseteq waits /\ UNCHANGED <<made, deathCount, session, announced>>
          /\ state' = state \/ state' # "dying"
      BY <1>11 DEF OldDeathEnds, Quiet, coreVars, Upload, HandleErrorExpired, HandleErrorCancel,
                   HandleErrorRestore, CompletionHandler, lifeVars, toldVars
    <2>. QED
      BY <1>2, <2>1
  <1>. QED
    BY <1>4, <1>5, <1>7, <1>8, <1>9, <1>10, <1>11 DEF Form

\* Of the steps that take a wait away, only the handler of a death leaves dying.
LEMMA WhoEndsADeath ==
  ASSUME [Next]_vars, NEW w \in waits \ waits', w.purpose = "death", state = "dying",
         state' = "inactive"
  PROVE  ThisDeath(w) /\ Outcomes(w) # {}
  <1>1. ASSUME NEW x \in waits, CompletionHandler(x) \/ DeathHandler(x)
        PROVE  ThisDeath(w) /\ Outcomes(w) # {}
    <2>1. waits' = waits \ {x}
      BY <1>1 DEF CompletionHandler, DeathHandler
    <2>2. x = w
      BY <2>1
    <2>. QED
      BY <1>1, <2>2 DEF CompletionHandler, DeathHandler, lifeVars
  <1>2. \/ waits \subseteq waits'
        \/ \E x \in waits : CompletionHandler(x) \/ DeathHandler(x)
    BY DEF Next, LoopStep, AppStep, vars, HandleErrorDeactivate, HandleErrorExpired, HandleErrorCancel,
           HandleErrorResync, HandleErrorRestore, HandleErrorRevive, AssertionFails, ToInactive,
           ReviveIfNeeded, Revived, LogOut, UpdateConfiguration, WaitForCompletion, Commit,
           DropReference, GetSession, RefreshAccessToken, EnterDying, StartWaits,
           DidDropExternalReference, Close, CloseWaiting, CloseActive, CloseInactive, NothingCloses,
           ExternalReference, UnregisterSession, Upload, HandleError
  <1>. QED
    BY <1>1, <1>2

(***************************************************************************)
(* A dying session goes inactive by itself only when everything announced  *)
(* at its last close is on the server, through any number of revivals and  *)
(* with the handlers of earlier deaths still to come (m_death_count).      *)
(***************************************************************************)
THEOREM DeathWaitsForUploadsHolds == Spec => DeathWaitsForUploads
  <1> DEFINE Step ==
        \A w \in waits \ waits' :
          w.purpose = "death" /\ state = "dying" /\ state' = "inactive"
            => w.session = session /\ uploaded >= w.covers /\ \A x \in waits :
                 x.purpose = "death" /\ x.session = session => x.covers <= w.covers
  <1>1. Init => DeathInv
    BY DEF Init, DeathInv
  <1>2. SessionInv /\ CommitInv /\ DeathInv /\ [Next]_vars => DeathInv'
    BY NextDeath
  <1>3. CommitInv /\ DeathInv /\ [Next]_vars => Step
    <2> SUFFICES ASSUME CommitInv, DeathInv, [Next]_vars, NEW w \in waits \ waits',
                        w.purpose = "death", state = "dying", state' = "inactive"
                 PROVE  w.session = session /\ uploaded >= w.covers /\ \A x \in waits :
                          x.purpose = "death" /\ x.session = session => x.covers <= w.covers
      OBVIOUS
    <2>1. ThisDeath(w) /\ Outcomes(w) # {}
      BY WhoEndsADeath
    <2>2. w.session = session /\ w.covers = announced /\ w.direction = "upload"
      BY <2>1 DEF ThisDeath, DeathInv, DeathWaitOK
    <2>3. uploaded >= w.covers
      BY <2>1, <2>2 DEF Outcomes
    <2>. QED
      BY <2>2, <2>3 DEF DeathInv, DeathWaitOK
  <1>4. Spec => [][Step]_vars
    BY <1>1, <1>2, <1>3, InitSession, NextSession, InitCommit, NextCommit, PTL DEF Spec
  <1>. QED
    BY <1>4 DEF DeathWaitsForUploads

-----------------------------------------------------------------------------
(***************************************************************************)
(* Type correctness.  The types of the variables above are in their        *)
(* invariants; here are the bounds and the remaining variables.            *)
(***************************************************************************)

FlagsInv == deferredClose \in BOOLEAN /\ ref \in BOOLEAN /\ getting \in BOOLEAN
            /\ registered \in BOOLEAN /\ failed \in BOOLEAN

OwnersInv == config \in Configs /\ dropping \in 0 .. MaxDrops

UnregistersInv == unregisters \in [Threads -> 0 .. MaxUnregisters]

BoundsInv ==
  /\ made <= MaxSessions /\ local <= MaxVersion /\ uploaded \in Versions
  /\ waits \subseteq Wait

LEMMA NextFlags == FlagsInv /\ [Next]_vars => FlagsInv'
  <1> SUFFICES ASSUME FlagsInv, [Next]_vars PROVE FlagsInv'
    OBVIOUS
  <1> USE DEF FlagsInv, lifeVars, deferredVars, refVars, ownerVars
  <1>1. CASE UNCHANGED vars
    BY <1>1 DEF vars
  <1>2. ASSUME NEW w \in waits, CompletionHandler(w) \/ DeathHandler(w)
        PROVE  FlagsInv'
    BY <1>2 DEF CompletionHandler, DeathHandler, EnterInactive
  <1>3. CASE HandleErrorDeactivate \/ HandleErrorResync
    BY <1>3 DEF HandleErrorDeactivate, HandleErrorResync, AssertionFails, ToInactive, EnterInactive
  <1>4. CASE HandleErrorExpired \/ HandleErrorCancel \/ HandleErrorRestore
    BY <1>4 DEF HandleErrorExpired, HandleErrorCancel, HandleErrorRestore
  <1>5. CASE HandleErrorRevive \/ ReviveIfNeeded \/ GetSession
    BY <1>5 DEF HandleErrorRevive, ReviveIfNeeded, GetSession, Revived
  <1>6. CASE LogOut \/ \E new \in Configs : UpdateConfiguration(new)
    BY <1>6 DEF LogOut, UpdateConfiguration, ToInactive, EnterInactive
  <1>7. CASE \/ \E c \in Callbacks : WaitForCompletion(c)
             \/ Commit \/ DropReference \/ RefreshAccessToken \/ ExternalReference \/ Upload
    BY <1>7 DEF WaitForCompletion, Commit, DropReference, RefreshAccessToken, ExternalReference, Upload
  <1>8. CASE DidDropExternalReference
    BY <1>8 DEF DidDropExternalReference, Close, CloseWaiting, CloseActive, CloseInactive,
                NothingCloses, ToInactive, EnterInactive
  <1>9. CASE \E kind \in ErrorKinds : HandleError(kind)
    BY <1>9 DEF HandleError, ToInactive
  <1>10. CASE \E t \in Threads : UnregisterSession(t)
    BY <1>10 DEF UnregisterSession
  <1>. QED
    BY <1>1, <1>2, <1>3, <1>4, <1>5, <1>6, <1>7, <1>8, <1>9, <1>10 DEF Next, LoopStep, AppStep

LEMMA NextOwners == OwnersInv /\ [Next]_vars => OwnersInv'
  <1> SUFFICES ASSUME OwnersInv, [Next]_vars PROVE OwnersInv'
    OBVIOUS
  <1>0. MaxDrops \in Nat
    BY SessionAssumptions
  <1> USE <1>0 DEF OwnersInv, lifeVars, refVars, ownerVars
  <1>1. CASE UNCHANGED vars
    BY <1>1 DEF vars
  <1>2. ASSUME NEW w \in waits, CompletionHandler(w) \/ DeathHandler(w)
        PROVE  OwnersInv'
    BY <1>2 DEF CompletionHandler, DeathHandler
  <1>3. CASE HandleErrorDeactivate \/ HandleErrorResync
    BY <1>3 DEF HandleErrorDeactivate, HandleErrorResync, AssertionFails, ToInactive
  <1>4. CASE HandleErrorExpired \/ HandleErrorCancel \/ HandleErrorRestore
    BY <1>4 DEF HandleErrorExpired, HandleErrorCancel, HandleErrorRestore
  <1>5. CASE HandleErrorRevive \/ ReviveIfNeeded \/ GetSession
    BY <1>5 DEF HandleErrorRevive, ReviveIfNeeded, GetSession
  <1>6. CASE LogOut \/ \E new \in Configs : UpdateConfiguration(new)
    BY <1>6 DEF LogOut, UpdateConfiguration, ToInactive
  <1>7. CASE \/ \E c \in Callbacks : WaitForCompletion(c)
             \/ Commit \/ DropReference \/ RefreshAccessToken \/ ExternalReference \/ Upload
    <2>1. CASE DropReference
      <3>1. dropping < MaxDrops /\ dropping' = dropping + 1 /\ UNCHANGED config
        BY <2>1 DEF DropReference
      <3>. QED
        BY <3>1
    <2>2. CASE ~DropReference
      <3>1. UNCHANGED <<config, dropping>>
        BY <1>7, <2>2 DEF WaitForCompletion, Commit, RefreshAccessToken, ExternalReference, Upload
      <3>. QED
        BY <3>1
    <2>. QED
      BY <2>1, <2>2
  <1>8. CASE DidDropExternalReference
    <2>1. UNCHANGED config
      BY <1>8 DEF DidDropExternalReference, Close, CloseWaiting, CloseActive, CloseInactive,
                  NothingCloses, ToInactive
    <2>2. dropping > 0 /\ dropping' = dropping - 1
      BY <1>8 DEF DidDropExternalReference
    <2>. QED
      BY <2>1, <2>2
  <1>9. CASE \E kind \in ErrorKinds : HandleError(kind)
    BY <1>9 DEF HandleError, ToInactive
  <1>10. CASE \E t \in Threads : UnregisterSession(t)
    BY <1>10 DEF UnregisterSession
  <1>. QED
    BY <1>1, <1>2, <1>3, <1>4, <1>5, <1>6, <1>7, <1>8, <1>9, <1>10 DEF Next, LoopStep, AppStep

\* Who unregisters: a step of unregister(lock), the critical section of
\* unregister_session, or nobody.
UnregisterForm ==
  \/ UNCHANGED <<unregisters, ref, getting, registered>>
  \/ DropReference
  \/ GetSession
  \/ ExternalReference
  \/ \E t \in Threads : Unregister(t) /\ UNCHANGED <<ref, getting, registered>>
  \/ \E t \in Threads : UnregisterSession(t)

LEMMA UnregisterForms == [Next]_vars => UnregisterForm
  <1> SUFFICES ASSUME [Next]_vars PROVE UnregisterForm
    OBVIOUS
  <1> USE DEF UnregisterForm, refVars, ownerVars
  <1>0. "loop" \in Threads /\ "app" \in Threads
    BY DEF Threads
  <1>1. CASE UNCHANGED vars
    BY <1>1 DEF vars
  <1>2. ASSUME NEW w \in waits, CompletionHandler(w) \/ DeathHandler(w)
        PROVE  UnregisterForm
    BY <1>0, <1>2 DEF CompletionHandler, DeathHandler
  <1>3. CASE HandleErrorDeactivate \/ HandleErrorResync
    BY <1>0, <1>3 DEF HandleErrorDeactivate, HandleErrorResync, AssertionFails, ToInactive
  <1>4. CASE HandleErrorExpired \/ HandleErrorCancel \/ HandleErrorRestore
    BY <1>4 DEF HandleErrorExpired, HandleErrorCancel, HandleErrorRestore
  <1>5. CASE HandleErrorRevive \/ ReviveIfNeeded
    BY <1>5 DEF HandleErrorRevive, ReviveIfNeeded
  <1>6. CASE LogOut \/ \E new \in Configs : UpdateConfiguration(new)
    BY <1>0, <1>6 DEF LogOut, UpdateConfiguration, ToInactive
  <1>7. CASE \E c \in Callbacks : WaitForCompletion(c)
    BY <1>7 DEF WaitForCompletion
  <1>8. CASE Commit \/ RefreshAccessToken \/ Upload
    BY <1>8 DEF Commit, RefreshAccessToken, Upload
  <1>9. CASE DidDropExternalReference
    BY <1>0, <1>9 DEF DidDropExternalReference, Close, CloseWaiting, CloseActive, CloseInactive,
                      NothingCloses, ToInactive
  <1>10. CASE \E kind \in ErrorKinds : HandleError(kind)
    BY <1>0, <1>10 DEF HandleError, ToInactive
  <1>. QED
    BY <1>1, <1>2, <1>3, <1>4, <1>5, <1>6, <1>7, <1>8, <1>9, <1>10 DEF Next, LoopStep, AppStep

LEMMA NextUnregisters == UnregistersInv /\ [Next]_vars => UnregistersInv'
  <1> SUFFICES ASSUME UnregistersInv, UnregisterForm PROVE UnregistersInv'
    BY UnregisterForms
  <1>0. MaxUnregisters \in Nat
    BY SessionAssumptions
  <1>1. ASSUME NEW t \in Threads, Unregister(t)
        PROVE  UnregistersInv'
    BY <1>0, <1>1 DEF Unregister, UnregistersInv
  <1>2. ASSUME NEW t \in Threads, UnregisterSession(t)
        PROVE  UnregistersInv'
    <2>1. unregisters[t] > 0 /\ unregisters' = [unregisters EXCEPT ![t] = @ - 1]
      BY <1>2 DEF UnregisterSession
    <2>. QED
      BY <1>0, <2>1 DEF UnregistersInv
  <1>3. CASE UNCHANGED unregisters
    BY <1>3 DEF UnregistersInv
  <1>. QED
    BY <1>1, <1>2, <1>3 DEF UnregisterForm, DropReference, GetSession, ExternalReference

(***************************************************************************)
(* The manager's map and the external reference.  unregister_session comes *)
(* at any time after the state change that calls for it, even when another *)
(* thread has got the session back through get_session; because it looks   *)
(* at the external reference under the mutex that get_session holds until  *)
(* the reference is made, it never takes out a session that is held.       *)
(***************************************************************************)
THEOREM HeldSessionIsRegisteredHolds == Spec => []HeldSessionIsRegistered
  <1>1. Init => HeldSessionIsRegistered
    BY DEF Init, HeldSessionIsRegistered
  <1>2. HeldSessionIsRegistered /\ [Next]_vars => HeldSessionIsRegistered'
    <2> SUFFICES ASSUME HeldSessionIsRegistered, UnregisterForm PROVE HeldSessionIsRegistered'
      BY UnregisterForms
    <2>1. ASSUME NEW t \in Threads, UnregisterSession(t)
          PROVE  HeldSessionIsRegistered'
      BY <2>1, Zenon DEF UnregisterSession, HeldSessionIsRegistered
    <2>2. CASE DropReference
      BY <2>2, Zenon DEF DropReference, HeldSessionIsRegistered
    <2>3. CASE GetSession \/ ExternalReference
      BY <2>3, Zenon DEF GetSession, ExternalReference, HeldSessionIsRegistered
    <2>4. CASE UNCHANGED <<ref, getting, registered>>
      BY <2>4, Zenon DEF HeldSessionIsRegistered
    <2>. QED
      BY <2>1, <2>2, <2>3, <2>4 DEF UnregisterForm
  <1>. QED
    BY <1>1, <1>2, PTL DEF Spec

LEMMA NextBounds ==
  ASSUME SessionInv, CommitInv, CallbackInv, DeathInv, BoundsInv, [Next]_vars
  PROVE  BoundsInv'
  <1> SUFFICES ASSUME Form PROVE BoundsInv'
    BY StepForms
  <1>0. /\ MaxSessions \in Nat /\ MaxVersion \in Nat
        /\ made \in Nat /\ session \in 0 .. made /\ deathCount \in Nat /\ resyncCounter \in Nat
        /\ local \in Nat /\ announced \in 0 .. local /\ deferredCommit \in 0 .. local
        /\ made <= MaxSessions /\ local <= MaxVersion
    BY SessionAssumptions DEF SessionInv, CommitInv, CallbackInv, DeathInv, BoundsInv
  <1>1. Queued \subseteq {"upload", "download"}
    BY DirectionType DEF Queued, CallbackInv
  <1>2. ASSUME NEW s \in 1 .. MaxSessions, NEW todo \in SUBSET {"upload", "download"},
               NEW v \in Versions, StartWaits(NewWaits(s, todo, v)) \/ EnterDying(s, todo, v)
        PROVE  waits' \subseteq Wait
    <2>1. NewWaits(s, todo, v) \subseteq Wait
      BY <1>0 DEF NewWaits, Wait, Versions
    <2>2. [session |-> s, direction |-> "upload", purpose |-> "death", tag |-> deathCount + 1,
           covers |-> v] \in Wait
      BY <1>0 DEF Wait
    <2>. QED
      BY <1>2, <2>1, <2>2 DEF BoundsInv, StartWaits, EnterDying
  <1>3. announced \in Versions
    BY <1>0 DEF Versions
  <1>4. ASSUME waits' \subseteq waits, UNCHANGED <<made, local, uploaded>>
        PROVE  BoundsInv'
    BY <1>4 DEF BoundsInv
  <1>5. CASE RefreshAccessToken
    <2> DEFINE s == IF session = 0 THEN made + 1 ELSE session
               v == AnnouncedAfterRefresh
    <2>1. v \in Versions
      BY <1>0 DEF AnnouncedAfterRefresh, Versions
    <2>2. /\ made' = IF session = 0 THEN s ELSE made
          /\ session = 0 => made < MaxSessions
          /\ UNCHANGED <<local, uploaded>>
          /\ StartWaits(NewWaits(s, Queued, v)) \/ EnterDying(s, Queued, v)
      BY <1>5 DEF RefreshAccessToken
    <2>3. s \in 1 .. MaxSessions /\ made' <= MaxSessions
      BY <1>0, <2>2
    <2> HIDE DEF s, v
    <2>4. waits' \subseteq Wait
      BY <1>1, <1>2, <2>1, <2>2, <2>3
    <2>. QED
      BY <2>2, <2>3, <2>4 DEF BoundsInv
  <1>6. ASSUME NEW todo \in SUBSET {"upload", "download"}, state \in {"active", "dying"},
               \/ StartWaits(NewWaits(session, todo, announced))
               \/ EnterDying(session, todo, announced),
               UNCHANGED <<made, local, uploaded>>
        PROVE  BoundsInv'
    <2>1. session \in 1 .. MaxSessions
      BY <1>0, <1>6 DEF SessionInv, SessionMatchesState
    <2>2. waits' \subseteq Wait
      BY <1>2, <1>3, <1>6, <2>1
    <2>. QED
      BY <1>6, <2>2 DEF BoundsInv
  <1>7. CASE IsRevived
    <2>1. UNCHANGED <<made, local, uploaded>>
      BY <1>7 DEF IsRevived, dataVars
    <2>2. waits' = waits \/ (state = "dying" /\ StartWaits(NewWaits(session, Queued, announced)))
      BY <1>7 DEF IsRevived, Revived
    <2>. QED
      BY <1>1, <1>4, <1>6, <2>1, <2>2
  <1>8. CASE BeginsToDie
    BY <1>6, <1>8 DEF BeginsToDie, dataVars
  <1>9. ASSUME NEW c \in Callbacks, WaitForCompletion(c)
        PROVE  BoundsInv'
    <2>1. UNCHANGED <<made, local, uploaded>>
      BY <1>9 DEF WaitForCompletion, lifeVars, dataVars
    <2>2. \/ waits' = waits
          \/ /\ state \in {"active", "dying"}
             /\ StartWaits(NewWaits(session, {Direction(c)}, announced))
      BY <1>9 DEF WaitForCompletion
    <2>3. {Direction(c)} \in SUBSET {"upload", "download"}
      BY DirectionType
    <2>. QED
      BY <1>4, <1>6, <2>1, <2>2, <2>3
  <1>10. CASE Commit
    <2>1. local' = local + 1 /\ local < MaxVersion /\ UNCHANGED <<made, uploaded, waits>>
      BY <1>10 DEF Commit, lifeVars
    <2>. QED
      BY <1>0, <2>1 DEF BoundsInv
  <1>11. CASE Upload
    <2>1. uploaded' = uploaded + 1 /\ uploaded < announced /\ UNCHANGED <<made, local, waits>>
      BY <1>11 DEF Upload, lifeVars
    <2>2. uploaded \in Nat
      BY <1>0 DEF BoundsInv, Versions
    <2>. QED
      BY <1>0, <2>1, <2>2 DEF BoundsInv, Versions
  <1>12. CASE \/ GoesInactive \/ OldDeathEnds \/ Quiet \/ MovesAside
              \/ HandleErrorExpired \/ HandleErrorCancel \/ HandleErrorRestore
              \/ \E w \in waits : CompletionHandler(w)
    <2>1. waits' \subseteq waits /\ UNCHANGED <<made, local, uploaded>>
      BY <1>12 DEF GoesInactive, OldDeathEnds, Quiet, coreVars, MovesAside, HandleErrorExpired,
                   HandleErrorCancel, HandleErrorRestore, CompletionHandler, lifeVars, dataVars
    <2>. QED
      BY <1>4, <2>1
  <1>. QED
    BY <1>5, <1>7, <1>8, <1>9, <1>10, <1>11, <1>12 DEF Form

(***************************************************************************)
(* Type correctness: the numbers of sessions and commits stay within their *)
(* bounds, and a wait operation always names an underlying session that    *)
(* was made (add_completion_callback and Dying::enter_state dereference    *)
(* m_session without a test).                                              *)
(***************************************************************************)
THEOREM TypeOKHolds == Spec => []TypeOK
  <1>0. MaxSessions \in Nat /\ MaxVersion \in Nat /\ MaxDrops \in Nat /\ MaxUnregisters \in Nat
    BY SessionAssumptions
  <1>1. Init => DeathInv
    BY DEF Init, DeathInv
  <1>2. Init => FlagsInv
    BY Zenon DEF Init, FlagsInv
  <1>3. Init => OwnersInv /\ UnregistersInv /\ BoundsInv
    BY <1>0 DEF Init, OwnersInv, UnregistersInv, BoundsInv, Versions
  <1>4. SessionInv /\ CommitInv /\ DeathInv /\ [Next]_vars => DeathInv'
    BY NextDeath
  <1>5. SessionInv /\ CommitInv /\ CallbackInv /\ DeathInv /\ BoundsInv /\ [Next]_vars => BoundsInv'
    BY NextBounds
  <1>6. SessionInv /\ CommitInv /\ CallbackInv /\ DeathInv /\ BoundsInv /\ FlagsInv /\ OwnersInv
          /\ UnregistersInv => TypeOK
    <2> SUFFICES ASSUME SessionInv, CommitInv, CallbackInv, DeathInv, BoundsInv, FlagsInv, OwnersInv,
                        UnregistersInv
                 PROVE  TypeOK
      OBVIOUS
    <2>1. /\ session \in 0 .. MaxSessions /\ made \in 0 .. MaxSessions /\ local \in Versions
          /\ announced \in Versions /\ deferredCommit \in Versions
      BY <1>0 DEF SessionInv, CommitInv, BoundsInv, Versions
    <2>2. /\ state \in States /\ deathCount \in Nat /\ resyncCounter \in Nat
          /\ queue \subseteq Callbacks /\ loop \in LoopStates /\ waits \subseteq Wait
          /\ status \in [Callbacks -> {"unused", "waiting", "ok", "aborted", "error"}]
          /\ uploaded \in Versions
      BY DEF SessionInv, CallbackInv, Statuses, DeathInv, BoundsInv
    <2>3. missed \in BOOLEAN
      BY DEF CommitInv
    <2>. QED
      BY <2>1, <2>2, <2>3, Zenon DEF TypeOK, FlagsInv, OwnersInv, UnregistersInv
  <1>. QED
    BY <1>1, <1>2, <1>3, <1>4, <1>5, <1>6, InitSession, NextSession, InitCommit, NextCommit,
       InitCallback, NextCallback, NextFlags, NextOwners, NextUnregisters, PTL DEF Spec
=============================================================================
