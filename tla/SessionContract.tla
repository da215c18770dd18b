--------------------------- MODULE SessionContract ---------------------------
(***************************************************************************)
(* What a SyncSession promises its users, without sync client, event loop, *)
(* locks or counters: the states of the diagram above SyncSession::State,  *)
(* and what becomes of a completion callback.                              *)
(***************************************************************************)
CONSTANTS UploadCallbacks, DownloadCallbacks

VARIABLES
  state,     \* what state() returns
  status,    \* status[c]: whether the callback c is queued, and how it was called
  resynced   \* the client was reset automatically

Queue == UploadCallbacks \cup DownloadCallbacks

(***************************************************************************)
(* The arrows of the diagram.  A deferred close passes through ACTIVE      *)
(* under the lock, so that its users see the arrow to DYING.               *)
(***************************************************************************)
Arrows ==
  {<<"inactive", "waiting">>,
   <<"waiting", "active">>, <<"waiting", "inactive">>, <<"waiting", "dying">>,
   <<"active", "waiting">>, <<"active", "inactive">>, <<"active", "dying">>,
   <<"dying", "active">>, <<"dying", "inactive">>}

Init ==
  /\ state = "inactive"
  /\ status = [c \in Queue |-> "unused"]
  /\ resynced = FALSE

\* The queued callbacks among cs are called, with the same outcome: all of them,
\* but after an automatic resync some may be out of reach.
CallAll(cs, outcome) ==
  \E reached \in IF resynced THEN SUBSET cs ELSE {cs} :
    status' = [c \in Queue |->
                 IF c \in reached /\ status[c] = "waiting" THEN outcome ELSE status[c]]

Register(c) ==
  /\ status[c] = "unused"
  /\ status' = [status EXCEPT ![c] = "waiting"]
  /\ UNCHANGED <<state, resynced>>

\* One direction completes, or is cancelled by the sync client.
Complete(cs) ==
  /\ \E outcome \in {"ok", "aborted"} : CallAll(cs, outcome)
  /\ UNCHANGED <<state, resynced>>

\* An error cancels both directions.
Cancel ==
  /\ CallAll(Queue, "error")
  /\ UNCHANGED <<state, resynced>>

\* A move to INACTIVE, and no other, cancels what is queued.
Move(next) ==
  /\ <<state, next>> \in Arrows
  /\ state' = next
  /\ IF next = "inactive" THEN CallAll(Queue, "aborted") ELSE UNCHANGED status
  /\ UNCHANGED resynced

\* The session is torn down under its callbacks, which stay queued.
Resync ==
  /\ <<state, "inactive">> \in Arrows
  /\ state' = "inactive"
  /\ resynced' = TRUE
  /\ UNCHANGED status

Next ==
  \/ \E c \in Queue : Register(c)
  \/ Complete(UploadCallbacks)
  \/ Complete(DownloadCallbacks)
  \/ Cancel
  \/ \E next \in {"waiting", "active", "dying", "inactive"} : Move(next)
  \/ Resync

Spec == Init /\ [][Next]_<<state, status, resynced>>
=============================================================================
