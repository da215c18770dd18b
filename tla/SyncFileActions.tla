--------------------------- MODULE SyncFileActions ---------------------------
(***************************************************************************)
(* What the Object Store's SyncManager persists about Realm files that     *)
(* have to go: the file actions (one row per Realm, in the metadata        *)
(* Realm), the accounts marked for removal, and the startup that carries   *)
(* both out, step by step, with the process killed between any two steps.  *)
(*                                                                         *)
(* Contents of Realm files are numbers, no two of them alike; 0 is no      *)
(* file.  A recovery copy remembers what it is a copy of and whether the   *)
(* copying got to the end.                                                 *)
(***************************************************************************)
EXTENDS Naturals

CONSTANTS
  Realms,     \* local Realm files, named by path()
  Users,
  Owner,      \* Owner[r]: the user whose directory holds r
  MaxWrites,  \* bound: contents ever written
  MaxCopies,  \* bound: recovery paths ever reserved
  MaxFaults   \* bound: kills during a step and failed copies

ASSUME OwnerAssumption == Owner \in [Realms -> Users]

ASSUME FileBounds == MaxWrites \in Nat /\ MaxCopies \in Nat /\ MaxFaults \in Nat

VARIABLES
  proc,      \* "down", the four stages of configure, "up"
  todo,      \* file actions (in stage "actions"), accounts (in "directories")
             \* that the loop of the stage has not reached
  phase,     \* phase[r]: where run_file_action stands for r
  run,       \* run[r]: what it read of the row of r at its head, kept until r
             \* is erased, and whether r was written to since then
  row,       \* row[r]: the SyncFileActionMetadata of r
  realm,     \* realm[r]: contents of the Realm file, 0 when it does not exist
  aux,       \* aux[r]: the .lock file and the .management directory exist
  open,      \* Realms the app has open
  session,   \* Realms whose SyncSession may have an error handled: from its
             \* revival until it is inactive and no error is under way
  copies,    \* copies[n]: the file at the n-th reserved recovery path
  reserved,  \* recovery paths reserved so far
  account,   \* account[u]: the SyncUserMetadata row of u
  dir,       \* dir[u]: the user directory exists
  cleared,   \* accounts whose directory this startup has removed
  writes,    \* contents written so far
  faults

fileVars == <<realm, aux, copies>>

appVars == <<open, session>>

userVars == <<account, dir, cleared>>

vars == <<proc, todo, phase, run, row, fileVars, appVars, reserved,
          userVars, writes, faults>>

Names == 1 .. MaxCopies

Contents == 0 .. MaxWrites

NoRow == [action |-> "none", copy |-> 0]

Rows == [action : {"none", "delete", "backup"}, copy : 0 .. MaxCopies]

NoRun == [action |-> "none", copy |-> 0, wrote |-> FALSE]

Runs == [action : {"none", "delete", "backup"}, copy : 0 .. MaxCopies, wrote : BOOLEAN]

NoCopy == [of |-> 0, whole |-> FALSE]

TypeOK ==
  /\ proc \in {"down", "actions", "rows", "directories", "accounts", "up"}
  /\ todo \in [realms : SUBSET Realms, users : SUBSET Users]
  /\ phase \in [Realms -> {"idle", "copying", "erasing", "leftovers", "completed"}]
  /\ run \in [Realms -> Runs]
  /\ row \in [Realms -> Rows]
  /\ realm \in [Realms -> Contents]
  /\ aux \in [Realms -> BOOLEAN]
  /\ open \subseteq Realms
  /\ session \subseteq Realms
  /\ copies \in [Names -> [of : Contents, whole : BOOLEAN]]
  /\ reserved \in 0 .. MaxCopies
  /\ account \in [Users -> {"none", "fresh", "live", "marked"}]
  /\ dir \in [Users -> BOOLEAN]
  /\ cleared \subseteq Users
  /\ writes \in Contents
  /\ faults \in 0 .. MaxFaults

Nothing == [realms |-> {}, users |-> {}]

Idle == [r \in Realms |-> "idle"]

NoRuns == [r \in Realms |-> NoRun]

Init ==
  /\ proc = "down"
  /\ todo = Nothing
  /\ phase = Idle
  /\ run = NoRuns
  /\ row = [r \in Realms |-> NoRow]
  /\ realm = [r \in Realms |-> 0]
  /\ aux = [r \in Realms |-> FALSE]
  /\ open = {}
  /\ session = {}
  /\ copies = [n \in Names |-> NoCopy]
  /\ reserved = 0
  /\ account = [u \in Users |-> "none"]
  /\ dir = [u \in Users |-> FALSE]
  /\ cleared = {}
  /\ writes = 0
  /\ faults = 0

-----------------------------------------------------------------------------
(***************************************************************************)
(* run_file_action(md) for the Realm r.  Startup calls it with the file    *)
(* system lock held, one action after the other; immediately_run_file_     *)
(* actions calls it without.                                               *)
(***************************************************************************)

Exists(n) == copies[n] # NoCopy

\* Variant with a bug: the recovery file is written whatever lies there.
CanCopyOver(r) == row[r].copy > 0

\* new_name && !File::exists(*new_name), tested again by copy_realm_file.
CanCopy(r) == row[r].copy > 0 /\ ~Exists(row[r].copy)

\* The reads at the head of run_file_action and its four ways on: r is erased
\* at once, there is no file any more, the file is copied first, or the action
\* is kept.
RunFileAction(r) ==
  LET read == [action |-> row[r].action, copy |-> row[r].copy, wrote |-> FALSE]
  IN  \/ /\ row[r].action = "delete"
         /\ phase' = [phase EXCEPT ![r] = "erasing"]
         /\ run' = [run EXCEPT ![r] = read]
         /\ UNCHANGED copies
      \/ /\ row[r].action = "backup" /\ realm[r] = 0
         /\ phase' = [phase EXCEPT ![r] = "completed"]
         /\ UNCHANGED <<run, copies>>
      \/ /\ row[r].action = "backup" /\ realm[r] # 0 /\ CanCopy(r)
         /\ phase' = [phase EXCEPT ![r] = "copying"]
         /\ run' = [run EXCEPT ![r] = read]
         /\ copies' = [copies EXCEPT ![row[r].copy] = [of |-> realm[r], whole |-> FALSE]]
      \/ /\ row[r].action = "backup" /\ realm[r] # 0 /\ ~CanCopy(r)
         /\ UNCHANGED <<phase, run, copies>>

\* File::copy gets to the end.
CopyRealmFile(r) ==
  /\ phase[r] = "copying"
  /\ copies' = [copies EXCEPT ![run[r].copy].whole = TRUE]
  /\ phase' = [phase EXCEPT ![r] = "erasing"]
  /\ UNCHANGED <<proc, todo, run, row, realm, aux, appVars, reserved, userVars,
                 writes, faults>>

\* Variant with a bug: the result of the copying is not looked at.
CopyFailsUnseen(r) ==
  /\ phase[r] = "copying"
  /\ faults < MaxFaults
  /\ faults' = faults + 1
  /\ phase' = [phase EXCEPT ![r] = "erasing"]
  /\ UNCHANGED <<proc, todo, run, row, fileVars, appVars, reserved, userVars, writes>>

\* Variant with a bug: a failed copy counts as a completed action.
CopyFailsCompleted(r) ==
  /\ phase[r] = "copying"
  /\ faults < MaxFaults
  /\ faults' = faults + 1
  /\ phase' = [phase EXCEPT ![r] = "completed"]
  /\ run' = [run EXCEPT ![r] = NoRun]
  /\ UNCHANGED <<proc, todo, row, fileVars, appVars, reserved, userVars, writes>>

\* File::copy throws an AccessError half way: run_file_action returns false,
\* and the target stays as it is.
CopyFails(r) ==
  /\ phase[r] = "copying"
  /\ faults < MaxFaults
  /\ faults' = faults + 1
  /\ phase' = [phase EXCEPT ![r] = "idle"]
  /\ run' = [run EXCEPT ![r] = NoRun]
  /\ UNCHANGED <<proc, todo, row, fileVars, appVars, reserved, userVars, writes>>

\* remove_realm: the file first ...
RemoveRealm(r) ==
  /\ phase[r] = "erasing"
  /\ realm' = [realm EXCEPT ![r] = 0]
  /\ phase' = [phase EXCEPT ![r] = "leftovers"]
  /\ run' = [run EXCEPT ![r] = NoRun]
  /\ UNCHANGED <<proc, todo, row, aux, copies, appVars, reserved, userVars,
                 writes, faults>>

\* ... then the lock file and the management directory; the result of
\* remove_realm is not looked at.
RemoveLeftovers(r) ==
  /\ phase[r] = "leftovers"
  /\ aux' = [aux EXCEPT ![r] = FALSE]
  /\ phase' = [phase EXCEPT ![r] = "completed"]
  /\ UNCHANGED <<proc, todo, run, row, realm, copies, appVars, reserved, userVars,
                 writes, faults>>

-----------------------------------------------------------------------------
(***************************************************************************)
(* SyncManager::configure, in a new process.                               *)
(***************************************************************************)

Launch ==
  /\ proc = "down"
  /\ proc' = "actions"
  /\ todo' = [realms |-> {r \in Realms : row[r] # NoRow}, users |-> {}]
  /\ cleared' = {}
  /\ UNCHANGED <<phase, run, row, fileVars, appVars, reserved, account, dir,
                 writes, faults>>

AllIdle == \A r \in Realms : phase[r] \in {"idle", "completed"}

\* The loop over all_pending_actions, one action at a time.
NextAction(r) ==
  /\ proc = "actions"
  /\ AllIdle
  /\ r \in todo.realms
  /\ todo' = [todo EXCEPT !.realms = @ \ {r}]
  /\ RunFileAction(r)
  /\ UNCHANGED <<proc, row, realm, aux, appVars, reserved, userVars, writes, faults>>

ActionsDone ==
  /\ proc = "actions"
  /\ AllIdle
  /\ todo.realms = {}
  /\ proc' = "rows"
  /\ UNCHANGED <<todo, phase, run, row, fileVars, appVars, reserved, userVars,
                 writes, faults>>

\* SyncFileActionMetadata::remove, for a completed action of this startup or of
\* an immediate run.
RemoveRow(r) ==
  /\ proc \in {"rows", "up"}
  /\ phase[r] = "completed"
  /\ phase' = [phase EXCEPT ![r] = "idle"]
  /\ row' = [row EXCEPT ![r] = NoRow]
  /\ UNCHANGED <<proc, todo, run, fileVars, appVars, reserved, userVars, writes, faults>>

\* Variant with a bug: the completed actions are forgotten, their rows stay.
RowsDoneForgetting ==
  /\ proc = "rows"
  /\ phase' = Idle
  /\ proc' = "directories"
  /\ todo' = [todo EXCEPT !.users = {u \in Users : account[u] = "marked"}]
  /\ UNCHANGED <<run, row, fileVars, appVars, reserved, userVars, writes, faults>>

\* The accounts: all_users_marked_for_removal.
RowsDone ==
  /\ proc = "rows"
  /\ phase = Idle
  /\ proc' = "directories"
  /\ todo' = [todo EXCEPT !.users = {u \in Users : account[u] = "marked"}]
  /\ UNCHANGED <<phase, run, row, fileVars, appVars, reserved, userVars, writes, faults>>

\* try_remove_dir_recursive removes one entry after the other: it has removed
\* the Realm file, or what belongs to it, and is killed or fails later.
RemoveDirectoryEntry(r) ==
  /\ proc = "directories"
  /\ Owner[r] \in todo.users
  /\ \/ realm[r] # 0 /\ realm' = [realm EXCEPT ![r] = 0] /\ UNCHANGED aux
     \/ aux[r] /\ aux' = [aux EXCEPT ![r] = FALSE] /\ UNCHANGED realm
  /\ UNCHANGED <<proc, todo, phase, run, row, copies, appVars, reserved, userVars,
                 writes, faults>>

\* remove_user_directory takes the user's Realms with it.
RemoveUserDirectory(u) ==
  /\ proc = "directories"
  /\ u \in todo.users
  /\ todo' = [todo EXCEPT !.users = @ \ {u}]
  /\ dir' = [dir EXCEPT ![u] = FALSE]
  /\ realm' = [r \in Realms |-> IF Owner[r] = u THEN 0 ELSE realm[r]]
  /\ aux' = [r \in Realms |-> aux[r] /\ Owner[r] # u]
  /\ cleared' = cleared \cup {u}
  /\ UNCHANGED <<proc, phase, run, row, copies, appVars, reserved, account, writes, faults>>

\* The AccessError: the account stays for the next launch.
RemoveUserDirectoryFails(u) ==
  /\ proc = "directories"
  /\ u \in todo.users
  /\ faults < MaxFaults
  /\ faults' = faults + 1
  /\ todo' = [todo EXCEPT !.users = @ \ {u}]
  /\ UNCHANGED <<proc, phase, run, row, fileVars, appVars, reserved, userVars, writes>>

DirectoriesDone ==
  /\ proc = "directories"
  /\ todo.users = {}
  /\ proc' = "accounts"
  /\ UNCHANGED <<todo, phase, run, row, fileVars, appVars, reserved, userVars,
                 writes, faults>>

\* Variant with a bug: every marked account is dropped, the ones whose
\* directory could not be removed too.
RemoveMarkedAccount(u) ==
  /\ proc = "accounts"
  /\ account[u] = "marked"
  /\ account' = [account EXCEPT ![u] = "none"]
  /\ cleared' = cleared \ {u}
  /\ UNCHANGED <<proc, todo, phase, run, row, fileVars, appVars, reserved, dir,
                 writes, faults>>

\* SyncUserMetadata::remove for the dead users.
RemoveAccount(u) ==
  /\ proc = "accounts"
  /\ u \in cleared
  /\ account' = [account EXCEPT ![u] = "none"]
  /\ cleared' = cleared \ {u}
  /\ UNCHANGED <<proc, todo, phase, run, row, fileVars, appVars, reserved, dir,
                 writes, faults>>

ConfigureDone ==
  /\ proc = "accounts"
  /\ cleared = {}
  /\ proc' = "up"
  /\ UNCHANGED <<todo, phase, run, row, fileVars, appVars, reserved, userVars,
                 writes, faults>>

-----------------------------------------------------------------------------
(***************************************************************************)
(* The configured process.                                                 *)
(***************************************************************************)

\* get_or_make_user_metadata: a row without token for a new user; a user who
\* was marked for removal is revived, with the token and directory of before.
GetOrMakeUserMetadata(u) ==
  CASE account[u] = "none"   -> "fresh"
    [] account[u] = "marked" -> "live"
    [] OTHER                 -> account[u]

\* The SyncUser constructor, or update_refresh_token: up to set_user_token, then
\* the sessions that log_out put to sleep are revived.
LogIn(u) ==
  /\ proc = "up"
  /\ account[u] # "live"
  /\ account' = [account EXCEPT ![u] = "live"]
  /\ session' = session \cup {r \in open : Owner[r] = u}
  /\ UNCHANGED <<proc, todo, phase, run, row, fileVars, open, reserved, dir,
                 cleared, writes, faults>>

\* SyncUser::log_out, for a user who is logged in.  An error that one of the
\* sessions is handling by then is handled to its end: see EndSession.
LogOut(u) ==
  /\ proc = "up"
  /\ account[u] = "live"
  /\ account' = [account EXCEPT ![u] = "marked"]
  /\ UNCHANGED <<proc, todo, phase, run, row, fileVars, appVars, reserved, dir,
                 cleared, writes, faults>>

\* The app opens the Realm of a logged-in user: path_for_realm makes the
\* directory, opening makes the files that do not exist, get_session makes the
\* session or revives it.
Open(r) ==
  /\ proc = "up"
  /\ r \notin open
  /\ phase[r] = "idle"
  /\ account[Owner[r]] = "live"
  /\ realm[r] = 0 => writes < MaxWrites
  /\ open' = open \cup {r}
  /\ session' = session \cup {r}
  /\ dir' = [dir EXCEPT ![Owner[r]] = TRUE]
  /\ aux' = [aux EXCEPT ![r] = TRUE]
  /\ realm' = IF realm[r] = 0 THEN [realm EXCEPT ![r] = writes + 1] ELSE realm
  /\ writes' = IF realm[r] = 0 THEN writes + 1 ELSE writes
  /\ UNCHANGED <<proc, todo, phase, run, row, copies, reserved, account,
                 cleared, faults>>

\* The app writes, or the sync client integrates what the session downloaded,
\* with or without the app having the Realm open.
Write(r) ==
  /\ r \in open \cup session
  /\ realm[r] # 0
  /\ writes < MaxWrites
  /\ writes' = writes + 1
  /\ realm' = [realm EXCEPT ![r] = writes + 1]
  /\ run' = [run EXCEPT ![r].wrote = phase[r] \in {"copying", "erasing"}]
  /\ UNCHANGED <<proc, todo, phase, row, aux, copies, appVars, reserved,
                 userVars, faults>>

\* The session outlives this as long as it has changes to upload, the app holds
\* on to it, or its stop policy is LiveIndefinitely.
Close(r) ==
  /\ r \in open
  /\ open' = open \ {r}
  /\ UNCHANGED <<proc, todo, phase, run, row, fileVars, session, reserved, userVars,
                 writes, faults>>

\* The session of a Realm that was closed, or of a user who was logged out,
\* becomes inactive.
EndSession(r) ==
  /\ r \in session
  /\ r \notin open \/ account[Owner[r]] # "live"
  /\ session' = session \ {r}
  /\ UNCHANGED <<proc, todo, phase, run, row, fileVars, open, reserved, userVars,
                 writes, faults>>

\* Variant with a bug: the row names the recovery path after the reserved one.
MakeFileActionMetadataNextPath(r, action, n) ==
  row' = [row EXCEPT ![r] = [action |-> action, copy |-> n + 1]]

\* make_file_action_metadata: the row of r is made or overwritten.
MakeFileActionMetadata(r, action, n) ==
  row' = [row EXCEPT ![r] = [action |-> action, copy |-> n]]

\* handle_error of a client reset: with ShouldBackup::yes a recovery path is
\* reserved (and the file at it unlinked) and told to the app, the row is written
\* whatever is going on with the Realm, and the session becomes inactive.
ClientReset(r) ==
  /\ r \in session
  /\ reserved < MaxCopies
  /\ reserved' = reserved + 1
  /\ MakeFileActionMetadata(r, "backup", reserved + 1)
  /\ session' = session \ {r}
  /\ UNCHANGED <<proc, todo, phase, run, fileVars, open, userVars, writes, faults>>

\* ... and of permission_denied, with ShouldBackup::no.
PermissionDenied(r) ==
  /\ r \in session
  /\ MakeFileActionMetadata(r, "delete", 0)
  /\ session' = session \ {r}
  /\ UNCHANGED <<proc, todo, phase, run, fileVars, open, reserved, userVars,
                 writes, faults>>

\* immediately_run_file_actions, which the app calls after it closed the Realm.
ImmediatelyRunFileActions(r) ==
  /\ proc = "up"
  /\ r \notin open
  /\ phase[r] = "idle"
  /\ row[r] # NoRow
  /\ RunFileAction(r)
  /\ UNCHANGED <<proc, todo, row, realm, aux, appVars, reserved, userVars,
                 writes, faults>>

Stop ==
  /\ proc' = "down"
  /\ todo' = Nothing
  /\ phase' = Idle
  /\ run' = NoRuns
  /\ open' = {}
  /\ session' = {}
  /\ cleared' = {}

\* The process ends while it is not at work on the files.
Quit ==
  /\ proc = "up"
  /\ phase = Idle
  /\ Stop
  /\ UNCHANGED <<row, fileVars, reserved, account, dir, writes, faults>>

\* The process is killed between two steps of that work.
Kill ==
  /\ proc \notin {"down", "up"} \/ phase # Idle
  /\ faults < MaxFaults
  /\ faults' = faults + 1
  /\ Stop
  /\ UNCHANGED <<row, fileVars, reserved, account, dir, writes>>

\* It is killed between the two transactions of a login.
KillInLogIn(u) ==
  /\ proc = "up"
  /\ account[u] # "live"
  /\ faults < MaxFaults
  /\ faults' = faults + 1
  /\ account' = [account EXCEPT ![u] = GetOrMakeUserMetadata(u)]
  /\ Stop
  /\ UNCHANGED <<row, fileVars, reserved, dir, writes>>

-----------------------------------------------------------------------------
FileWork ==
  \E r \in Realms : \/ NextAction(r) \/ CopyRealmFile(r) \/ RemoveRealm(r)
                    \/ RemoveLeftovers(r) \/ RemoveRow(r)

Startup ==
  \/ Launch
  \/ FileWork
  \/ ActionsDone
  \/ RowsDone
  \/ \E r \in Realms : RemoveDirectoryEntry(r)
  \/ \E u \in Users : RemoveUserDirectory(u) \/ RemoveAccount(u)
  \/ DirectoriesDone
  \/ ConfigureDone

App ==
  \/ \E u \in Users : LogIn(u) \/ LogOut(u)
  \/ \E r \in Realms : \/ Open(r) \/ Write(r) \/ Close(r) \/ EndSession(r)
                       \/ ClientReset(r) \/ PermissionDenied(r)
                       \/ ImmediatelyRunFileActions(r)

Fault ==
  \/ Kill
  \/ \E r \in Realms : CopyFails(r)
  \/ \E u \in Users : RemoveUserDirectoryFails(u) \/ KillInLogIn(u)

Next == Startup \/ App \/ Fault \/ Quit

Spec == Init /\ [][Next]_vars

(***************************************************************************)
(* The steps of a startup are calls of one thread that waits for nobody,   *)
(* and the user ends and starts the app again and again.                   *)
(***************************************************************************)
Fairness == WF_vars(Startup) /\ SF_vars(Quit)

FairSpec == Spec /\ Fairness

-----------------------------------------------------------------------------
(***************************************************************************)
(* Properties.                                                             *)
(***************************************************************************)

\* run_file_action erases a Realm that it found to be backed up only when the
\* recovery file is whole and holds what the Realm holds, whatever was killed or
\* failed before and whatever an error has made of the row since.  The one
\* exception: a session that is still up may write to the Realm meanwhile, and
\* then the copy is of what the Realm was before.
ErasedOnlyAfterBackup ==
  [][\A r \in Realms :
       phase[r] = "erasing" /\ run[r].action = "backup" /\ realm[r] # 0 /\ realm'[r] = 0
         => /\ copies[run[r].copy].whole
            /\ copies[run[r].copy].of = realm[r] \/ run[r].wrote]_vars

\* No step replaces a whole recovery file: it is the only copy of what an
\* erased Realm held.
RecoveryFilesAreKept ==
  [][\A n \in Names : copies[n].whole => copies'[n] = copies[n]]_vars

\* A directory on disk has an account row, so that some startup finds it: the
\* rows of dead users go after their directories.
EveryDirectoryHasAnAccount == \A u \in Users : dir[u] => account[u] # "none"

\* A file action row goes only when the Realm file is gone, also when the run
\* that erased it was killed before it could remove the row.
RowsOutliveTheirRealms ==
  [][\A r \in Realms :
       row[r] # NoRow /\ row'[r] = NoRow => realm[r] = 0]_vars

\* A flagged Realm is dealt with by some later launch.  The one exception: a
\* client reset stays pending when a run that was killed or failed after it
\* began to copy has left a file at the recovery path, since nothing replaces it.
FileActionsHappen ==
  \A r \in Realms :
    row[r] # NoRow ~> row[r] = NoRow \/ (row[r].action = "backup" /\ Exists(row[r].copy))
==============================================================================
