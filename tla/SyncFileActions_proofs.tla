------------------------ MODULE SyncFileActions_proofs ------------------------
(***************************************************************************)
(* Proofs about SyncFileActions, for every set of Realms and users and any *)
(* number of writes, recovery files, failed copies and kills.              *)
(***************************************************************************)
EXTENDS SyncFileActions, TLAPS

-----------------------------------------------------------------------------
(***************************************************************************)
(* Accounts and directories.                                               *)
(***************************************************************************)

(***************************************************************************)
(* EveryDirectoryHasAnAccount is not inductive: configure removes the      *)
(* accounts it has collected in "cleared", so one needs to know that their *)
(* directories are gone, and that nobody makes one again before the        *)
(* accounts are removed, since cleared is empty once configure is done.    *)
(***************************************************************************)
AccountInv ==
  /\ dir \in [Users -> BOOLEAN]
  /\ account \in [Users -> {"none", "fresh", "live", "marked"}]
  /\ EveryDirectoryHasAnAccount
  /\ \A u \in cleared : ~dir[u]
  /\ proc \notin {"directories", "accounts"} => cleared = {}

LEMMA InitAccount == Init => AccountInv
  BY DEF Init, AccountInv, EveryDirectoryHasAnAccount

LEMMA NextAccount == AccountInv /\ [Next]_vars => AccountInv'
  <1> SUFFICES ASSUME AccountInv, [Next]_vars PROVE AccountInv'
    OBVIOUS
  <1> USE DEF AccountInv, EveryDirectoryHasAnAccount
  <1>1. CASE UNCHANGED <<proc, userVars>>
    BY <1>1 DEF userVars
  <1>2. CASE \/ \E r \in Realms : \/ NextAction(r) \/ CopyRealmFile(r) \/ RemoveRealm(r)
                                  \/ RemoveLeftovers(r) \/ RemoveRow(r)
                                  \/ Write(r) \/ Close(r) \/ EndSession(r) \/ ClientReset(r)
                                  \/ PermissionDenied(r) \/ ImmediatelyRunFileActions(r)
                                  \/ CopyFails(r) \/ RemoveDirectoryEntry(r)
             \/ \E u \in Users : RemoveUserDirectoryFails(u)
             \/ UNCHANGED vars
    <2>1. UNCHANGED <<proc, userVars>>
      BY <1>2 DEF NextAction, CopyRealmFile, RemoveRealm, RemoveLeftovers, RemoveRow, Write, Close,
                  EndSession, ClientReset, PermissionDenied, ImmediatelyRunFileActions, CopyFails,
                  RemoveDirectoryEntry, RemoveUserDirectoryFails, vars
    <2>. QED
      BY <2>1, <1>1
  <1>3. CASE Launch
    BY <1>3 DEF Launch
  <1>4. CASE ActionsDone \/ RowsDone \/ DirectoriesDone \/ ConfigureDone
    BY <1>4 DEF ActionsDone, RowsDone, DirectoriesDone, ConfigureDone, userVars
  <1>5. ASSUME NEW u \in Users, RemoveUserDirectory(u)
        PROVE  AccountInv'
    BY <1>5 DEF RemoveUserDirectory
  <1>6. ASSUME NEW u \in Users, RemoveAccount(u)
        PROVE  AccountInv'
    BY <1>6 DEF RemoveAccount
  <1>7. ASSUME NEW u \in Users, LogIn(u) \/ LogOut(u)
        PROVE  AccountInv'
    BY <1>7 DEF LogIn, LogOut
  <1>8. ASSUME NEW r \in Realms, Open(r)
        PROVE  AccountInv'
    <2>1. Owner[r] \in Users
      BY OwnerAssumption
    <2>. QED
      BY <1>8, <2>1 DEF Open
  <1>9. CASE Quit \/ Kill
    BY <1>9 DEF Quit, Kill, Stop
  <1>10. ASSUME NEW u \in Users, KillInLogIn(u)
         PROVE  AccountInv'
    <2>1. GetOrMakeUserMetadata(u) \in {"fresh", "live"}
      BY <1>10 DEF GetOrMakeUserMetadata, KillInLogIn
    <2>. QED
      BY <1>10, <2>1 DEF KillInLogIn, Stop
  <1>. QED
    BY <1>2, <1>3, <1>4, <1>5, <1>6, <1>7, <1>8, <1>9, <1>10 DEF Next, Startup, FileWork, App, Fault

(***************************************************************************)
(* Every user directory has an account row that leads some startup to it,  *)
(* whatever is killed or fails (configure, SyncUserMetadata::remove).      *)
(***************************************************************************)
THEOREM EveryDirectoryHasAnAccountHolds == Spec => []EveryDirectoryHasAnAccount
  <1>1. AccountInv => EveryDirectoryHasAnAccount
    BY DEF AccountInv
  <1>. QED
    BY <1>1, InitAccount, NextAccount, PTL DEF Spec

-----------------------------------------------------------------------------
(***************************************************************************)
(* Type correctness.                                                       *)
(***************************************************************************)

Phases == {"idle", "copying", "erasing", "leftovers", "completed"}

FileTypeOK ==
  /\ phase \in [Realms -> Phases]
  /\ run \in [Realms -> Runs]
  /\ row \in [Realms -> Rows]
  /\ realm \in [Realms -> Contents]
  /\ aux \in [Realms -> BOOLEAN]
  /\ copies \in [Names -> [of : Contents, whole : BOOLEAN]]

ProcTypeOK ==
  /\ proc \in {"down", "actions", "rows", "directories", "accounts", "up"}
  /\ todo \in [realms : SUBSET Realms, users : SUBSET Users]
  /\ open \subseteq Realms
  /\ session \subseteq Realms
  /\ cleared \subseteq Users
  /\ reserved \in 0 .. MaxCopies
  /\ writes \in Contents
  /\ faults \in 0 .. MaxFaults

TypeInv == FileTypeOK /\ ProcTypeOK /\ AccountInv

LEMMA TypeInvIsTypeOK == TypeInv => TypeOK
  BY DEF TypeInv, TypeOK, FileTypeOK, ProcTypeOK, AccountInv, Phases

LEMMA InitTypeInv == Init => TypeInv
  <1> SUFFICES ASSUME Init PROVE TypeInv
    OBVIOUS
  <1>1. FileTypeOK
    BY FileBounds DEF Init, FileTypeOK, Idle, Phases, NoRuns, NoRun, Runs, NoRow, Rows, NoCopy, Contents
  <1>2. ProcTypeOK
    BY FileBounds DEF Init, ProcTypeOK, Nothing, Contents
  <1>. QED
    BY <1>1, <1>2, InitAccount DEF TypeInv

-----------------------------------------------------------------------------
(***************************************************************************)
(* File actions.  The inductive invariant says in which stages of the      *)
(* process a file action may be at work (StageInv), that no two Realms     *)
(* have rows or runs that name the same recovery file (RowInv, RunInv),    *)
(* and what is on disk at each point of run_file_action (WorkInv).  An     *)
(* error may overwrite the row of a Realm while run_file_action is at work *)
(* for it, so the last is about what the run has read and not about the    *)
(* row.                                                                    *)
(***************************************************************************)

StageInv ==
  /\ proc \in {"down", "directories", "accounts"} => \A r \in Realms : phase[r] = "idle"
  /\ proc # "up" => open = {} /\ session = {}
  /\ proc = "actions" => \A r \in todo.realms : row[r] # NoRow /\ phase[r] = "idle"
  /\ \A r \in Realms : phase[r] # "idle" => r \notin open /\ row[r] # NoRow

RowInv ==
  /\ \A r \in Realms : row[r].action = "none" => row[r] = NoRow
  /\ \A r \in Realms : row[r].copy <= reserved
  /\ \A r, s \in Realms : row[r].copy = row[s].copy /\ row[r].copy # 0 => r = s

RunInv ==
  /\ \A r \in Realms : run[r].copy <= reserved
  /\ \A r, s \in Realms : run[r].copy = row[s].copy /\ run[r].copy # 0 => r = s
  /\ \A r, s \in Realms : run[r].copy = run[s].copy /\ run[r].copy # 0 => r = s

\* The recovery file of the run for r, as far as it has come.
Backup(r, whole) ==
  /\ run[r].copy # 0
  /\ copies[run[r].copy].whole = whole
  /\ copies[run[r].copy].of = realm[r] \/ run[r].wrote

WorkInv ==
  \A r \in Realms :
    /\ phase[r] = "copying" => run[r].action = "backup" /\ Backup(r, FALSE)
    /\ phase[r] = "erasing" /\ run[r].action = "backup" => Backup(r, TRUE)
    /\ phase[r] \in {"leftovers", "completed"} => realm[r] = 0

FileInv == TypeInv /\ StageInv /\ RowInv /\ RunInv /\ WorkInv

LEMMA InitFile == Init => FileInv
  BY InitTypeInv, FileBounds
  DEF Init, FileInv, StageInv, RowInv, RunInv, WorkInv, Idle, NoRow, NoRuns, NoRun

\* What the head of run_file_action does to the Realm it is called for.
LEMMA RunFileActionEffect ==
  ASSUME FileInv, NEW r \in Realms, row[r] # NoRow, phase[r] = "idle", RunFileAction(r),
         UNCHANGED <<row, realm>>
  PROVE  /\ phase' \in [Realms -> Phases]
         /\ run' \in [Realms -> Runs]
         /\ copies' \in [Names -> [of : Contents, whole : BOOLEAN]]
         /\ \A s \in Realms : s # r => phase'[s] = phase[s] /\ run'[s] = run[s]
         /\ run'[r].copy = run[r].copy \/ run'[r].copy = row[r].copy
         /\ \A n \in Names : n # row[r].copy => copies'[n] = copies[n]
         /\ \A n \in Names : copies[n].whole => copies'[n] = copies[n]
         /\ \/ phase'[r] = "idle"
            \/ phase'[r] = "erasing" /\ run'[r].action = "delete"
            \/ phase'[r] = "completed" /\ realm[r] = 0
            \/ phase'[r] = "copying" /\ run'[r].action = "backup" /\ Backup(r, FALSE)'
  <1> USE DEF FileInv, TypeInv, FileTypeOK
  <1> DEFINE read == [action |-> row[r].action, copy |-> row[r].copy, wrote |-> FALSE]
  <1>1. row[r] \in Rows /\ row[r].action \in {"delete", "backup"}
    BY DEF Rows, RowInv
  <1>2. [of |-> realm[r], whole |-> FALSE] \in [of : Contents, whole : BOOLEAN]
    OBVIOUS
  <1>3. read \in Runs /\ read.action = row[r].action /\ read.copy = row[r].copy
    BY <1>1 DEF Runs, Rows
  <1> HIDE DEF read
  <1>4. CASE /\ row[r].action = "delete"
             /\ phase' = [phase EXCEPT ![r] = "erasing"]
             /\ run' = [run EXCEPT ![r] = read]
             /\ UNCHANGED copies
    BY <1>3, <1>4 DEF Phases
  <1>5. CASE /\ row[r].action = "backup" /\ realm[r] = 0
             /\ phase' = [phase EXCEPT ![r] = "completed"]
             /\ UNCHANGED <<run, copies>>
    BY <1>5 DEF Phases
  <1>6. CASE UNCHANGED <<phase, run, copies>>
    BY <1>6
  <1>7. CASE /\ row[r].action = "backup" /\ realm[r] # 0 /\ CanCopy(r)
             /\ phase' = [phase EXCEPT ![r] = "copying"]
             /\ run' = [run EXCEPT ![r] = read]
             /\ copies' = [copies EXCEPT ![row[r].copy] = [of |-> realm[r], whole |-> FALSE]]
    <2>2. row[r].copy \in Names /\ row[r].copy # 0 /\ copies[row[r].copy] = NoCopy
      BY <1>1, <1>7, FileBounds DEF CanCopy, Exists, Rows, Names
    <2>3. \A n \in Names : copies[n].whole => copies'[n] = copies[n]
      BY <1>7, <2>2 DEF NoCopy
    <2>4. /\ phase' \in [Realms -> Phases] /\ phase'[r] = "copying"
          /\ run' \in [Realms -> Runs] /\ run'[r] = read
          /\ \A s \in Realms : s # r => phase'[s] = phase[s] /\ run'[s] = run[s]
      BY <1>3, <1>7 DEF Phases
    <2>5. /\ copies' \in [Names -> [of : Contents, whole : BOOLEAN]]
          /\ \A n \in Names : n # row[r].copy => copies'[n] = copies[n]
          /\ copies'[row[r].copy] = [of |-> realm[r], whole |-> FALSE]
      BY <1>2, <1>7, <2>2
    <2>6. Backup(r, FALSE)'
      BY <1>3, <2>2, <2>4, <2>5 DEF Backup
    <2>. QED
      BY <1>3, <1>7, <2>3, <2>4, <2>5, <2>6
  <1>. QED
    BY <1>4, <1>5, <1>6, <1>7 DEF RunFileAction, read

\* Setting the mark of a recovery file.
LEMMA WholeSet ==
  ASSUME NEW x, NEW a, NEW b
  PROVE  [[of |-> x, whole |-> a] EXCEPT !.whole = b] = [of |-> x, whole |-> b]
  OBVIOUS

\* A step that leaves the run for s and its recovery file alone.
LEMMA BackupKept ==
  ASSUME NEW s \in Realms, NEW w, Backup(s, w), UNCHANGED <<run[s], realm[s]>>,
         copies'[run[s].copy] = copies[run[s].copy]
  PROVE  Backup(s, w)'
  BY DEF Backup

\* Recovery paths are numbers.
LEMMA Paths ==
  ASSUME FileInv, NEW s \in Realms
  PROVE  /\ row[s].copy \in Nat /\ run[s].copy \in Nat
         /\ row[s].copy # 0 => row[s].copy \in Names
         /\ run[s].copy # 0 => run[s].copy \in Names
  BY FileBounds DEF FileInv, TypeInv, FileTypeOK, Rows, Runs, Names

\* Setting the mark of a run.
LEMMA WroteSet ==
  ASSUME NEW x \in Runs, NEW b \in BOOLEAN
  PROVE  [x EXCEPT !.wrote = b] = [action |-> x.action, copy |-> x.copy, wrote |-> b]
  BY DEF Runs

\* run_file_action begun for r, by a startup or immediately.
LEMMA RunFileActionInv ==
  ASSUME FileInv, NEW r \in Realms, row[r] # NoRow, phase[r] = "idle", r \notin open,
         RunFileAction(r), UNCHANGED <<row, realm, aux, reserved, open>>
  PROVE  /\ FileTypeOK' /\ RowInv' /\ RunInv' /\ WorkInv'
         /\ \A s \in Realms : phase'[s] # "idle" => s \notin open' /\ row'[s] # NoRow
  <1>0. TypeInv /\ FileTypeOK /\ ProcTypeOK /\ StageInv /\ RowInv /\ RunInv /\ WorkInv
    BY DEF FileInv, TypeInv
  <1>1. FileTypeOK'
    BY <1>0, RunFileActionEffect DEF FileTypeOK
  <1>2. RowInv'
    BY <1>0 DEF RowInv
  <1>3. \A s \in Realms : phase'[s] # "idle" => s \notin open' /\ row'[s] # NoRow
    BY <1>0, RunFileActionEffect DEF StageInv
  <1>4. RunInv'
    <2>1. \A s \in Realms : \/ run'[s].copy = run[s].copy
                            \/ s = r /\ run'[s].copy = row[r].copy
      BY RunFileActionEffect
    <2>. QED
      BY <1>0, <2>1 DEF RowInv, RunInv
  <1>5. ASSUME NEW s \in Realms, s # r, run[s].copy # 0
        PROVE  copies'[run[s].copy] = copies[run[s].copy]
    <2>1. run[s].copy \in Names /\ run[s].copy # row[r].copy
      BY <1>0, <1>5, Paths DEF RunInv
    <2>. QED
      BY <2>1, RunFileActionEffect
  <1>6. WorkInv'
    <2> SUFFICES ASSUME NEW s \in Realms
                 PROVE  /\ phase'[s] = "copying" => run'[s].action = "backup" /\ Backup(s, FALSE)'
                        /\ phase'[s] = "erasing" /\ run'[s].action = "backup" => Backup(s, TRUE)'
                        /\ phase'[s] \in {"leftovers", "completed"} => realm'[s] = 0
      BY DEF WorkInv
    <2>1. CASE s = r
      BY <2>1, RunFileActionEffect
    <2>2. CASE s # r
      <3>1. phase'[s] = phase[s] /\ run'[s] = run[s] /\ realm'[s] = realm[s]
        BY <2>2, RunFileActionEffect
      <3>2. ASSUME NEW w, Backup(s, w) PROVE Backup(s, w)'
        BY <1>5, <2>2, <3>1, <3>2, BackupKept DEF Backup
      <3>. QED
        BY <1>0, <3>1, <3>2 DEF WorkInv
    <2>. QED
      BY <2>1, <2>2
  <1>. QED
    BY <1>1, <1>2, <1>3, <1>4, <1>6

LEMMA NextFile == FileInv /\ [Next]_vars => FileInv'
  <1> SUFFICES ASSUME FileInv, [Next]_vars PROVE FileInv'
    OBVIOUS
  <1>0. TypeInv /\ FileTypeOK /\ ProcTypeOK /\ StageInv /\ RowInv /\ RunInv /\ WorkInv
    BY DEF FileInv, TypeInv
  <1>1. AccountInv'
    BY <1>0, NextAccount DEF TypeInv
  <1>2. ASSUME FileTypeOK', ProcTypeOK', StageInv', RowInv', RunInv', WorkInv'
        PROVE  FileInv'
    BY <1>1, <1>2 DEF FileInv, TypeInv
  <1>3. ASSUME UNCHANGED <<phase, run, row, fileVars, reserved>>
        PROVE  FileTypeOK' /\ RowInv' /\ RunInv' /\ WorkInv'
    BY <1>0, <1>3 DEF FileTypeOK, RowInv, RunInv, WorkInv, Backup, fileVars
  <1>4. CASE UNCHANGED vars
    <2>1. UNCHANGED <<phase, run, row, fileVars, reserved>> /\ ProcTypeOK' /\ StageInv'
      BY <1>0, <1>4 DEF vars, ProcTypeOK, StageInv, userVars, appVars
    <2>. QED
      BY <1>2, <1>3, <2>1
  <1>5. CASE Launch
    <2>1. ProcTypeOK' /\ StageInv'
      BY <1>0, <1>5 DEF Launch, ProcTypeOK, StageInv, appVars
    <2>. QED
      BY <1>2, <1>3, <1>5, <2>1 DEF Launch
  <1>6. ASSUME NEW r \in Realms, NextAction(r)
        PROVE  FileInv'
    <2>1. /\ row[r] # NoRow /\ phase[r] = "idle" /\ r \notin open
          /\ RunFileAction(r) /\ UNCHANGED <<row, realm, aux, reserved, open>>
      BY <1>0, <1>6 DEF NextAction, StageInv, appVars
    <2>2. ProcTypeOK'
      BY <1>0, <1>6 DEF NextAction, ProcTypeOK, userVars, appVars
    <2>3. /\ FileTypeOK' /\ RowInv' /\ RunInv' /\ WorkInv'
          /\ \A s \in Realms : phase'[s] # "idle" => s \notin open' /\ row'[s] # NoRow
      BY <2>1, RunFileActionInv
    <2>4. \A s \in todo'.realms : s \in todo.realms /\ s # r /\ s \in Realms
      BY <1>0, <1>6 DEF NextAction, ProcTypeOK
    <2>5. \A s \in todo'.realms : row'[s] # NoRow /\ phase'[s] = "idle"
      BY <1>0, <1>6, <2>1, <2>4, RunFileActionEffect DEF NextAction, StageInv
    <2>6. StageInv'
      BY <1>0, <1>6, <2>3, <2>5 DEF NextAction, StageInv, appVars
    <2>. QED
      BY <1>2, <2>2, <2>3, <2>6
  <1>7. ASSUME NEW r \in Realms, CopyRealmFile(r)
        PROVE  FileInv'
    <2>1. /\ phase[r] = "copying" /\ phase' = [phase EXCEPT ![r] = "erasing"]
          /\ UNCHANGED <<proc, todo, run, row, realm, aux, open, session, reserved, cleared,
                         writes, faults>>
      BY <1>7 DEF CopyRealmFile, userVars, appVars
    <2>2. Backup(r, FALSE)
      BY <1>0, <2>1 DEF WorkInv
    <2>3. PICK n \in Names : n = run[r].copy
      BY <2>2, Paths DEF Backup
    <2>4. /\ copies'[n].whole = TRUE /\ copies'[n].of = copies[n].of
          /\ \A m \in Names : m # n => copies'[m] = copies[m]
          /\ copies' \in [Names -> [of : Contents, whole : BOOLEAN]]
      <3>1. copies' = [copies EXCEPT ![n] = [copies[n] EXCEPT !.whole = TRUE]]
        BY <1>7, <2>3 DEF CopyRealmFile
      <3>2. PICK c \in Contents, w \in BOOLEAN : copies[n] = [of |-> c, whole |-> w]
        BY <1>0 DEF FileTypeOK
      <3>3. [copies[n] EXCEPT !.whole = TRUE] = [of |-> c, whole |-> TRUE]
        <4>1. [[of |-> c, whole |-> w] EXCEPT !.whole = TRUE] = [of |-> c, whole |-> TRUE]
          BY WholeSet
        <4>. QED
          BY <3>2, <4>1, Zenon
      <3>4. copies' = [copies EXCEPT ![n] = [of |-> c, whole |-> TRUE]]
        BY <3>1, <3>3
      <3>5. copies[n].of = c
        BY <3>2
      <3>. QED
        BY <1>0, <3>4, <3>5 DEF FileTypeOK
    <2>5. FileTypeOK' /\ ProcTypeOK' /\ RowInv' /\ RunInv'
      BY <1>0, <2>1, <2>4 DEF FileTypeOK, ProcTypeOK, RowInv, RunInv, Phases
    <2>6. phase'[r] = "erasing" /\ \A s \in Realms : s # r => phase'[s] = phase[s]
      BY <1>0, <2>1 DEF FileTypeOK
    <2>7. StageInv'
      BY <1>0, <2>1, <2>6 DEF StageInv, ProcTypeOK
    <2>8. ASSUME NEW s \in Realms, s # r, NEW w, Backup(s, w)
          PROVE  Backup(s, w)'
      <3>1. run[s].copy \in Names /\ run[s].copy # n
        BY <1>0, <2>3, <2>8, Paths DEF RunInv, Backup
      <3>. QED
        BY <2>1, <2>4, <2>8, <3>1, BackupKept
    <2>9. Backup(r, TRUE)'
      BY <2>1, <2>2, <2>3, <2>4 DEF Backup
    <2>10. WorkInv'
      BY <1>0, <2>1, <2>6, <2>8, <2>9 DEF WorkInv
    <2>. QED
      BY <1>2, <2>5, <2>7, <2>10
  <1>8. ASSUME NEW r \in Realms, CopyFails(r)
        PROVE  FileInv'
    <2>1. /\ phase' = [phase EXCEPT ![r] = "idle"] /\ run' = [run EXCEPT ![r] = NoRun]
          /\ UNCHANGED <<proc, todo, row, realm, aux, copies, open, session, reserved, cleared,
                         writes>>
          /\ faults' = faults + 1 /\ faults < MaxFaults
      BY <1>8 DEF CopyFails, userVars, fileVars, appVars
    <2>2. /\ phase'[r] = "idle" /\ run'[r].copy = 0
          /\ \A s \in Realms : s # r => phase'[s] = phase[s] /\ run'[s] = run[s]
      BY <1>0, <2>1 DEF FileTypeOK, NoRun
    <2>3. FileTypeOK' /\ ProcTypeOK' /\ RowInv'
      BY <1>0, <2>1, FileBounds DEF FileTypeOK, ProcTypeOK, RowInv, Phases, Runs, NoRun
    <2>4. StageInv'
      BY <1>0, <2>1, <2>2 DEF StageInv, ProcTypeOK
    <2>5. RunInv'
      BY <1>0, <2>1, <2>2 DEF RunInv, ProcTypeOK
    <2>6. WorkInv'
      BY <1>0, <2>1, <2>2 DEF WorkInv, Backup
    <2>. QED
      BY <1>2, <2>3, <2>4, <2>5, <2>6
  <1>9. ASSUME NEW r \in Realms, RemoveRealm(r) \/ RemoveLeftovers(r)
        PROVE  FileInv'
    <2>1. /\ phase[r] \in {"erasing", "leftovers"}
          /\ phase' \in [Realms -> Phases]
          /\ phase'[r] \in {"leftovers", "completed"}
          /\ realm'[r] = 0
          /\ run' \in [Realms -> Runs] /\ run'[r].copy \in {0, run[r].copy}
          /\ \A s \in Realms : s # r => /\ phase'[s] = phase[s] /\ realm'[s] = realm[s]
                                        /\ run'[s] = run[s]
          /\ realm' \in [Realms -> Contents] /\ aux' \in [Realms -> BOOLEAN]
          /\ UNCHANGED <<proc, todo, row, copies, open, session, reserved, cleared, writes, faults>>
      <3>1. CASE RemoveRealm(r)
        BY <1>0, <3>1, FileBounds
        DEF RemoveRealm, FileTypeOK, Phases, Contents, NoRun, Runs, userVars, appVars
      <3>2. CASE RemoveLeftovers(r)
        BY <1>0, <3>2 DEF RemoveLeftovers, FileTypeOK, WorkInv, Phases, userVars, appVars
      <3>. QED
        BY <1>9, <3>1, <3>2
    <2>2. FileTypeOK' /\ ProcTypeOK' /\ RowInv'
      BY <1>0, <2>1 DEF FileTypeOK, ProcTypeOK, RowInv
    <2>3. StageInv'
      BY <1>0, <2>1 DEF StageInv, ProcTypeOK
    <2>4. RunInv'
      BY <1>0, <2>1 DEF RunInv, ProcTypeOK
    <2>5. WorkInv'
      BY <1>0, <2>1 DEF WorkInv, Backup
    <2>. QED
      BY <1>2, <2>2, <2>3, <2>4, <2>5
  <1>10. ASSUME NEW r \in Realms, RemoveRow(r)
         PROVE  FileInv'
    <2>1. /\ proc \in {"rows", "up"}
          /\ phase' = [phase EXCEPT ![r] = "idle"] /\ row' = [row EXCEPT ![r] = NoRow]
          /\ UNCHANGED <<proc, todo, run, realm, aux, copies, open, session, reserved, cleared, writes,
                         faults>>
      BY <1>10 DEF RemoveRow, fileVars, userVars, appVars
    <2>2. /\ phase'[r] = "idle" /\ row'[r] = NoRow
          /\ \A s \in Realms : s # r => phase'[s] = phase[s] /\ row'[s] = row[s]
      BY <1>0, <2>1 DEF FileTypeOK
    <2>3. FileTypeOK' /\ ProcTypeOK'
      BY <1>0, <2>1, FileBounds DEF FileTypeOK, ProcTypeOK, Phases, NoRow, Rows
    <2>4. RowInv'
      BY <1>0, <2>1, <2>2 DEF RowInv, NoRow, ProcTypeOK
    <2>5. StageInv' /\ RunInv'
      BY <1>0, <2>1, <2>2 DEF StageInv, RunInv, NoRow
    <2>6. WorkInv'
      BY <1>0, <2>1, <2>2 DEF WorkInv, Backup
    <2>. QED
      BY <1>2, <2>3, <2>4, <2>5, <2>6
  <1>11. CASE ActionsDone \/ RowsDone \/ DirectoriesDone \/ ConfigureDone
    <2>1. UNCHANGED <<phase, run, row, fileVars, reserved, open, session, cleared, writes, faults>>
      BY <1>11 DEF ActionsDone, RowsDone, DirectoriesDone, ConfigureDone, userVars, appVars
    <2>2. ProcTypeOK'
      BY <1>0, <1>11, <2>1 DEF ActionsDone, RowsDone, DirectoriesDone, ConfigureDone, ProcTypeOK
    <2>3. StageInv'
      <3>1. CASE RowsDone
        BY <1>0, <2>1, <3>1 DEF RowsDone, StageInv, Idle
      <3>2. CASE ActionsDone \/ DirectoriesDone \/ ConfigureDone
        BY <1>0, <2>1, <3>2 DEF ActionsDone, DirectoriesDone, ConfigureDone, StageInv
      <3>. QED
        BY <1>11, <3>1, <3>2
    <2>. QED
      BY <1>2, <1>3, <2>1, <2>2, <2>3
  <1>12. ASSUME \/ \E u \in Users : RemoveUserDirectory(u)
                \/ \E r \in Realms : RemoveDirectoryEntry(r)
         PROVE  FileInv'
    <2>1. /\ proc = "directories"
          /\ UNCHANGED <<proc, phase, run, row, copies, open, session, reserved, writes, faults>>
      BY <1>12 DEF RemoveUserDirectory, RemoveDirectoryEntry, appVars
    <2>2. /\ realm' \in [Realms -> Contents] /\ aux' \in [Realms -> BOOLEAN]
          /\ todo' \in [realms : SUBSET Realms, users : SUBSET Users]
          /\ cleared' \subseteq Users
      <3>1. ASSUME NEW u \in Users, RemoveUserDirectory(u)
            PROVE  <2>2
        BY <1>0, <3>1, FileBounds DEF RemoveUserDirectory, FileTypeOK, ProcTypeOK, Contents
      <3>2. ASSUME NEW r \in Realms, RemoveDirectoryEntry(r)
            PROVE  <2>2
        <4>1. realm' = [realm EXCEPT ![r] = 0] \/ realm' = realm
          BY <3>2 DEF RemoveDirectoryEntry
        <4>2. aux' = [aux EXCEPT ![r] = FALSE] \/ aux' = aux
          BY <3>2 DEF RemoveDirectoryEntry
        <4>3. UNCHANGED <<todo, cleared>>
          BY <3>2 DEF RemoveDirectoryEntry, userVars
        <4>4. realm' \in [Realms -> Contents]
          BY <1>0, <4>1, FileBounds DEF FileTypeOK, Contents
        <4>5. aux' \in [Realms -> BOOLEAN]
          BY <1>0, <4>2 DEF FileTypeOK
        <4>. QED
          BY <1>0, <4>3, <4>4, <4>5 DEF ProcTypeOK
      <3>. QED
        BY <1>12, <3>1, <3>2
    <2>3. FileTypeOK' /\ ProcTypeOK' /\ RowInv' /\ RunInv' /\ StageInv'
      BY <1>0, <2>1, <2>2 DEF FileTypeOK, ProcTypeOK, RowInv, RunInv, StageInv
    <2>4. WorkInv'
      BY <1>0, <2>1 DEF WorkInv, StageInv
    <2>. QED
      BY <1>2, <2>3, <2>4
  <1>13. ASSUME NEW u \in Users, RemoveUserDirectoryFails(u) \/ RemoveAccount(u)
                                 \/ LogIn(u) \/ LogOut(u)
         PROVE  FileInv'
    <2>1. UNCHANGED <<proc, phase, run, row, fileVars, reserved, open, writes>>
      BY <1>13 DEF RemoveUserDirectoryFails, RemoveAccount, LogIn, LogOut, appVars
    <2>2. session' = session \/ (proc = "up" /\ session' \subseteq session \cup open)
      BY <1>13 DEF RemoveUserDirectoryFails, RemoveAccount, LogIn, LogOut, appVars
    <2>3. ProcTypeOK'
      BY <1>0, <1>13, <2>1, <2>2, FileBounds
      DEF RemoveUserDirectoryFails, RemoveAccount, LogIn, LogOut, ProcTypeOK, userVars
    <2>4. proc = "actions" => UNCHANGED todo
      BY <1>13 DEF RemoveUserDirectoryFails, RemoveAccount, LogIn, LogOut
    <2>5. StageInv'
      BY <1>0, <2>1, <2>2, <2>4 DEF StageInv
    <2>. QED
      BY <1>2, <1>3, <2>1, <2>3, <2>5
  <1>14. ASSUME NEW r \in Realms, Open(r)
         PROVE  FileInv'
    <2>1. /\ phase[r] = "idle"
          /\ proc = "up"
          /\ UNCHANGED <<proc, todo, phase, run, row, copies, reserved, cleared, faults>>
          /\ \A s \in Realms : s # r => realm'[s] = realm[s]
          /\ open' = open \cup {r} /\ session' = session \cup {r}
      BY <1>0, <1>14 DEF Open, FileTypeOK
    <2>2. /\ realm' \in [Realms -> Contents] /\ aux' \in [Realms -> BOOLEAN]
          /\ writes' \in Contents
      BY <1>0, <1>14, FileBounds DEF Open, FileTypeOK, ProcTypeOK, Contents
    <2>3. FileTypeOK' /\ ProcTypeOK' /\ RowInv' /\ RunInv'
      BY <1>0, <2>1, <2>2 DEF FileTypeOK, ProcTypeOK, RowInv, RunInv
    <2>4. StageInv'
      BY <1>0, <2>1 DEF StageInv
    <2>5. WorkInv'
      BY <1>0, <2>1 DEF WorkInv, Backup
    <2>. QED
      BY <1>2, <2>3, <2>4, <2>5
  <1>19. ASSUME NEW r \in Realms, Write(r)
         PROVE  FileInv'
    <2>1. /\ realm[r] # 0
          /\ UNCHANGED <<proc, todo, phase, row, aux, copies, open, session, reserved, cleared,
                         faults>>
          /\ \A s \in Realms : s # r => realm'[s] = realm[s]
          /\ writes < MaxWrites /\ writes' = writes + 1
          /\ realm' = [realm EXCEPT ![r] = writes + 1]
          /\ run' = [run EXCEPT ![r].wrote = phase[r] \in {"copying", "erasing"}]
      BY <1>0, <1>19 DEF Write, FileTypeOK, userVars, appVars
    <2>2. realm' \in [Realms -> Contents] /\ writes' \in Contents
      BY <1>0, <2>1, FileBounds DEF FileTypeOK, ProcTypeOK, Contents
    <2>3. /\ run' \in [Realms -> Runs]
          /\ run'[r].copy = run[r].copy /\ run'[r].action = run[r].action
          /\ run'[r].wrote = (phase[r] \in {"copying", "erasing"})
          /\ \A s \in Realms : s # r => run'[s] = run[s]
      <3> DEFINE b == phase[r] \in {"copying", "erasing"}
                 new == [action |-> run[r].action, copy |-> run[r].copy, wrote |-> b]
      <3>1. run[r] \in Runs
        BY <1>0 DEF FileTypeOK
      <3>2. new \in Runs /\ new.action = run[r].action /\ new.copy = run[r].copy /\ new.wrote = b
        BY <3>1 DEF Runs
      <3>3. run' = [run EXCEPT ![r] = [run[r] EXCEPT !.wrote = b]]
        BY <2>1
      <3>4. [run[r] EXCEPT !.wrote = b] = new
        <4>1. b \in BOOLEAN
          OBVIOUS
        <4> HIDE DEF b
        <4>. QED
          BY <3>1, <4>1, WroteSet
      <3> HIDE DEF new
      <3>5. run' = [run EXCEPT ![r] = new]
        BY <3>3, <3>4
      <3>. QED
        BY <1>0, <3>2, <3>5 DEF FileTypeOK
    <2>4. FileTypeOK' /\ ProcTypeOK' /\ RowInv'
      BY <1>0, <2>1, <2>2, <2>3 DEF FileTypeOK, ProcTypeOK, RowInv
    <2>5. RunInv'
      BY <1>0, <2>1, <2>3 DEF RunInv
    <2>6. StageInv'
      BY <1>0, <2>1 DEF StageInv
    <2>7. ASSUME NEW w, Backup(r, w), phase[r] \in {"copying", "erasing"}
          PROVE  Backup(r, w)'
      BY <2>1, <2>3, <2>7 DEF Backup
    <2>8. ASSUME NEW s \in Realms, s # r, NEW w, Backup(s, w)
          PROVE  Backup(s, w)'
      BY <2>1, <2>3, <2>8 DEF Backup
    <2>9. WorkInv'
      <3> SUFFICES ASSUME NEW s \in Realms
                   PROVE  /\ phase'[s] = "copying" => run'[s].action = "backup" /\ Backup(s, FALSE)'
                          /\ phase'[s] = "erasing" /\ run'[s].action = "backup" => Backup(s, TRUE)'
                          /\ phase'[s] \in {"leftovers", "completed"} => realm'[s] = 0
        BY DEF WorkInv
      <3>1. CASE s = r
        BY <1>0, <2>1, <2>3, <2>7, <3>1 DEF WorkInv
      <3>2. CASE s # r
        BY <1>0, <2>1, <2>3, <2>8, <3>2 DEF WorkInv
      <3>. QED
        BY <3>1, <3>2
    <2>. QED
      BY <1>2, <2>4, <2>5, <2>6, <2>9
  <1>15. ASSUME NEW r \in Realms, Close(r) \/ EndSession(r)
         PROVE  FileInv'
    <2>1. /\ UNCHANGED <<proc, todo, phase, run, row, fileVars, reserved, cleared, writes, faults>>
          /\ open' \subseteq open /\ session' \subseteq session
      BY <1>15 DEF Close, EndSession, userVars
    <2>2. ProcTypeOK' /\ StageInv'
      BY <1>0, <2>1 DEF ProcTypeOK, StageInv
    <2>. QED
      BY <1>2, <1>3, <2>1, <2>2
  <1>16. ASSUME NEW r \in Realms, ClientReset(r) \/ PermissionDenied(r)
         PROVE  FileInv'
    <2>1. /\ proc = "up"
          /\ UNCHANGED <<proc, todo, phase, run, realm, aux, copies, open, cleared, writes, faults>>
          /\ session' = session \ {r}
      BY <1>0, <1>16 DEF ClientReset, PermissionDenied, StageInv, fileVars, userVars
    <2>2. \/ reserved < MaxCopies /\ reserved' = reserved + 1
             /\ row' = [row EXCEPT ![r] = [action |-> "backup", copy |-> reserved + 1]]
          \/ UNCHANGED reserved /\ row' = [row EXCEPT ![r] = [action |-> "delete", copy |-> 0]]
      BY <1>16 DEF ClientReset, PermissionDenied, MakeFileActionMetadata
    <2>3. row' \in [Realms -> Rows] /\ reserved' \in 0 .. MaxCopies
      <3>1. reserved' \in 0 .. MaxCopies
        BY <1>0, <2>2, FileBounds DEF ProcTypeOK
      <3>2. PICK x \in Rows : row' = [row EXCEPT ![r] = x]
        <4>1. /\ [action |-> "delete", copy |-> 0] \in Rows
              /\ reserved' = reserved + 1 => [action |-> "backup", copy |-> reserved + 1] \in Rows
          BY <3>1, FileBounds DEF Rows
        <4>. QED
          BY <2>2, <4>1, Zenon
      <3>. QED
        BY <1>0, <3>1, <3>2 DEF FileTypeOK
    <2>4. /\ row'[r].action \in {"backup", "delete"} /\ row'[r] # NoRow
          /\ row'[r].copy = 0 \/ (row'[r].copy = reserved' /\ reserved' = reserved + 1)
          /\ reserved <= reserved'
          /\ \A s \in Realms : s # r => row'[s] = row[s]
      BY <1>0, <2>2, FileBounds DEF FileTypeOK, ProcTypeOK, NoRow
    <2>5. FileTypeOK' /\ ProcTypeOK'
      BY <1>0, <2>1, <2>3 DEF FileTypeOK, ProcTypeOK
    <2>6. RowInv' /\ RunInv'
      <3>1. \A s \in Realms : row[s].copy \in Nat /\ run[s].copy \in Nat /\ row'[s].copy \in Nat
        BY <1>0, <2>3, Paths, FileBounds DEF FileTypeOK, Rows
      <3>2. reserved \in Nat /\ reserved' \in Nat
        BY <1>0, <2>3, FileBounds DEF ProcTypeOK
      <3>3. RowInv'
        BY <1>0, <2>4, <3>1, <3>2 DEF RowInv
      <3>4. RunInv'
        BY <1>0, <2>1, <2>4, <3>1, <3>2 DEF RunInv
      <3>. QED
        BY <3>3, <3>4
    <2>7. StageInv'
      BY <1>0, <2>1, <2>4 DEF StageInv
    <2>8. WorkInv'
      BY <1>0, <2>1 DEF WorkInv, Backup
    <2>. QED
      BY <1>2, <2>5, <2>6, <2>7, <2>8
  <1>17. ASSUME NEW r \in Realms, ImmediatelyRunFileActions(r)
         PROVE  FileInv'
    <2>1. /\ proc = "up" /\ row[r] # NoRow /\ phase[r] = "idle" /\ r \notin open
          /\ RunFileAction(r)
          /\ UNCHANGED <<proc, todo, row, realm, aux, open, session, reserved, cleared, writes,
                         faults>>
      BY <1>17 DEF ImmediatelyRunFileActions, userVars, appVars
    <2>2. /\ FileTypeOK' /\ RowInv' /\ RunInv' /\ WorkInv'
          /\ \A s \in Realms : phase'[s] # "idle" => s \notin open' /\ row'[s] # NoRow
      BY <2>1, RunFileActionInv
    <2>3. ProcTypeOK' /\ StageInv'
      BY <1>0, <2>1, <2>2 DEF ProcTypeOK, StageInv
    <2>. QED
      BY <1>2, <2>2, <2>3
  <1>18. CASE Quit \/ Kill \/ \E u \in Users : KillInLogIn(u)
    <2>1. Stop /\ UNCHANGED <<row, fileVars, reserved, writes>>
          /\ (UNCHANGED faults \/ (faults < MaxFaults /\ faults' = faults + 1))
      BY <1>18 DEF Quit, Kill, KillInLogIn
    <2>2. /\ phase' \in [Realms -> Phases] /\ \A r \in Realms : phase'[r] = "idle"
          /\ run' \in [Realms -> Runs] /\ \A r \in Realms : run'[r].copy = 0
          /\ proc' = "down" /\ open' = {} /\ session' = {} /\ cleared' = {} /\ todo' = Nothing
      BY <2>1, FileBounds DEF Stop, Idle, Phases, NoRuns, NoRun, Runs
    <2>3. FileTypeOK' /\ ProcTypeOK' /\ RowInv'
      BY <1>0, <2>1, <2>2, FileBounds DEF FileTypeOK, ProcTypeOK, RowInv, fileVars, Nothing
    <2>4. StageInv' /\ WorkInv'
      BY <2>2 DEF StageInv, WorkInv
    <2>5. RunInv'
      <3>1. 0 <= reserved'
        BY <1>0, <2>1, FileBounds DEF ProcTypeOK
      <3>. QED
        BY <2>2, <3>1 DEF RunInv
    <2>. QED
      BY <1>2, <2>3, <2>4, <2>5
  <1>. QED
    BY <1>4, <1>5, <1>6, <1>7, <1>8, <1>9, <1>10, <1>11, <1>12, <1>13, <1>14, <1>15, <1>16, <1>17, <1>18, <1>19
    DEF Next, Startup, FileWork, App, Fault

(***************************************************************************)
(* Type correctness of the persisted state and of the startup: every row   *)
(* names a recovery path that was reserved for it.                         *)
(***************************************************************************)
THEOREM TypeOKHolds == Spec => []TypeOK
  <1>1. FileInv => TypeOK
    BY TypeInvIsTypeOK DEF FileInv
  <1>. QED
    BY <1>1, InitFile, NextFile, PTL DEF Spec

(***************************************************************************)
(* run_file_action erases a Realm that it found to be backed up only when  *)
(* the recovery file is whole and holds what the Realm holds, or held      *)
(* before a session that is still up wrote to it, also when an error has   *)
(* overwritten the row meanwhile.                                          *)
(***************************************************************************)
THEOREM ErasedOnlyAfterBackupHolds == Spec => ErasedOnlyAfterBackup
  <1> DEFINE Step == \A r \in Realms :
       phase[r] = "erasing" /\ run[r].action = "backup" /\ realm[r] # 0 /\ realm'[r] = 0
         => /\ copies[run[r].copy].whole
            /\ copies[run[r].copy].of = realm[r] \/ run[r].wrote
  <1>1. FileInv /\ [Next]_vars => Step
    BY DEF FileInv, WorkInv, Backup
  <1>2. Spec => [][Step]_vars
    BY <1>1, InitFile, NextFile, PTL DEF Spec
  <1>. QED
    BY <1>2 DEF ErasedOnlyAfterBackup

(***************************************************************************)
(* No step replaces a whole recovery file: copy_realm_file writes only     *)
(* where nothing lies, and no two Realms have the same recovery path.      *)
(***************************************************************************)
THEOREM RecoveryFilesAreKeptHolds == Spec => RecoveryFilesAreKept
  <1> DEFINE Step == \A n \in Names : copies[n].whole => copies'[n] = copies[n]
  <1>1. FileInv /\ [Next]_vars => Step
    <2> SUFFICES ASSUME FileInv, [Next]_vars PROVE Step
      OBVIOUS
    <2>1. ASSUME NEW r \in Realms, NextAction(r) \/ ImmediatelyRunFileActions(r)
          PROVE  Step
      <3>1. row[r] # NoRow /\ phase[r] = "idle" /\ RunFileAction(r) /\ UNCHANGED <<row, realm>>
        BY <2>1 DEF NextAction, ImmediatelyRunFileActions, FileInv, StageInv
      <3>. QED
        BY <3>1, RunFileActionEffect
    <2>2. ASSUME NEW r \in Realms, CopyRealmFile(r)
          PROVE  Step
      <3>1. ~copies[run[r].copy].whole
        BY <2>2 DEF CopyRealmFile, FileInv, WorkInv, Backup
      <3>2. \A n \in Names : n # run[r].copy => copies'[n] = copies[n]
        BY <2>2 DEF CopyRealmFile, FileInv, TypeInv, FileTypeOK
      <3>. QED
        BY <3>1, <3>2
    <2>3. \/ UNCHANGED copies
          \/ \E r \in Realms :
               NextAction(r) \/ ImmediatelyRunFileActions(r) \/ CopyRealmFile(r)
      BY DEF Next, Startup, FileWork, App, Fault, Launch, RemoveRealm, RemoveLeftovers, RemoveRow,
             ActionsDone, RowsDone, RemoveUserDirectory, RemoveDirectoryEntry, RemoveAccount, DirectoriesDone, ConfigureDone,
             LogIn, LogOut, Open, Write, Close, EndSession, ClientReset, PermissionDenied, Kill, CopyFails,
             RemoveUserDirectoryFails, KillInLogIn, Quit, vars, fileVars
    <2>. QED
      BY <2>1, <2>2, <2>3
  <1>2. Spec => [][Step]_vars
    BY <1>1, InitFile, NextFile, PTL DEF Spec
  <1>. QED
    BY <1>2 DEF RecoveryFilesAreKept

(***************************************************************************)
(* A file action row goes only when the Realm file is gone (the loops of   *)
(* configure, immediately_run_file_actions).                               *)
(***************************************************************************)
THEOREM RowsOutliveTheirRealmsHolds == Spec => RowsOutliveTheirRealms
  <1> DEFINE Step == \A r \in Realms : row[r] # NoRow /\ row'[r] = NoRow => realm[r] = 0
  <1>1. FileInv /\ [Next]_vars => Step
    <2> SUFFICES ASSUME FileInv, [Next]_vars PROVE Step
      OBVIOUS
    <2>1. ASSUME NEW r \in Realms, RemoveRow(r)
          PROVE  Step
      <3>1. realm[r] = 0 /\ \A s \in Realms : s # r => row'[s] = row[s]
        BY <2>1 DEF RemoveRow, FileInv, WorkInv, TypeInv, FileTypeOK
      <3>. QED
        BY <3>1
    <2>2. ASSUME NEW r \in Realms, ClientReset(r) \/ PermissionDenied(r)
          PROVE  Step
      <3>1. \E n : \/ row' = [row EXCEPT ![r] = [action |-> "backup", copy |-> n]]
                   \/ row' = [row EXCEPT ![r] = [action |-> "delete", copy |-> n]]
        BY <2>2 DEF ClientReset, PermissionDenied, MakeFileActionMetadata
      <3>2. row'[r] # NoRow /\ \A s \in Realms : s # r => row'[s] = row[s]
        BY <3>1 DEF NoRow, FileInv, TypeInv, FileTypeOK
      <3>. QED
        BY <3>2
    <2>3. \/ UNCHANGED row
          \/ \E r \in Realms : RemoveRow(r) \/ ClientReset(r) \/ PermissionDenied(r)
      BY DEF Next, Startup, FileWork, App, Fault, Launch, NextAction, CopyRealmFile, RemoveRealm,
             RemoveLeftovers, ActionsDone, RowsDone, RemoveUserDirectory, RemoveDirectoryEntry, RemoveAccount,
             DirectoriesDone, ConfigureDone, LogIn, LogOut, Open, Write, Close, EndSession,
             ImmediatelyRunFileActions, Kill, CopyFails, RemoveUserDirectoryFails, KillInLogIn, Quit,
             vars
    <2>. QED
      BY <2>1, <2>2, <2>3
  <1>2. Spec => [][Step]_vars
    BY <1>1, InitFile, NextFile, PTL DEF Spec
  <1>. QED
    BY <1>2 DEF RowsOutliveTheirRealms
=============================================================================
