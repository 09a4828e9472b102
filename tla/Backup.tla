-------------------------------- MODULE Backup --------------------------------
(***************************************************************************)
(* Registry backups (BackupFile in internal/registry/backup.go, run by     *)
(* `hermes-voice --backup-registry`).                                      *)
(*                                                                         *)
(* A call copies the registry file into the backup directory under a name  *)
(* made of the second and, if that is taken, a counter.  Several processes *)
(* may do so in the same second, while an editor saves the file (by        *)
(* renaming a new one over it, or by writing into it), and each may die at *)
(* any time.  Nothing else removes or writes backups.                      *)
(*                                                                         *)
(* A file has a text of blocks, the units io.Copy moves; an open file is   *)
(* known by its inode and keeps it when the path is renamed over.          *)
(***************************************************************************)
EXTENDS Naturals, Sequences

CONSTANTS
  Calls,    \* calls of BackupFile
  Seconds,  \* the readings of the clock, as formatted into a name
  Blocks,   \* what io.Copy moves at a time
  Texts,    \* what the editor saves
  MaxEdits  \* bound on saves

ASSUME BackupConstants ==
  /\ Texts \subseteq Seq(Blocks)
  /\ MaxEdits \in Nat

VARIABLES
  registry,  \* the inode at sourcePath; 0 when there is none
  inodes,    \* the text of each inode the editor made
  edits,     \* how often it has saved
  files,     \* the backup directory: name -> [by: the call, text]
  pc,        \* BackupFile, per call
  second,    \* its `now`
  source,    \* the inode it has open
  attempt,   \* its loop variable i
  seen       \* the texts that inode has had while it was open

editVars == <<registry, inodes, edits>>
callVars == <<files, pc, second, source, attempt>>
vars == <<editVars, callVars, seen>>

Holding == {"opened", "naming", "copying", "removing"}
Ended   == {"done", "failed", "leaked", "crashed"}

(* backupPath, lines 35-46.                                                *)
Names == Seconds \X Nat
Name(c) == <<second[c], attempt[c]>>

TypeOK ==
  /\ registry \in 0..Len(inodes)
  /\ inodes \in Seq(Texts)
  /\ edits \in 0..MaxEdits
  /\ DOMAIN files \subseteq Names
  /\ \A n \in DOMAIN files : files[n] \in [by : Calls, text : Seq(Blocks)]
  /\ pc \in [Calls -> {"idle"} \cup Holding \cup Ended]
  /\ second \in [Calls -> Seconds]
  /\ source \in [Calls -> 0..Len(inodes)]
  /\ attempt \in [Calls -> Nat]
  /\ seen \in [Calls -> SUBSET Texts]
  /\ \A c \in Calls : pc[c] \in Holding \cup {"done"} => source[c] # 0

Init ==
  /\ \/ registry = 0 /\ inodes = <<>>
     \/ registry = 1 /\ \E t \in Texts : inodes = <<t>>
  /\ edits = 0
  /\ files = [n \in {} |-> <<>>]
  /\ pc = [c \in Calls |-> "idle"]
  /\ second \in [Calls -> Seconds]
  /\ source = [c \in Calls |-> 0]
  /\ attempt = [c \in Calls |-> 0]
  /\ seen = [c \in Calls |-> {}]

-----------------------------------------------------------------------------
(* The editor saves under a new inode and renames it over the path, or     *)
(* writes into the file that is there.                                     *)

Rename ==
  /\ edits < MaxEdits
  /\ edits' = edits + 1
  /\ \E t \in Texts : inodes' = Append(inodes, t)
  /\ registry' = Len(inodes')
  /\ UNCHANGED <<callVars, seen>>

Overwrite ==
  /\ edits < MaxEdits
  /\ registry # 0
  /\ edits' = edits + 1
  /\ \E t \in Texts :
       /\ inodes' = [inodes EXCEPT ![registry] = t]
       /\ seen' = [c \in Calls |-> IF pc[c] \in Holding /\ source[c] = registry
                                  THEN seen[c] \cup {t} ELSE seen[c]]
  /\ UNCHANGED <<registry, callVars>>

-----------------------------------------------------------------------------
(* BackupFile                                                              *)

Goto(c, step) == pc' = [pc EXCEPT ![c] = step]

(* Mutation of Open: the error of os.Open is not looked at.                *)
OpenUnchecked(c) ==
  /\ pc[c] = "idle"
  /\ source' = [source EXCEPT ![c] = registry]
  /\ Goto(c, "opened")
  /\ UNCHANGED <<editVars, seen, files, second, attempt>>

(* os.Open, or its error.                                                  *)
Open(c) ==
  /\ pc[c] = "idle"
  /\ \/ /\ registry # 0
        /\ source' = [source EXCEPT ![c] = registry]
        /\ seen' = [seen EXCEPT ![c] = {inodes[registry]}]
        /\ Goto(c, "opened")
     \/ Goto(c, "failed") /\ UNCHANGED <<source, seen>>
  /\ UNCHANGED <<editVars, files, second, attempt>>

MkdirAll(c) ==
  /\ pc[c] = "opened"
  /\ Goto(c, "naming") \/ Goto(c, "failed")
  /\ UNCHANGED <<editVars, seen, files, second, source, attempt>>

WithNew(c) ==
  [n \in DOMAIN files \cup {Name(c)} |->
     IF n = Name(c) THEN [by |-> c, text |-> <<>>] ELSE files[n]]

(* Mutation of OpenBackup: os.Create, which truncates what is there.       *)
OpenBackupTruncating(c) ==
  /\ pc[c] = "naming"
  /\ files' = WithNew(c)
  /\ Goto(c, "copying")
  /\ UNCHANGED <<editVars, seen, second, source, attempt>>

(* Mutation of OpenBackup: `continue` with a name that does not change.    *)
OpenBackupAgain(c) ==
  /\ pc[c] = "naming"
  /\ Name(c) \notin DOMAIN files
  /\ files' = WithNew(c)
  /\ Goto(c, "copying")
  /\ UNCHANGED <<editVars, seen, second, source, attempt>>

(* os.OpenFile with O_EXCL: the name is taken, or it is ours, or an error. *)
OpenBackup(c) ==
  /\ pc[c] = "naming"
  /\ \/ /\ Name(c) \in DOMAIN files
        /\ attempt' = [attempt EXCEPT ![c] = @ + 1]
        /\ UNCHANGED <<files, pc>>
     \/ /\ Name(c) \notin DOMAIN files
        /\ files' = WithNew(c)
        /\ Goto(c, "copying")
        /\ UNCHANGED attempt
     \/ Goto(c, "failed") /\ UNCHANGED <<files, attempt>>
  /\ UNCHANGED <<editVars, seen, second, source>>

(* io.Copy: the next block of the source as it now is.                     *)
Read(c)    == inodes[source[c]]
Written(c) == files[Name(c)].text

CopyBlock(c) ==
  /\ pc[c] = "copying"
  /\ Len(Written(c)) < Len(Read(c))
  /\ files' = [files EXCEPT ![Name(c)].text = Append(@, Read(c)[Len(@) + 1])]
  /\ UNCHANGED <<editVars, seen, pc, second, source, attempt>>

(* Mutation of Close: only the error of Close is looked at.                *)
CloseUnread(c) ==
  /\ pc[c] = "copying"
  /\ Goto(c, "done") \/ Goto(c, "removing")
  /\ UNCHANGED <<editVars, seen, files, second, source, attempt>>

(* The end of the source and a Close that succeeds, or an error of either. *)
Close(c) ==
  /\ pc[c] = "copying"
  /\ \/ Len(Written(c)) >= Len(Read(c)) /\ Goto(c, "done")
     \/ Goto(c, "removing")
  /\ UNCHANGED <<editVars, seen, files, second, source, attempt>>

(* Mutation of Remove: the error is returned and the file stays.           *)
RemoveNothing(c) ==
  /\ pc[c] = "removing"
  /\ Goto(c, "failed")
  /\ UNCHANGED <<editVars, seen, files, second, source, attempt>>

(* os.Remove, lines 57 and 61; its own error is dropped.                   *)
Remove(c) ==
  /\ pc[c] = "removing"
  /\ \/ /\ files' = [n \in DOMAIN files \ {Name(c)} |-> files[n]]
        /\ Goto(c, "failed")
     \/ Goto(c, "leaked") /\ UNCHANGED files
  /\ UNCHANGED <<editVars, seen, second, source, attempt>>

Crash(c) ==
  /\ pc[c] \in Holding
  /\ Goto(c, "crashed")
  /\ UNCHANGED <<editVars, seen, files, second, source, attempt>>

Step(c) == Open(c) \/ MkdirAll(c) \/ OpenBackup(c) \/ CopyBlock(c) \/ Close(c) \/ Remove(c)

Idle == (\A c \in Calls : pc[c] \in Ended) /\ UNCHANGED vars

Next ==
  \/ Rename \/ Overwrite
  \/ \E c \in Calls : Step(c) \/ Crash(c)
  \/ Idle

Spec == Init /\ [][Next]_vars

(* A process that has been started runs.                                   *)
FairSpec == Spec /\ \A c \in Calls : WF_vars(pc[c] # "idle" /\ Step(c))

-----------------------------------------------------------------------------
(***************************************************************************)
(* The path a call returns names a file of its own and, unless the editor  *)
(* wrote another text into the very inode while it was being copied, that  *)
(* file is an exact copy of the version the call opened, however many      *)
(* versions have been renamed over the path and however many calls picked  *)
(* the same name ("an exact byte-for-byte copy", README.md:212).           *)
(***************************************************************************)
ReturnedIsWhole ==
  \A c \in Calls : pc[c] = "done" =>
    /\ Name(c) \in DOMAIN files
    /\ files[Name(c)].by = c
    /\ \A t \in Texts : seen[c] = {t} => files[Name(c)].text = t

(***************************************************************************)
(* Every file under a backup's name is explained: its call has returned it *)
(* (ReturnedIsWhole says of what it then is a copy), or it may be partial  *)
(* because its call is still copying, or died, or could not remove it.  A  *)
(* call that has reported an error and could clean up has left nothing     *)
(* (lines 56-63).                                                          *)
(***************************************************************************)
PartialIsExplained ==
  \A n \in DOMAIN files :
    LET c == files[n].by IN
    /\ n = Name(c)
    /\ pc[c] \in {"copying", "removing", "done", "crashed", "leaked"}

(***************************************************************************)
(* A backup that has been returned is never touched again, by no call of   *)
(* the same second and by none that fails and cleans up (O_EXCL, line 47). *)
(***************************************************************************)
BackupsAreKept ==
  [][\A c \in Calls :
       pc[c] = "done" =>
         Name(c)' \in DOMAIN files' /\ files'[Name(c)'] = files[Name(c)]]_vars

(***************************************************************************)
(* Every call comes to an end: the search for a free name cannot go on for *)
(* ever (the loop of line 41 has no bound of its own).                     *)
(***************************************************************************)
BackupEnds == \A c \in Calls : pc[c] = "opened" ~> pc[c] \in Ended
=============================================================================
