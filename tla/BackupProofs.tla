----------------------------- MODULE BackupProofs -----------------------------
(***************************************************************************)
(* Proofs about registry backups, for any number of calls in any seconds,  *)
(* any texts and any number of saves.                                      *)
(***************************************************************************)
EXTENDS Backup, TLAPS

USE BackupConstants

-----------------------------------------------------------------------------
(* What the checked properties need to be inductive.                       *)

(* A call that has made its backup file owns the file of its name.         *)
OwnsFile ==
  \A c \in Calls :
    pc[c] \in {"copying", "removing", "done"} =>
      Name(c) \in DOMAIN files /\ files[Name(c)].by = c

(* The text a call reads is one of those it has seen.                      *)
SeesSource == \A c \in Calls : pc[c] \in Holding => inodes[source[c]] \in seen[c]

IsPrefixOf(s, t) == Len(s) <= Len(t) /\ \A i \in 1..Len(s) : s[i] = t[i]

(* While the source keeps its text, the backup is a prefix of it.          *)
CopyIsPrefix ==
  \A c \in Calls : pc[c] = "copying" =>
    \A t \in Texts : seen[c] = {t} => IsPrefixOf(files[Name(c)].text, t)

IInv ==
  /\ TypeOK
  /\ OwnsFile
  /\ SeesSource
  /\ CopyIsPrefix
  /\ PartialIsExplained
  /\ ReturnedIsWhole

-----------------------------------------------------------------------------
(***************************************************************************)
(* A prefix as long as the whole is the whole.                             *)
(***************************************************************************)
LEMMA FullPrefix ==
  ASSUME NEW s \in Seq(Blocks), NEW t \in Seq(Blocks),
         IsPrefixOf(s, t), Len(s) >= Len(t)
  PROVE  s = t
<1>1. Len(s) = Len(t) /\ Len(s) \in Nat
  BY DEF IsPrefixOf
<1>2. \A i \in 1..Len(s) : s[i] = t[i]
  BY DEF IsPrefixOf
<1> QED BY <1>1, <1>2

(***************************************************************************)
(* The next block makes a prefix longer.                                   *)
(***************************************************************************)
LEMMA LongerPrefix ==
  ASSUME NEW s \in Seq(Blocks), NEW t \in Seq(Blocks),
         IsPrefixOf(s, t), Len(s) < Len(t)
  PROVE  IsPrefixOf(Append(s, t[Len(s) + 1]), t)
  BY DEF IsPrefixOf

(***************************************************************************)
(* Before the first call there is no backup.                               *)
(***************************************************************************)
LEMMA InitInv == Init => IInv
<1> SUFFICES ASSUME Init PROVE IInv
  OBVIOUS
<1>1. DOMAIN files = {}
  BY DEF Init
<1>2. registry \in 0..Len(inodes) /\ inodes \in Seq(Texts)
  <2>1. CASE registry = 0 /\ inodes = <<>>
    BY <2>1
  <2>2. ASSUME NEW t \in Texts, registry = 1, inodes = <<t>>
        PROVE  registry \in 0..Len(inodes) /\ inodes \in Seq(Texts)
    BY <2>2
  <2> QED BY <2>1, <2>2 DEF Init
<1>3. TypeOK
  <2>1. /\ source \in [Calls -> 0..Len(inodes)] /\ seen \in [Calls -> SUBSET Texts]
        /\ pc \in [Calls -> {"idle"} \cup Holding \cup Ended] /\ edits \in 0..MaxEdits
    BY <1>2 DEF Init
  <2>2. \A c \in Calls : pc[c] \notin Holding \cup {"done"}
    BY DEF Init, Holding
  <2>3. second \in [Calls -> Seconds] /\ attempt \in [Calls -> Nat]
    BY DEF Init
  <2>4. DOMAIN files \subseteq Names /\ \A n \in DOMAIN files : files[n] \in [by : Calls, text : Seq(Blocks)]
    BY <1>1
  <2> QED BY <1>2, <2>1, <2>2, <2>3, <2>4 DEF TypeOK
<1>4. OwnsFile /\ SeesSource /\ CopyIsPrefix /\ ReturnedIsWhole
  BY DEF Init, OwnsFile, SeesSource, CopyIsPrefix, ReturnedIsWhole, Holding
<1>5. PartialIsExplained
  BY <1>1 DEF PartialIsExplained
<1> QED BY <1>3, <1>4, <1>5 DEF IInv

-----------------------------------------------------------------------------
(***************************************************************************)
(* Every step keeps the types: a call that holds a file holds an inode     *)
(* that was there when it opened it.                                       *)
(***************************************************************************)
LEMMA TypeStep == TypeOK /\ OwnsFile /\ [Next]_vars => TypeOK'
<1> SUFFICES ASSUME TypeOK, OwnsFile, [Next]_vars PROVE TypeOK'
  OBVIOUS
<1>1. CASE Rename
  <2>1. PICK t \in Texts : inodes' = Append(inodes, t)
    BY <1>1 DEF Rename
  <2>2. inodes' \in Seq(Texts) /\ Len(inodes') = Len(inodes) + 1
    BY <2>1 DEF TypeOK
  <2> QED BY <1>1, <2>2 DEF TypeOK, Rename, callVars
<1>2. CASE Overwrite
  <2>1. PICK t \in Texts :
          /\ inodes' = [inodes EXCEPT ![registry] = t]
          /\ seen' = [c \in Calls |-> IF pc[c] \in Holding /\ source[c] = registry
                                     THEN seen[c] \cup {t} ELSE seen[c]]
    BY <1>2 DEF Overwrite
  <2>2. inodes' \in Seq(Texts) /\ Len(inodes') = Len(inodes)
    <3>1. registry \in 1..Len(inodes) /\ inodes \in Seq(Texts)
      BY <1>2 DEF Overwrite, TypeOK
    <3> QED BY <2>1, <3>1
  <2>3. seen' \in [Calls -> SUBSET Texts]
    BY <2>1 DEF TypeOK
  <2>4. edits' \in 0..MaxEdits
    BY <1>2 DEF Overwrite, TypeOK
  <2>5. registry' \in 0..Len(inodes') /\ source' \in [Calls -> 0..Len(inodes')]
    BY <1>2, <2>2 DEF Overwrite, callVars, TypeOK
  <2>6. UNCHANGED <<files, pc, second, source, attempt>>
    BY <1>2 DEF Overwrite, callVars
  <2> QED BY <2>2, <2>3, <2>4, <2>5, <2>6 DEF TypeOK
<1>3. ASSUME NEW c \in Calls, Open(c) PROVE TypeOK'
  <2>1. CASE /\ registry # 0
             /\ source' = [source EXCEPT ![c] = registry]
             /\ seen' = [seen EXCEPT ![c] = {inodes[registry]}]
             /\ Goto(c, "opened")
    <3>1. inodes[registry] \in Texts
      BY <2>1 DEF TypeOK
    <3>2. seen' \in [Calls -> SUBSET Texts] /\ source' \in [Calls -> 0..Len(inodes)]
      BY <2>1, <3>1 DEF TypeOK
    <3>3. pc' \in [Calls -> {"idle"} \cup Holding \cup Ended]
      BY <2>1 DEF TypeOK, Goto, Holding, Ended
    <3>4. \A d \in Calls : pc'[d] \in Holding \cup {"done"} => source'[d] # 0
      BY <2>1 DEF TypeOK, Goto, Holding
    <3> QED BY <1>3, <3>2, <3>3, <3>4 DEF TypeOK, Open, editVars
  <2>2. CASE Goto(c, "failed") /\ UNCHANGED <<source, seen>>
    BY <1>3, <2>2 DEF TypeOK, Open, Goto, Holding, Ended, editVars
  <2> QED BY <1>3, <2>1, <2>2 DEF Open
<1>4. ASSUME NEW c \in Calls, MkdirAll(c) PROVE TypeOK'
  BY <1>4 DEF TypeOK, MkdirAll, Goto, Holding, Ended, editVars
<1>5. ASSUME NEW c \in Calls, OpenBackup(c) PROVE TypeOK'
  <2>1. Name(c) \in Names
    BY DEF TypeOK, Name, Names
  <2>2. files' = files \/ files' = WithNew(c)
    BY <1>5 DEF OpenBackup
  <2>3. [by |-> c, text |-> <<>>] \in [by : Calls, text : Seq(Blocks)]
    OBVIOUS
  <2>4. DOMAIN files' \subseteq Names
    BY <2>1, <2>2 DEF TypeOK, WithNew
  <2>5. \A n \in DOMAIN files' : files'[n] \in [by : Calls, text : Seq(Blocks)]
    <3>1. CASE files' = files
      BY <3>1 DEF TypeOK
    <3>2. CASE files' = WithNew(c)
      <4>1. \A n \in DOMAIN files' :
              \/ files'[n] = [by |-> c, text |-> <<>>]
              \/ n \in DOMAIN files /\ files'[n] = files[n]
        BY ONLY <3>2 DEF WithNew
      <4> QED BY <2>3, <4>1 DEF TypeOK
    <3> QED BY <2>2, <3>1, <3>2
  <2>6. pc' \in [Calls -> {"idle"} \cup Holding \cup Ended] /\ attempt' \in [Calls -> Nat]
    <3>1. pc' = pc \/ Goto(c, "copying") \/ Goto(c, "failed")
      BY <1>5 DEF OpenBackup
    <3>2. attempt' = attempt \/ attempt' = [attempt EXCEPT ![c] = @ + 1]
      BY <1>5 DEF OpenBackup
    <3>3. pc' \in [Calls -> {"idle"} \cup Holding \cup Ended]
      BY <3>1 DEF TypeOK, Goto, Holding, Ended
    <3> QED BY <3>2, <3>3 DEF TypeOK
  <2>7. \A d \in Calls : pc'[d] \in Holding \cup {"done"} => source'[d] # 0
    BY <1>5 DEF TypeOK, OpenBackup, Goto, Holding
  <2> QED BY <1>5, <2>4, <2>5, <2>6, <2>7 DEF TypeOK, OpenBackup, editVars
<1>6. ASSUME NEW c \in Calls, CopyBlock(c) PROVE TypeOK'
  <2>1. Name(c) \in DOMAIN files /\ Written(c) \in Seq(Blocks)
    BY <1>6 DEF TypeOK, CopyBlock, OwnsFile, Written
  <2>2. Read(c) \in Seq(Blocks)
    BY <1>6 DEF TypeOK, CopyBlock, Read, Holding
  <2>3. Append(Written(c), Read(c)[Len(Written(c)) + 1]) \in Seq(Blocks)
    BY <1>6, <2>1, <2>2 DEF CopyBlock
  <2>4. files' = [files EXCEPT ![Name(c)].text = Append(Written(c), Read(c)[Len(Written(c)) + 1])]
    BY <1>6 DEF CopyBlock, Written
  <2>5. DOMAIN files' = DOMAIN files
        /\ \A n \in DOMAIN files' : files'[n] \in [by : Calls, text : Seq(Blocks)]
    BY <2>1, <2>3, <2>4 DEF TypeOK
  <2> QED BY <1>6, <2>5 DEF TypeOK, CopyBlock, editVars
<1>7. ASSUME NEW c \in Calls, Close(c) PROVE TypeOK'
  BY <1>7 DEF TypeOK, Close, Goto, Holding, Ended, editVars
<1>8. ASSUME NEW c \in Calls, Remove(c) PROVE TypeOK'
  BY <1>8 DEF TypeOK, Remove, Goto, Holding, Ended, editVars
<1>9. ASSUME NEW c \in Calls, Crash(c) PROVE TypeOK'
  BY <1>9 DEF TypeOK, Crash, Goto, Holding, Ended, editVars
<1>10. CASE UNCHANGED vars
  BY <1>10 DEF TypeOK, vars, editVars, callVars
<1> QED BY <1>1, <1>2, <1>3, <1>4, <1>5, <1>6, <1>7, <1>8, <1>9, <1>10 DEF Next, Step, Idle

-----------------------------------------------------------------------------
(* What a step of one call does to the backups of the others.              *)

HasFile == {"copying", "removing", "done"}

(***************************************************************************)
(* A step of a call leaves the other calls where they are.                 *)
(***************************************************************************)
LEMMA OthersStay ==
  ASSUME TypeOK, NEW d \in Calls, Step(d) \/ Crash(d), NEW c \in Calls, c # d
  PROVE  /\ pc'[c] = pc[c] /\ source'[c] = source[c] /\ seen'[c] = seen[c]
         /\ Name(c)' = Name(c)
         /\ inodes' = inodes
<1> USE DEF Goto, editVars, Name
<1>1. ASSUME Open(d) PROVE seen'[c] = seen[c] /\ source'[c] = source[c] /\ pc'[c] = pc[c]
  BY <1>1 DEF Open, TypeOK
<1>2. ASSUME OpenBackup(d) PROVE attempt'[c] = attempt[c] /\ pc'[c] = pc[c]
  BY <1>2 DEF OpenBackup, TypeOK
<1>3. CASE Open(d)
  BY <1>1, <1>3 DEF Open
<1>4. CASE OpenBackup(d)
  BY <1>2, <1>4 DEF OpenBackup
<1>5. CASE MkdirAll(d)
  BY <1>5 DEF MkdirAll, TypeOK
<1>6. CASE CopyBlock(d)
  BY <1>6 DEF CopyBlock
<1>7. CASE Close(d)
  BY <1>7 DEF Close, TypeOK
<1>8. CASE Remove(d)
  BY <1>8 DEF Remove, TypeOK
<1>9. CASE Crash(d)
  BY <1>9 DEF Crash, TypeOK
<1> QED BY <1>3, <1>4, <1>5, <1>6, <1>7, <1>8, <1>9 DEF Step

(***************************************************************************)
(* A step of a call adds a file under its own name, which was free, or     *)
(* writes into its own file, or removes it: no other file is touched.      *)
(***************************************************************************)
LEMMA FilesShape ==
  ASSUME TypeOK, OwnsFile, NEW d \in Calls, Step(d) \/ Crash(d)
  PROVE  \/ files' = files
         \/ /\ Name(d) \notin DOMAIN files
            /\ files' = WithNew(d)
            /\ pc'[d] = "copying" /\ Name(d)' = Name(d)
         \/ /\ pc[d] = "copying"
            /\ Name(d) \in DOMAIN files
            /\ DOMAIN files' = DOMAIN files
            /\ \A n \in DOMAIN files :
                 /\ files'[n].by = files[n].by
                 /\ n # Name(d) => files'[n] = files[n]
         \/ /\ pc[d] = "removing"
            /\ Name(d) \in DOMAIN files
            /\ files' = [n \in DOMAIN files \ {Name(d)} |-> files[n]]
<1>1. CASE OpenBackup(d)
  BY <1>1 DEF OpenBackup, Goto, TypeOK, Name
<1>2. CASE CopyBlock(d)
  <2>1. pc[d] = "copying" /\ Name(d) \in DOMAIN files
    BY <1>2 DEF CopyBlock, OwnsFile
  <2>2. PICK text : files' = [files EXCEPT ![Name(d)].text = text]
    BY <1>2 DEF CopyBlock
  <2>3. DOMAIN files' = DOMAIN files
    BY <2>2
  <2>4. \A n \in DOMAIN files : files[n] \in [by : Calls, text : Seq(Blocks)]
    BY DEF TypeOK
  <2>5. \A n \in DOMAIN files :
          /\ files'[n].by = files[n].by
          /\ n # Name(d) => files'[n] = files[n]
    BY <2>2, <2>4
  <2> QED BY <2>1, <2>3, <2>5
<1>3. CASE Remove(d)
  BY <1>3 DEF Remove, OwnsFile
<1>4. ASSUME Open(d) \/ MkdirAll(d) \/ Close(d) \/ Crash(d) PROVE files' = files
  BY <1>4 DEF Open, MkdirAll, Close, Crash
<1> QED BY <1>1, <1>2, <1>3, <1>4 DEF Step

(***************************************************************************)
(* The file of a call survives every step of the others as it is.          *)
(***************************************************************************)
LEMMA OthersKeepFile ==
  ASSUME TypeOK, OwnsFile, NEW d \in Calls, Step(d) \/ Crash(d),
         NEW c \in Calls, c # d, pc[c] \in HasFile
  PROVE  Name(c) \in DOMAIN files' /\ files'[Name(c)] = files[Name(c)]
<1>1. Name(c) \in DOMAIN files /\ files[Name(c)].by = c
  BY DEF OwnsFile, HasFile
<1>2. pc[d] \in {"copying", "removing"} => Name(d) # Name(c)
  BY <1>1 DEF OwnsFile
<1>3. CASE files' = WithNew(d) /\ Name(d) \notin DOMAIN files
  BY <1>1, <1>3 DEF WithNew
<1> QED BY <1>1, <1>2, <1>3, FilesShape

(***************************************************************************)
(* A call that has made a file goes on owning it, and the editor does not  *)
(* touch backups.                                                          *)
(***************************************************************************)
LEMMA OwnsStep == TypeOK /\ OwnsFile /\ [Next]_vars => OwnsFile'
<1> SUFFICES ASSUME TypeOK, OwnsFile, [Next]_vars,
                    NEW c \in Calls, pc'[c] \in HasFile
             PROVE  Name(c)' \in DOMAIN files' /\ files'[Name(c)'].by = c
  BY DEF OwnsFile, HasFile
<1> DEFINE Owns == Name(c)' \in DOMAIN files' /\ files'[Name(c)'].by = c
<1>1. ASSUME UNCHANGED callVars PROVE Owns
  BY <1>1 DEF callVars, OwnsFile, HasFile, Name
<1>2. ASSUME NEW d \in Calls, Step(d) \/ Crash(d), c # d PROVE Owns
  <2>1. pc[c] \in HasFile /\ Name(c)' = Name(c)
    BY <1>2, OthersStay
  <2> QED BY <1>2, <2>1, OthersKeepFile DEF OwnsFile, HasFile
<1>3. CASE OpenBackup(c)
  <2>1. \/ /\ Name(c) \notin DOMAIN files
           /\ files' = WithNew(c) /\ Name(c)' = Name(c)
        \/ pc' = pc \/ Goto(c, "failed")
    BY <1>3 DEF OpenBackup, Name
  <2>2. pc[c] = "naming"
    BY <1>3 DEF OpenBackup
  <2>3. files' = WithNew(c) /\ Name(c)' = Name(c)
    BY <2>1, <2>2 DEF Goto, HasFile, TypeOK
  <2> QED BY <2>3 DEF WithNew
<1>4. CASE CopyBlock(c)
  <2>1. Name(c)' = Name(c) /\ pc' = pc /\ pc[c] = "copying"
    BY <1>4 DEF CopyBlock, Name
  <2>2. Name(c) \in DOMAIN files /\ files[Name(c)].by = c
    BY <2>1 DEF OwnsFile
  <2>3. Step(c)
    BY <1>4 DEF Step
  <2>4. \/ files' = files
        \/ Name(c) \notin DOMAIN files
        \/ DOMAIN files' = DOMAIN files /\ \A n \in DOMAIN files : files'[n].by = files[n].by
    BY <2>1, <2>3, FilesShape
  <2> QED BY <2>1, <2>2, <2>4
<1>5. CASE Close(c)
  <2>1. Name(c)' = Name(c) /\ files' = files /\ pc[c] = "copying"
    BY <1>5 DEF Close, Name
  <2> QED BY <2>1 DEF OwnsFile
<1>6. ASSUME Open(c) \/ MkdirAll(c) \/ Remove(c) \/ Crash(c) PROVE pc'[c] \notin HasFile
  BY <1>6 DEF Open, MkdirAll, Remove, Crash, Goto, HasFile, TypeOK
<1>7. ASSUME Rename \/ Overwrite \/ UNCHANGED vars PROVE UNCHANGED callVars
  BY <1>7 DEF Rename, Overwrite, vars
<1> QED BY <1>1, <1>2, <1>3, <1>4, <1>5, <1>6, <1>7 DEF Next, Idle, Step

-----------------------------------------------------------------------------
(* The texts a call has seen, and what it has copied of them.              *)

(***************************************************************************)
(* The editor's writing into an open inode is seen by whoever has it open; *)
(* its renaming of a new inode over the path is not.                       *)
(***************************************************************************)
LEMMA SeesStep == TypeOK /\ SeesSource /\ [Next]_vars => SeesSource'
<1> SUFFICES ASSUME TypeOK, SeesSource, [Next]_vars, NEW c \in Calls, pc'[c] \in Holding
             PROVE  inodes'[source'[c]] \in seen'[c]
  BY DEF SeesSource
<1> DEFINE Sees == inodes'[source'[c]] \in seen'[c]
<1>1. CASE Rename
  <2>1. pc[c] \in Holding /\ source'[c] = source[c] /\ seen'[c] = seen[c]
    BY <1>1 DEF Rename, callVars
  <2>2. source[c] \in 1..Len(inodes)
    BY <2>1 DEF TypeOK
  <2>3. PICK t \in Texts : inodes' = Append(inodes, t)
    BY <1>1 DEF Rename
  <2>4. inodes'[source[c]] = inodes[source[c]]
    BY <2>2, <2>3 DEF TypeOK
  <2> QED BY <2>1, <2>4 DEF SeesSource
<1>2. CASE Overwrite
  <2>1. pc[c] \in Holding /\ source'[c] = source[c]
    BY <1>2 DEF Overwrite, callVars
  <2>2. PICK t \in Texts :
          /\ inodes' = [inodes EXCEPT ![registry] = t]
          /\ seen' = [d \in Calls |-> IF pc[d] \in Holding /\ source[d] = registry
                                     THEN seen[d] \cup {t} ELSE seen[d]]
    BY <1>2 DEF Overwrite
  <2>3. source[c] \in 1..Len(inodes) /\ inodes[source[c]] \in seen[c]
    BY <2>1 DEF TypeOK, SeesSource
  <2>4. CASE source[c] = registry
    BY <2>1, <2>2, <2>3, <2>4 DEF TypeOK
  <2>5. CASE source[c] # registry
    BY <2>1, <2>2, <2>3, <2>5 DEF TypeOK
  <2> QED BY <2>4, <2>5
<1>3. ASSUME NEW d \in Calls, Step(d) \/ Crash(d), c # d PROVE Sees
  BY <1>3, OthersStay DEF SeesSource
<1>4. CASE Open(c)
  <2>1. pc[c] = "idle" /\ inodes' = inodes
    BY <1>4 DEF Open, editVars
  <2>2. CASE /\ source' = [source EXCEPT ![c] = registry]
             /\ seen' = [seen EXCEPT ![c] = {inodes[registry]}]
    BY <2>1, <2>2 DEF TypeOK
  <2>3. CASE Goto(c, "failed")
    BY <2>3 DEF Goto, Holding, TypeOK
  <2> QED BY <1>4, <2>2, <2>3 DEF Open
<1>5. ASSUME pc[c] \in Holding, UNCHANGED <<inodes, source, seen>> PROVE Sees
  BY <1>5 DEF SeesSource
<1>6. ASSUME MkdirAll(c) \/ OpenBackup(c) \/ CopyBlock(c) \/ Close(c) \/ Remove(c) \/ Crash(c)
      PROVE  pc[c] \in Holding /\ UNCHANGED <<inodes, source, seen>>
  BY <1>6 DEF MkdirAll, OpenBackup, CopyBlock, Close, Remove, Crash, Holding, editVars
<1>7. ASSUME UNCHANGED vars PROVE Sees
  BY <1>7 DEF vars, editVars, callVars, SeesSource
<1> QED BY <1>1, <1>2, <1>3, <1>4, <1>5, <1>6, <1>7 DEF Next, Idle, Step

(***************************************************************************)
(* A call that has seen one text copies it block by block.                 *)
(***************************************************************************)
LEMMA PrefixStep ==
  TypeOK /\ OwnsFile /\ SeesSource /\ CopyIsPrefix /\ [Next]_vars => CopyIsPrefix'
<1> SUFFICES ASSUME TypeOK, OwnsFile, SeesSource, CopyIsPrefix, [Next]_vars,
                    NEW c \in Calls, pc'[c] = "copying", NEW t \in Texts, seen'[c] = {t}
             PROVE  IsPrefixOf(files'[Name(c)'].text, t)
  BY DEF CopyIsPrefix, IsPrefixOf
<1> DEFINE Prefix == IsPrefixOf(files'[Name(c)'].text, t)
<1>1. ASSUME pc[c] = "copying", UNCHANGED <<files, seen>>, Name(c)' = Name(c) PROVE Prefix
  BY <1>1 DEF CopyIsPrefix
<1>2. CASE Overwrite
  <2>1. pc[c] = "copying" /\ UNCHANGED files /\ Name(c)' = Name(c)
    BY <1>2 DEF Overwrite, callVars, Name
  <2>2. seen[c] \subseteq seen'[c]
    BY <1>2 DEF Overwrite
  <2>3. seen[c] # {}
    BY <2>1 DEF SeesSource, Holding
  <2>4. seen[c] = {t}
    BY <2>2, <2>3
  <2> QED BY <2>1, <2>4 DEF CopyIsPrefix
<1>3. ASSUME NEW d \in Calls, Step(d) \/ Crash(d), c # d PROVE Prefix
  <2>1. pc[c] = "copying" /\ seen'[c] = seen[c] /\ Name(c)' = Name(c)
    BY <1>3, OthersStay
  <2>2. files'[Name(c)] = files[Name(c)]
    BY <1>3, <2>1, OthersKeepFile DEF HasFile
  <2> QED BY <2>1, <2>2 DEF CopyIsPrefix
<1>4. CASE OpenBackup(c)
  <2>1. pc[c] = "naming"
    BY <1>4 DEF OpenBackup
  <2>2. files' = WithNew(c) /\ Name(c)' = Name(c)
    BY <1>4, <2>1 DEF OpenBackup, Goto, TypeOK, Name
  <2>3. files'[Name(c)].text = <<>>
    BY <2>2 DEF WithNew
  <2> QED BY <2>2, <2>3 DEF IsPrefixOf
<1>5. CASE CopyBlock(c)
  <2>1. pc[c] = "copying" /\ seen' = seen /\ Name(c)' = Name(c)
    BY <1>5 DEF CopyBlock, Name
  <2>2. Read(c) = t
    BY <2>1 DEF SeesSource, Holding, Read
  <2>3. Name(c) \in DOMAIN files /\ files[Name(c)] \in [by : Calls, text : Seq(Blocks)]
    BY <2>1 DEF OwnsFile, TypeOK
  <2>4. IsPrefixOf(Written(c), t) /\ Len(Written(c)) < Len(t)
    BY <1>5, <2>1, <2>2 DEF CopyBlock, CopyIsPrefix, Written
  <2>5. files'[Name(c)].text = Append(Written(c), t[Len(Written(c)) + 1])
    BY <1>5, <2>2, <2>3 DEF CopyBlock, Written
  <2>6. Written(c) \in Seq(Blocks) /\ t \in Seq(Blocks)
    BY <2>3 DEF Written
  <2> QED BY <2>1, <2>4, <2>5, <2>6, LongerPrefix
<1>6. ASSUME Open(c) \/ MkdirAll(c) \/ Close(c) \/ Remove(c) \/ Crash(c) PROVE FALSE
  BY <1>6 DEF Open, MkdirAll, Close, Remove, Crash, Goto, TypeOK
<1>7. ASSUME Rename \/ UNCHANGED vars PROVE Prefix
  BY <1>1, <1>7 DEF Rename, vars, callVars, Name
<1> QED BY <1>2, <1>3, <1>4, <1>5, <1>6, <1>7 DEF Next, Idle, Step

-----------------------------------------------------------------------------
(* The properties the run checks.                                          *)

(***************************************************************************)
(* A backup is left behind only by a call that has returned it, has died   *)
(* or could not remove it.                                                 *)
(***************************************************************************)
LEMMA ExplainedStep ==
  TypeOK /\ OwnsFile /\ PartialIsExplained /\ [Next]_vars => PartialIsExplained'
<1> DEFINE Left == {"copying", "removing", "done", "crashed", "leaked"}
<1> SUFFICES ASSUME TypeOK, OwnsFile, PartialIsExplained, [Next]_vars
             PROVE  PartialIsExplained'
  OBVIOUS
<1>0. \A n \in DOMAIN files' : files'[n].by \in Calls
  BY TypeStep DEF TypeOK
<1> SUFFICES ASSUME NEW c \in Calls, NEW m \in DOMAIN files', files'[m].by = c
             PROVE  m = Name(c)' /\ pc'[c] \in Left
  BY <1>0 DEF PartialIsExplained, Name
<1> DEFINE Explained == m = Name(c)' /\ pc'[c] \in Left
<1>1. ASSUME UNCHANGED callVars PROVE Explained
  BY <1>1 DEF callVars, PartialIsExplained, Name
<1>2. ASSUME NEW d \in Calls, Step(d) \/ Crash(d) PROVE Explained
  <2>1. \/ m \in DOMAIN files /\ files[m].by = c /\ (pc[d] = "removing" => files' = files \/ m # Name(d))
        \/ m = Name(d) /\ files' = WithNew(d) /\ pc'[d] = "copying" /\ Name(d)' = Name(d)
    <3>1. CASE files' = files
      BY <3>1
    <3>2. CASE files' = WithNew(d) /\ pc'[d] = "copying" /\ Name(d)' = Name(d)
      <4>1. ASSUME m # Name(d) PROVE m \in DOMAIN files /\ files'[m] = files[m]
        <5>1. m \in DOMAIN WithNew(d) /\ files'[m] = WithNew(d)[m]
          BY <3>2
        <5> QED BY <4>1, <5>1 DEF WithNew
      <4> QED BY <3>2, <4>1
    <3>3. CASE /\ pc[d] = "copying"
               /\ DOMAIN files' = DOMAIN files
               /\ \A k \in DOMAIN files : files'[k].by = files[k].by
      BY <3>3
    <3>4. CASE files' = [k \in DOMAIN files \ {Name(d)} |-> files[k]]
      BY <3>4
    <3> QED BY <1>2, <3>1, <3>2, <3>3, <3>4, FilesShape
  <2>2. CASE m = Name(d) /\ files' = WithNew(d) /\ pc'[d] = "copying" /\ Name(d)' = Name(d)
    <3>1. files'[m].by = d
      BY <2>2 DEF WithNew
    <3> QED BY <2>2, <3>1
  <2>3. CASE m \in DOMAIN files /\ files[m].by = c /\ (pc[d] = "removing" => files' = files \/ m # Name(d))
    <3>1. m = Name(c) /\ pc[c] \in Left
      BY <2>3 DEF PartialIsExplained
    <3>2. CASE c # d
      BY <1>2, <3>1, <3>2, OthersStay
    <3>3. CASE c = d
      <4>1. CASE CopyBlock(c) \/ Close(c) \/ Crash(c)
        BY <3>1, <4>1 DEF CopyBlock, Close, Crash, Goto, TypeOK, Name, Holding
      <4>2. CASE Remove(c)
        <5>1. pc[c] = "removing" /\ files' = files
          BY <2>3, <3>1, <3>3, <4>2 DEF Remove
        <5>2. Name(c)' = Name(c) /\ m \in DOMAIN files
          BY <2>3, <4>2 DEF Remove, Name
        <5>3. files' # [k \in DOMAIN files \ {Name(c)} |-> files[k]]
          BY <3>1, <5>1, <5>2
        <5> QED BY <3>1, <4>2, <5>2, <5>3 DEF Remove, Goto, TypeOK
      <4>3. ASSUME Open(c) \/ MkdirAll(c) \/ OpenBackup(c) PROVE FALSE
        BY <3>1, <4>3 DEF Open, MkdirAll, OpenBackup
      <4> QED BY <1>2, <3>3, <4>1, <4>2, <4>3 DEF Step
    <3> QED BY <3>2, <3>3
  <2> QED BY <2>1, <2>2, <2>3
<1>3. ASSUME Rename \/ Overwrite \/ UNCHANGED vars PROVE UNCHANGED callVars
  BY <1>3 DEF Rename, Overwrite, vars
<1> QED BY <1>1, <1>2, <1>3 DEF Next, Idle

(***************************************************************************)
(* A call that returns has copied the whole of the text it has seen, if it *)
(* has seen one.                                                           *)
(***************************************************************************)
LEMMA WholeStep ==
  IInv /\ [Next]_vars => ReturnedIsWhole'
<1> SUFFICES ASSUME IInv, [Next]_vars PROVE ReturnedIsWhole'
  OBVIOUS
<1>0. TypeOK /\ OwnsFile /\ SeesSource /\ CopyIsPrefix /\ ReturnedIsWhole /\ OwnsFile'
  BY OwnsStep DEF IInv
<1> SUFFICES ASSUME NEW c \in Calls, pc'[c] = "done", NEW t \in Texts, seen'[c] = {t}
             PROVE  files'[Name(c)'].text = t
  BY <1>0 DEF ReturnedIsWhole, OwnsFile, Name
<1> DEFINE Whole == files'[Name(c)'].text = t
<1>1. ASSUME UNCHANGED callVars, seen'[c] = seen[c] PROVE Whole
  BY <1>0, <1>1 DEF callVars, ReturnedIsWhole, Name
<1>2. ASSUME NEW d \in Calls, Step(d) \/ Crash(d), c # d PROVE Whole
  <2>1. pc[c] = "done" /\ seen'[c] = seen[c] /\ Name(c)' = Name(c)
    BY <1>0, <1>2, OthersStay
  <2>2. files'[Name(c)] = files[Name(c)]
    BY <1>0, <1>2, <2>1, OthersKeepFile DEF HasFile
  <2> QED BY <1>0, <2>1, <2>2 DEF ReturnedIsWhole
<1>3. CASE Close(c)
  <2>1. pc[c] = "copying" /\ UNCHANGED <<seen, files>> /\ Name(c)' = Name(c)
    BY <1>3 DEF Close, Name
  <2>2. Len(Written(c)) >= Len(Read(c))
    BY <1>0, <1>3, <2>1 DEF Close, Goto, TypeOK
  <2>3. Read(c) = t
    BY <1>0, <2>1 DEF SeesSource, Holding, Read
  <2>4. Name(c) \in DOMAIN files /\ files[Name(c)] \in [by : Calls, text : Seq(Blocks)]
    BY <1>0, <2>1 DEF OwnsFile, TypeOK
  <2>5. Written(c) \in Seq(Blocks) /\ t \in Seq(Blocks) /\ IsPrefixOf(Written(c), t)
    BY <1>0, <2>1, <2>4 DEF CopyIsPrefix, Written
  <2>6. Written(c) = t
    BY <2>2, <2>3, <2>5, FullPrefix
  <2> QED BY <2>1, <2>6 DEF Written
<1>4. ASSUME \/ Open(c) \/ MkdirAll(c) \/ OpenBackup(c) \/ CopyBlock(c) \/ Remove(c) \/ Crash(c)
      PROVE  FALSE
  BY <1>0, <1>4 DEF Open, MkdirAll, OpenBackup, CopyBlock, Remove, Crash, Goto, TypeOK
<1>5. ASSUME Rename \/ UNCHANGED vars PROVE Whole
  BY <1>1, <1>5 DEF Rename, vars
<1>6. CASE Overwrite
  <2>1. UNCHANGED callVars
    BY <1>6 DEF Overwrite
  <2>2. pc[c] \notin Holding
    BY <2>1 DEF callVars, Holding
  <2>3. seen'[c] = seen[c]
    BY <1>6, <2>2 DEF Overwrite
  <2> QED BY <1>1, <2>1, <2>3
<1> QED BY <1>2, <1>3, <1>4, <1>5, <1>6 DEF Next, Idle, Step

-----------------------------------------------------------------------------
(***************************************************************************)
(* The inductive invariant holds in every reachable state.                 *)
(***************************************************************************)
THEOREM Inductive == Spec => []IInv
<1>1. IInv /\ [Next]_vars => IInv'
  BY TypeStep, OwnsStep, SeesStep, PrefixStep, ExplainedStep, WholeStep DEF IInv
<1> QED BY InitInv, <1>1, PTL DEF Spec

(***************************************************************************)
(* Type correctness.                                                       *)
(***************************************************************************)
THEOREM TypeCorrect == Spec => []TypeOK
<1>1. IInv => TypeOK
  BY DEF IInv
<1> QED BY Inductive, <1>1, PTL

(***************************************************************************)
(* What BackupFile returns names a file of the call's own that is an exact *)
(* copy of the text it opened, unless that very inode was written into.    *)
(***************************************************************************)
THEOREM BackupIsExact == Spec => []ReturnedIsWhole
<1>1. IInv => ReturnedIsWhole
  BY DEF IInv
<1> QED BY Inductive, <1>1, PTL

(***************************************************************************)
(* A partial backup is left only by a crash or a failed removal.           *)
(***************************************************************************)
THEOREM NoStrayBackup == Spec => []PartialIsExplained
<1>1. IInv => PartialIsExplained
  BY DEF IInv
<1> QED BY Inductive, <1>1, PTL

(***************************************************************************)
(* No step of any call or of the editor touches a returned backup.         *)
(***************************************************************************)
THEOREM ReturnedStays == Spec => BackupsAreKept
<1> DEFINE Kept == \A c \in Calls :
                     pc[c] = "done" =>
                       Name(c)' \in DOMAIN files' /\ files'[Name(c)'] = files[Name(c)]
<1>1. IInv /\ [Next]_vars => Kept
  <2> SUFFICES ASSUME IInv, [Next]_vars, NEW c \in Calls, pc[c] = "done"
               PROVE  Name(c)' \in DOMAIN files' /\ files'[Name(c)'] = files[Name(c)]
    OBVIOUS
  <2>0. TypeOK /\ OwnsFile /\ Name(c) \in DOMAIN files
    BY DEF IInv, OwnsFile
  <2>1. ASSUME NEW d \in Calls, Step(d) \/ Crash(d), c # d
        PROVE  Name(c)' \in DOMAIN files' /\ files'[Name(c)'] = files[Name(c)]
    <3>1. Name(c)' = Name(c)
      BY <2>0, <2>1, OthersStay
    <3> QED BY <2>0, <2>1, <3>1, OthersKeepFile DEF HasFile
  <2>2. ~(Step(c) \/ Crash(c))
    BY DEF Step, Open, MkdirAll, OpenBackup, CopyBlock, Close, Remove, Crash, Holding
  <2>3. CASE Rename \/ Overwrite \/ UNCHANGED vars
    BY <2>0, <2>3 DEF Rename, Overwrite, vars, callVars, Name
  <2> QED BY <2>1, <2>2, <2>3 DEF Next, Idle
<1> QED BY Inductive, <1>1, PTL DEF Spec, BackupsAreKept
=============================================================================
