---------------------------- MODULE UserSideProofs -----------------------------
(***************************************************************************)
(* What a user meets, for every value of the constants: the archive that   *)
(* is uploaded is whole however often the directory is edited meanwhile;   *)
(* what the deploy command reports is so, for every number of runs with    *)
(* one request ID, whatever becomes of their requests and answers; and     *)
(* whoever uses an app is who signed in there, with the authority that its *)
(* owner gave away; the runtime log stays within its volume, and tells its *)
(* reader of every loss; and its redaction is exact.  The components share *)
(* no state, and each part has an invariant of its own.                    *)
(***************************************************************************)
EXTENDS SourcePackage, DeployClient, AppAccess, Diagnostics, Redactor, SumProofs

(***************************************************************************)
(* The packaging of the source directory.                                  *)
(***************************************************************************)

File == [stamp : Nat, contents : Nat, safe : BOOLEAN, excludes : SUBSET {"main"}]
Entry == [name : Names, file : File, half : Nat]
Local ==
  [rootInfo : Nat, before : Nat, rules : File, todo : SUBSET Names, name : Names,
   info : File, handle : File, half : Nat, archive : SUBSET Entry]

\* The steps before the rules are known, those before the directory is listed, the ones
\* that are about one file, and the ones that read it.
RuleSteps == {"open", "pin", "ignore", "open ignore", "read ignore", "check ignore"}
EarlySteps == RuleSteps \cup {"before", "list"}
EntrySteps == {"open entry", "copy", "check"}
FileSteps == {"open ignore", "read ignore", "check ignore"} \cup EntrySteps
ReadSteps == {"read ignore", "check ignore", "copy", "check"}
LateSteps == {"entry"} \cup EntrySteps \cup {"end", "packed"}
Steps == EarlySteps \cup LateSteps \cup {"rejected", "crashed"}

PackageTypes ==
  /\ files \in [Names -> File] /\ local \in Local
  /\ changed \in Nat /\ edits \in Nat /\ step \in Steps

\* A stamp that was seen is not used again, so that the file that bears it is the same.
Stamps ==
  /\ changed <= edits /\ local.rootInfo <= changed /\ local.before <= changed
  /\ local.info.stamp <= edits /\ local.rules.stamp <= edits
  /\ \A n \in Names : files[n].stamp <= edits /\ (files[n].stamp = 0 => files[n] = NoFile)
  /\ files[Ignore].stamp = local.rules.stamp => files[Ignore] = local.rules
  /\ local.rules.stamp = 0 => local.rules = NoFile

\* What was looked at, opened and read is one file if the stamps say so.
Looked ==
  step \in FileSteps =>
    /\ local.info.safe /\ local.info.stamp > 0
    /\ files[local.name].stamp = local.info.stamp => files[local.name] = local.info

Reading ==
  /\ step \in ReadSteps /\ local.handle.stamp = local.info.stamp => local.handle = local.info
  /\ step \in {"check ignore", "check"} /\ local.handle.stamp = local.info.stamp
       => local.half = local.info.contents

\* The rules are those of a .dockerignore that is there until the directory changes.
Ruled ==
  /\ step \in RuleSteps => local.name = Ignore /\ local.rules = NoFile
  /\ local.rules # NoFile \/ step \in RuleSteps \cap FileSteps =>
       (changed = local.rootInfo => files[Ignore] # NoFile)

Wanted(name) == name \notin Mandatory /\ ~Excluded(name, local.rules)

\* The file in hand is wanted, and a .dockerignore is the one whose rules apply.
InHand ==
  step \in EntrySteps =>
    /\ Wanted(local.name)
    /\ local.name = Ignore /\ local.info.stamp = local.rules.stamp => local.info = local.rules
    /\ step # "open entry" => SameIgnore

Archived ==
  /\ step \in EarlySteps => local.archive = {}
  /\ \A entry \in local.archive :
       /\ entry.file.safe /\ entry.half = entry.file.contents
       /\ Wanted(entry.name)
       /\ entry.name = Ignore => entry.file = local.rules

\* Unless the directory changes, its names are those to do, the archived and the unwanted.
Listed ==
  /\ step \in {"list"} \cup LateSteps => local.rootInfo <= local.before
  /\ step \in LateSteps =>
       /\ changed = local.before =>
            \A n \in Names :
              /\ n \in local.todo \cup Included => files[n] # NoFile
              /\ files[n] # NoFile /\ Wanted(n) => n \in local.todo \cup Included
       /\ step \in {"end", "packed"} => local.todo = {}
       /\ step = "packed" => changed = local.rootInfo

PackageInv ==
  /\ PackageTypes /\ Stamps
  /\ Looked /\ Reading /\ Ruled /\ InHand /\ Archived /\ Listed

USE DEF RuleSteps, EarlySteps, EntrySteps, FileSteps, ReadSteps, LateSteps, Steps

-----------------------------------------------------------------------------

LEMMA FilesAreTyped ==
  ASSUME NEW name \in Names, NEW stamp \in Nat, NEW file \in Files(name, stamp)
  PROVE  file \in File /\ file.stamp = stamp
BY DEF Files, File

LEMMA NoFileIsTyped == NoFile \in File /\ NoFile.stamp = 0 /\ NoFile.safe = FALSE
BY DEF NoFile, File

LEMMA PackageInitially == PackageInit => PackageInv
<1> SUFFICES ASSUME PackageInit
             PROVE  PackageInv
  OBVIOUS
<1>1. PICK ignore \in {NoFile} \cup {f \in Files(Ignore, 1) : f.safe} :
        files = [n \in Names |-> IF n = Ignore THEN ignore
                                 ELSE CHOOSE f \in Files(n, 1) : f.safe]
  BY DEF PackageInit
<1>2. ASSUME NEW n \in Names, n # Ignore
      PROVE  files[n] \in File /\ files[n].stamp = 1
  <2>1. [stamp |-> 1, contents |-> 1, safe |-> TRUE, excludes |-> {}] \in Files(n, 1)
    BY <1>2 DEF Files
  <2>2. \E f \in Files(n, 1) : f.safe
    BY <2>1
  <2>3. files[n] = CHOOSE f \in Files(n, 1) : f.safe
    BY <1>1, <1>2
  <2>4. files[n] \in Files(n, 1)
    BY <2>2, <2>3
  <2> QED
    BY <2>4, FilesAreTyped
<1>3. files[Ignore] \in File /\ (files[Ignore] = NoFile \/ files[Ignore].stamp = 1)
  <2>1. Ignore \in Names
    BY DEF Names
  <2>2. files[Ignore] = NoFile \/ files[Ignore] \in Files(Ignore, 1)
    BY <1>1, <2>1
  <2> QED
    BY <2>1, <2>2, FilesAreTyped, NoFileIsTyped
<1>4. files \in [Names -> File]
      /\ \A n \in Names : files[n] = NoFile \/ files[n].stamp = 1
  BY <1>1, <1>2, <1>3
<1>5. /\ changed = 1 /\ edits = 1 /\ step = "open"
      /\ local.rootInfo = 0 /\ local.before = 0 /\ local.rules = NoFile /\ local.name = Ignore
      /\ local.info = NoFile /\ local.archive = {}
  BY DEF PackageInit
<1>6. local \in Local
  BY NoFileIsTyped DEF PackageInit, Local, Names, Entry
<1>7. PackageTypes
  BY <1>4, <1>5, <1>6 DEF PackageTypes
<1>8. Stamps
  BY <1>4, <1>5, NoFileIsTyped DEF Stamps, Names
<1> QED
  BY <1>5, <1>7, <1>8 DEF PackageInv, Looked, Reading, Ruled, InHand, Archived, Listed

LEMMA SeenIsPositive == \A stamp \in Nat : stamp # 0 => stamp > 0
OBVIOUS

\* A stamp that was seen is not the next one.
LEMMA NextIsNew ==
  \A old, now, next, stamp \in Nat :
    0 < old /\ old <= now /\ now < next /\ stamp \in {0, next} => stamp # old
OBVIOUS

(***************************************************************************)
(* The editor                                                              *)
(***************************************************************************)

\* An edit changes one file, to a new stamp, and of the packager's variables at most the
\* handle, to a stamp that it has not looked at.
LEMMA EditPreserves ==
  ASSUME PackageInv, NEW name \in Names, NEW file \in File, edits' = edits + 1,
         file.stamp = edits' \/ file = NoFile,
         files' = [files EXCEPT ![name] = file],
         step' = step, step \notin {"packed", "rejected", "crashed"},
         changed' = edits' \/ (changed' = changed /\ files[name] # NoFile /\ file # NoFile),
         NEW handle \in File, local' = [local EXCEPT !.handle = handle],
         handle = local.handle \/ handle.stamp \in {0, edits'}
  PROVE  PackageInv'
<1>1. PackageTypes /\ Stamps /\ Looked /\ Reading /\ Ruled /\ InHand /\ Archived /\ Listed
  BY DEF PackageInv
<1>2. local' \in Local
  BY <1>1 DEF PackageTypes, Local
<1>3. /\ local'.rootInfo = local.rootInfo /\ local'.before = local.before
      /\ local'.rules = local.rules /\ local'.todo = local.todo /\ local'.name = local.name
      /\ local'.info = local.info /\ local'.half = local.half /\ local'.archive = local.archive
      /\ local'.handle = handle
  BY <1>1 DEF PackageTypes, Local
<1>4. /\ edits \in Nat /\ changed \in Nat /\ local.info.stamp \in Nat /\ local.rules.stamp \in Nat
      /\ local.rootInfo \in Nat /\ local.before \in Nat /\ local.name \in Names
      /\ \A n \in Names : files[n].stamp \in Nat
      /\ edits' \in Nat /\ edits < edits' /\ 0 < edits'
  <2>1. local.info \in File /\ local.rules \in File /\ \A n \in Names : files[n] \in File
    BY <1>1 DEF PackageTypes, Local
  <2>2. edits \in Nat /\ changed \in Nat /\ local.rootInfo \in Nat /\ local.before \in Nat
        /\ local.name \in Names
    BY <1>1 DEF PackageTypes, Local
  <2>3. edits' \in Nat /\ edits < edits' /\ 0 < edits'
    BY <2>2
  <2> QED
    BY <2>1, <2>2, <2>3 DEF File
<1>5. files' \in [Names -> File] /\ files'[name] = file
      /\ \A n \in Names : n # name => files'[n] = files[n]
  BY <1>1 DEF PackageTypes
<1>6. PackageTypes'
  <2>1. changed' \in Nat /\ edits' \in Nat /\ step' \in Steps
    BY <1>1, <1>4 DEF PackageTypes
  <2> QED
    BY <1>2, <1>5, <2>1 DEF PackageTypes
<1>7. file.stamp = 0 => file = NoFile
  BY <1>4
<1>8. Ignore \in Names
  BY DEF Names
<1>9. Stamps'
  <2>1. \A n \in Names : files'[n].stamp <= edits' /\ (files'[n].stamp = 0 => files'[n] = NoFile)
    BY <1>1, <1>4, <1>5, <1>7, NoFileIsTyped DEF Stamps
  <2>2. files'[Ignore].stamp = local'.rules.stamp => files'[Ignore] = local'.rules
    <3>1. /\ local.rules.stamp <= edits /\ (local.rules.stamp = 0 => local.rules = NoFile)
          /\ files[Ignore].stamp = local.rules.stamp => files[Ignore] = local.rules
      BY <1>1 DEF Stamps
    <3>2. CASE name # Ignore
      BY <1>3, <1>5, <1>8, <3>1, <3>2
    <3>3. CASE name = Ignore /\ file.stamp = edits'
      BY <1>3, <1>4, <1>5, <3>1, <3>3
    <3>4. CASE name = Ignore /\ file = NoFile
      BY <1>3, <1>5, <3>1, <3>4, NoFileIsTyped
    <3> QED
      BY <3>2, <3>3, <3>4
  <2> QED
    BY <1>1, <1>3, <1>4, <2>1, <2>2 DEF Stamps
<1>10. Looked'
  <2>1. CASE local.name = name
    <3>1. step \in FileSteps => local.info.safe /\ local.info.stamp > 0 /\ local.info.stamp <= edits
      BY <1>1 DEF Looked, Stamps
    <3>2. step \in FileSteps => file.stamp # local.info.stamp
      <4>1. file.stamp \in Nat /\ file.stamp \in {0, edits'}
        BY <1>4, NoFileIsTyped DEF File
      <4> QED
        BY <1>4, <3>1, <4>1, NextIsNew
    <3> QED
      BY <1>3, <1>5, <2>1, <3>1, <3>2 DEF Looked
  <2>2. CASE local.name # name
    BY <1>1, <1>3, <1>4, <1>5, <2>2 DEF Looked
  <2> QED
    BY <2>1, <2>2
<1>11. Reading'
  <2>1. CASE handle = local.handle
    BY <1>1, <1>3, <2>1 DEF Reading
  <2>2. CASE handle.stamp \in {0, edits'}
    <3>1. step \in ReadSteps => handle.stamp # local.info.stamp
      <4>1. step \in ReadSteps => local.info.stamp > 0 /\ local.info.stamp <= edits
        BY <1>1 DEF Looked, Stamps
      <4>2. handle.stamp \in Nat
        BY DEF File
      <4> QED
        BY <1>4, <2>2, <4>1, <4>2, NextIsNew
    <3> QED
      BY <1>3, <3>1 DEF Reading
  <2> QED
    BY <2>1, <2>2
<1>12. Ruled'
  <2>1. CASE changed' = edits'
    <3>1. changed' # local'.rootInfo
      BY <1>1, <1>3, <1>4, <2>1 DEF Stamps
    <3> QED
      BY <1>1, <1>3, <3>1 DEF Ruled
  <2>2. CASE changed' = changed /\ files[name] # NoFile /\ file # NoFile
    BY <1>1, <1>3, <1>5, <1>8, <2>2 DEF Ruled
  <2> QED
    BY <2>1, <2>2
<1>13. InHand'
  BY <1>1, <1>3 DEF InHand, Wanted, Excluded, SameIgnore
<1>14. Archived'
  BY <1>1, <1>3 DEF Archived, Wanted, Excluded
<1>15. Listed'
  <2>1. Included' = Included /\ \A n \in Names : Wanted(n)' <=> Wanted(n)
    BY <1>3 DEF Included, Wanted, Excluded
  <2>2. CASE changed' = edits'
    <3>1. changed' # local'.before
      BY <1>1, <1>3, <1>4, <2>2 DEF Stamps
    <3> QED
      BY <1>1, <1>3, <3>1 DEF Listed
  <2>3. CASE changed' = changed /\ files[name] # NoFile /\ file # NoFile
    <3>1. \A n \in Names : files'[n] # NoFile <=> files[n] # NoFile
      BY <1>5, <2>3
    <3> QED
      BY <1>1, <1>3, <2>1, <2>3, <3>1 DEF Listed
  <2> QED
    BY <2>2, <2>3
<1> QED
  BY <1>6, <1>9, <1>10, <1>11, <1>12, <1>13, <1>14, <1>15 DEF PackageInv

LEMMA WritePreserves ==
  ASSUME PackageInv, NEW name \in Names, Write(name)
  PROVE  PackageInv'
<1>1. PackageTypes /\ edits' = edits + 1 /\ edits' \in Nat
  <2>1. PackageTypes /\ edits \in Nat
    BY DEF PackageInv, PackageTypes
  <2>2. edits' = edits + 1
    BY DEF Write
  <2> QED
    BY <2>1, <2>2
<1>2. PICK file \in Files(name, edits') :
        /\ files[name].safe /\ file.safe
        /\ files' = [files EXCEPT ![name] = file]
        /\ local' = IF IsOpen(name) THEN [local EXCEPT !.handle = file] ELSE local
  BY DEF Write
<1>3. /\ step' = step /\ changed' = changed
      /\ step \notin {"packed", "rejected", "crashed"}
  BY DEF Write, Editing
<1>4. file \in File /\ file.stamp = edits'
  BY <1>1, <1>2, FilesAreTyped
<1>5. files[name] # NoFile /\ file # NoFile
  BY <1>2, NoFileIsTyped
<1>6. CASE IsOpen(name)
  BY <1>1, <1>2, <1>3, <1>4, <1>5, <1>6, EditPreserves
<1>7. CASE ~IsOpen(name)
  <2>1. local' = [local EXCEPT !.handle = local.handle] /\ local.handle \in File
    BY <1>1, <1>2, <1>7 DEF PackageTypes, Local
  <2> QED
    BY <1>1, <1>2, <1>3, <1>4, <1>5, <2>1, EditPreserves
<1> QED
  BY <1>6, <1>7

LEMMA ReplacePreserves ==
  ASSUME PackageInv, NEW name \in Names, Replace(name)
  PROVE  PackageInv'
<1>1. PackageTypes /\ edits' = edits + 1 /\ edits' \in Nat
  <2>1. PackageTypes /\ edits \in Nat
    BY DEF PackageInv, PackageTypes
  <2>2. edits' = edits + 1
    BY DEF Replace
  <2> QED
    BY <2>1, <2>2
<1>2. PICK file \in Files(name, edits') \cup {NoFile} :
        files' = [files EXCEPT ![name] = file]
  BY DEF Replace
<1>3. /\ local' = IF IsOpen(name) THEN [local EXCEPT !.handle.stamp = 0] ELSE local
      /\ step' = step /\ changed' = edits'
      /\ step \notin {"packed", "rejected", "crashed"}
  BY DEF Replace, Editing
<1>4. file \in File /\ (file.stamp = edits' \/ file = NoFile)
  BY <1>1, <1>2, FilesAreTyped, NoFileIsTyped
<1>5. CASE IsOpen(name)
  <2> DEFINE handle == [local.handle EXCEPT !.stamp = 0]
  <2>1. local.handle \in File
    BY <1>1 DEF PackageTypes, Local
  <2>2. handle \in File /\ handle.stamp = 0
    BY <2>1 DEF File
  <2>3. local' = [local EXCEPT !.handle = handle]
    BY <1>3, <1>5
  <2> HIDE DEF handle
  <2> QED
    BY <1>1, <1>2, <1>3, <1>4, <2>2, <2>3, EditPreserves
<1>6. CASE ~IsOpen(name)
  <2>1. local' = [local EXCEPT !.handle = local.handle] /\ local.handle \in File
    BY <1>1, <1>3, <1>6 DEF PackageTypes, Local
  <2> QED
    BY <1>1, <1>2, <1>3, <1>4, <2>1, EditPreserves
<1> QED
  BY <1>5, <1>6

(***************************************************************************)
(* The packager                                                            *)
(***************************************************************************)

\* The packaging ends without an archive.
LEMMA AbortPreserves ==
  ASSUME PackageInv, UNCHANGED <<files, changed, edits, local>>,
         step' \in {"rejected", "crashed"}
  PROVE  PackageInv'
<1>1. PackageTypes /\ Stamps /\ Looked /\ Reading /\ Ruled /\ InHand /\ Archived /\ Listed
  BY DEF PackageInv
<1>2. PackageTypes' /\ Stamps'
  BY <1>1 DEF PackageTypes, Stamps
<1>3. Looked' /\ Reading' /\ InHand' /\ Listed'
  BY DEF Looked, Reading, InHand, Listed
<1>4. Ruled' /\ Archived'
  BY <1>1 DEF Ruled, Archived, Wanted, Excluded
<1> QED
  BY <1>2, <1>3, <1>4 DEF PackageInv

\* What one step of the packager looks at, it leaves alone.
Looks == UNCHANGED <<files, changed, edits>>

LEMMA OpenRootPreserves ==
  ASSUME PackageInv, OpenRoot
  PROVE  PackageInv'
<1>1. PackageTypes /\ Stamps /\ Ruled /\ Archived
  BY DEF PackageInv
<1>2. /\ Looks /\ step = "open" /\ step' = "pin"
      /\ local' = [local EXCEPT !.rootInfo = changed]
  BY DEF OpenRoot, Go, Looks
<1>3. PackageTypes' /\ local'.rootInfo = changed
      /\ local'.before = local.before /\ local'.rules = local.rules
      /\ local'.name = local.name /\ local'.info = local.info /\ local'.archive = local.archive
  BY <1>1, <1>2 DEF PackageTypes, Local, Looks
<1>4. Stamps'
  BY <1>1, <1>2, <1>3 DEF Stamps, Looks, PackageTypes
<1>5. Looked' /\ Reading' /\ InHand' /\ Listed'
  BY <1>2 DEF Looked, Reading, InHand, Listed
<1>6. Ruled' /\ Archived'
  BY <1>1, <1>2, <1>3 DEF Ruled, Archived
<1> QED
  BY <1>3, <1>4, <1>5, <1>6 DEF PackageInv

\* A check that holds, or a .dockerignore that is not there.
LEMMA GoOnPreserves ==
  ASSUME PackageInv, Looks, local' = local,
         \/ step = "pin" /\ step' = "ignore"
         \/ step = "ignore" /\ step' = "before"
         \/ step = "entry" /\ step' = "end" /\ local.todo = {}
         \/ step = "end" /\ step' = "packed" /\ changed = local.rootInfo
  PROVE  PackageInv'
<1>1. PackageTypes /\ Stamps /\ Ruled /\ Archived /\ Listed
  BY DEF PackageInv
<1>2. PackageTypes' /\ Stamps'
  BY <1>1 DEF PackageTypes, Stamps, Looks
<1>3. Looked' /\ Reading' /\ InHand'
  BY DEF Looked, Reading, InHand
<1>4. Ruled'
  BY <1>1 DEF Ruled, Looks
<1>5. Archived'
  BY <1>1 DEF Archived, Wanted, Excluded
<1>6. Listed'
  BY <1>1 DEF Listed, Included, Wanted, Excluded, Looks
<1> QED
  BY <1>2, <1>3, <1>4, <1>5, <1>6 DEF PackageInv

LEMMA CheckPreserves ==
  ASSUME PackageInv, CheckPin \/ CheckDirectory \/ FinishPackage
  PROVE  PackageInv'
<1>1. Looks /\ local' = local
  BY DEF CheckPin, CheckDirectory, FinishPackage, Require, Continue, Go, Looks
<1>2. \/ step' = "rejected"
      \/ step = "pin" /\ step' = "ignore"
      \/ step = "entry" /\ step' = "end" /\ local.todo = {}
      \/ step = "end" /\ step' = "packed" /\ changed = local.rootInfo
  BY DEF CheckPin, CheckDirectory, FinishPackage, Require, Continue, Go
<1> QED
  BY <1>1, <1>2, GoOnPreserves, AbortPreserves DEF Looks

LEMMA StatIgnorePreserves ==
  ASSUME PackageInv, StatIgnore
  PROVE  PackageInv'
<1>1. PackageTypes /\ Stamps /\ Ruled /\ Archived
  BY DEF PackageInv
<1>2. step = "ignore" /\ Looks
  BY DEF StatIgnore, Continue, Go, Looks
<1>3. CASE local' = local /\ step' \in {"before", "rejected"}
  BY <1>2, <1>3, GoOnPreserves, AbortPreserves DEF Looks
<1>4. CASE /\ files[Ignore].safe /\ step' = "open ignore"
           /\ local' = [local EXCEPT !.info = files[Ignore]]
  <2>1. files[Ignore] \in File /\ files[Ignore] # NoFile
    BY <1>1, <1>4, NoFileIsTyped DEF PackageTypes, Names
  <2>2. PackageTypes' /\ local'.info = files[Ignore] /\ local'.rootInfo = local.rootInfo
        /\ local'.before = local.before /\ local'.rules = local.rules
        /\ local'.name = local.name /\ local'.archive = local.archive
    BY <1>1, <1>2, <1>4, <2>1 DEF PackageTypes, Local, Looks
  <2>3. files[Ignore].stamp \in Nat /\ files[Ignore].stamp # 0 /\ files[Ignore].stamp <= edits
        /\ files[Ignore].stamp > 0
    BY <1>1, <2>1 DEF Stamps, File, Names
  <2>4. Stamps'
    BY <1>1, <1>2, <2>2, <2>3 DEF Stamps, Looks
  <2>5. Ruled'
    BY <1>1, <1>2, <1>4, <2>1, <2>2 DEF Ruled, Looks
  <2>6. Looked'
    BY <1>2, <1>4, <2>2, <2>3, <2>5 DEF Looked, Looks, Ruled
  <2>7. Reading' /\ InHand' /\ Listed'
    BY <1>4 DEF Reading, InHand, Listed
  <2>8. Archived'
    BY <1>1, <1>2, <1>4, <2>2 DEF Archived
  <2> QED
    BY <2>2, <2>4, <2>5, <2>6, <2>7, <2>8 DEF PackageInv
<1> QED
  BY <1>3, <1>4 DEF StatIgnore, Continue, Go

\* A file is opened, and is the one that was looked at.
LEMMA OpenPreserves ==
  ASSUME PackageInv, Looks, local' = [local EXCEPT !.handle = local.info],
         \/ step = "open ignore" /\ step' = "read ignore"
         \/ step = "open entry" /\ step' = "copy" /\ SameIgnore
  PROVE  PackageInv'
<1>1. PackageTypes /\ Stamps /\ Looked /\ Ruled /\ InHand /\ Archived /\ Listed
  BY DEF PackageInv
<1>2. PackageTypes' /\ local'.handle = local.info /\ local'.info = local.info
      /\ local'.rootInfo = local.rootInfo /\ local'.before = local.before
      /\ local'.rules = local.rules /\ local'.todo = local.todo
      /\ local'.name = local.name /\ local'.archive = local.archive
  BY <1>1 DEF PackageTypes, Local, Looks
<1>3. Stamps'
  BY <1>1, <1>2 DEF Stamps, Looks
<1>4. Looked'
  BY <1>1, <1>2 DEF Looked, Looks
<1>5. Reading'
  BY <1>2 DEF Reading
<1>6. Ruled'
  BY <1>1, <1>2 DEF Ruled, Looks
<1>7. InHand'
  BY <1>1, <1>2 DEF InHand, Wanted, Excluded, SameIgnore
<1>8. Archived'
  BY <1>1, <1>2 DEF Archived, Wanted, Excluded
<1>9. Listed'
  BY <1>1, <1>2 DEF Listed, Included, Wanted, Excluded, Looks
<1> QED
  BY <1>2, <1>3, <1>4, <1>5, <1>6, <1>7, <1>8, <1>9 DEF PackageInv

LEMMA OpenIgnorePreserves ==
  ASSUME PackageInv, OpenIgnore
  PROVE  PackageInv'
BY OpenPreserves, AbortPreserves DEF OpenIgnore, Continue, Go, Looks

LEMMA OpenEntryPreserves ==
  ASSUME PackageInv, OpenEntry
  PROVE  PackageInv'
<1>1. Looks /\ step = "open entry"
  BY DEF OpenEntry, Continue, Go, Looks
<1>2. \/ local' = local /\ step' \in {"rejected", "crashed"}
      \/ SameIgnore /\ step' = "copy" /\ local' = [local EXCEPT !.handle = local.info]
  BY DEF OpenEntry, Continue, Go
<1> QED
  BY <1>1, <1>2, OpenPreserves, AbortPreserves DEF Looks

\* Half of a file is read.
LEMMA ReadPreserves ==
  ASSUME PackageInv, ReadIgnore \/ Copy
  PROVE  PackageInv'
<1>1. PackageTypes /\ Stamps /\ Looked /\ Reading /\ Ruled /\ InHand /\ Archived /\ Listed
  BY DEF PackageInv
<1>2. /\ Looks /\ local' = [local EXCEPT !.half = local.handle.contents]
      /\ \/ step = "read ignore" /\ step' = "check ignore"
         \/ step = "copy" /\ step' = "check"
  BY DEF ReadIgnore, Copy, ReadHalf, Go, Looks
<1>3. local.handle \in File
  BY <1>1 DEF PackageTypes, Local
<1>4. PackageTypes' /\ local'.half = local.handle.contents /\ local'.handle = local.handle
      /\ local'.info = local.info
      /\ local'.rootInfo = local.rootInfo /\ local'.before = local.before
      /\ local'.rules = local.rules /\ local'.todo = local.todo
      /\ local'.name = local.name /\ local'.archive = local.archive
  BY <1>1, <1>2, <1>3 DEF PackageTypes, Local, Looks, File
<1>5. Stamps'
  BY <1>1, <1>2, <1>4 DEF Stamps, Looks
<1>6. Looked'
  BY <1>1, <1>2, <1>4 DEF Looked, Looks
<1>7. Reading'
  BY <1>1, <1>2, <1>4 DEF Reading
<1>8. Ruled'
  BY <1>1, <1>2, <1>4 DEF Ruled, Looks
<1>9. InHand'
  BY <1>1, <1>2, <1>4 DEF InHand, Wanted, Excluded, SameIgnore
<1>10. Archived'
  BY <1>1, <1>2, <1>4 DEF Archived, Wanted, Excluded
<1>11. Listed'
  BY <1>1, <1>2, <1>4 DEF Listed, Included, Wanted, Excluded, Looks
<1> QED
  BY <1>4, <1>5, <1>6, <1>7, <1>8, <1>9, <1>10, <1>11 DEF PackageInv

LEMMA CheckIgnorePreserves ==
  ASSUME PackageInv, CheckIgnore
  PROVE  PackageInv'
<1>1. PackageTypes /\ Stamps /\ Looked /\ Reading /\ Ruled /\ Archived
  BY DEF PackageInv
<1>2. step = "check ignore" /\ Looks
  BY DEF CheckIgnore, Continue, Go, Looks
<1>3. CASE local' = local /\ step' = "rejected"
  BY <1>2, <1>3, AbortPreserves DEF Looks
<1>4. CASE /\ HandleUnchanged /\ step' = "before"
           /\ local' = [local EXCEPT !.rules = local.handle, !.handle = NoFile]
  <2>1. local.handle = local.info /\ local.name = Ignore
    BY <1>1, <1>2, <1>4 DEF HandleUnchanged, Reading, Ruled
  <2>2. PackageTypes' /\ local'.rules = local.info /\ local'.info = local.info
        /\ local'.rootInfo = local.rootInfo /\ local'.before = local.before
        /\ local'.name = local.name /\ local'.archive = local.archive
    BY <1>1, <1>2, <1>4, <2>1, NoFileIsTyped DEF PackageTypes, Local, Looks
  <2>3. /\ local.info.stamp > 0 /\ local.info.stamp <= edits
        /\ files[Ignore].stamp = local.info.stamp => files[Ignore] = local.info
    BY <1>1, <1>2, <2>1 DEF Looked, Stamps
  <2> local.info.stamp \in Nat /\ local.info.stamp # 0
    <3>1. local.info \in File
      BY <1>1 DEF PackageTypes, Local
    <3>2. local.info.stamp \in Nat
      BY <3>1 DEF File
    <3> QED
      BY <2>3, <3>2
  <2>4. Stamps'
    BY <1>1, <1>2, <2>2, <2>3 DEF Stamps, Looks
  <2>5. Looked' /\ Reading' /\ InHand' /\ Listed'
    BY <1>4 DEF Looked, Reading, InHand, Listed
  <2>6. Ruled'
    BY <1>1, <1>2, <1>4, <2>2 DEF Ruled, Looks
  <2>7. Archived'
    BY <1>1, <1>2, <1>4, <2>2 DEF Archived
  <2> QED
    BY <2>2, <2>4, <2>5, <2>6, <2>7 DEF PackageInv
<1> QED
  BY <1>3, <1>4 DEF CheckIgnore, Continue, Go

LEMMA StatDirectoryPreserves ==
  ASSUME PackageInv, StatDirectory
  PROVE  PackageInv'
<1>1. PackageTypes /\ Stamps /\ Ruled /\ Archived
  BY DEF PackageInv
<1>2. /\ Looks /\ step = "before" /\ step' = "list"
      /\ local' = [local EXCEPT !.before = changed]
  BY DEF StatDirectory, Go, Looks
<1>3. PackageTypes' /\ local'.before = changed /\ local'.rootInfo = local.rootInfo
      /\ local'.rules = local.rules /\ local'.info = local.info
      /\ local'.archive = local.archive
  BY <1>1, <1>2 DEF PackageTypes, Local, Looks
<1>4. Stamps'
  BY <1>1, <1>2, <1>3 DEF Stamps, Looks, PackageTypes
<1>5. Looked' /\ Reading' /\ InHand'
  BY <1>2 DEF Looked, Reading, InHand
<1>6. Ruled' /\ Archived' /\ Listed'
  BY <1>1, <1>2, <1>3 DEF Ruled, Archived, Listed, Looks, Stamps
<1> QED
  BY <1>3, <1>4, <1>5, <1>6 DEF PackageInv

LEMMA ListDirectoryPreserves ==
  ASSUME PackageInv, ListDirectory
  PROVE  PackageInv'
<1>1. PackageTypes /\ Stamps /\ Ruled /\ Archived /\ Listed
  BY DEF PackageInv
<1> DEFINE present == {n \in Names : files[n] # NoFile}
<1>2. /\ Looks /\ step = "list" /\ step' = "entry"
      /\ local' = [local EXCEPT !.todo = present]
  BY DEF ListDirectory, Go, Looks
<1>3. PackageTypes' /\ local'.todo = present /\ local'.before = local.before
      /\ local'.rootInfo = local.rootInfo /\ local'.rules = local.rules
      /\ local'.info = local.info /\ local'.archive = local.archive
  BY <1>1, <1>2 DEF PackageTypes, Local, Looks
<1>4. Stamps'
  BY <1>1, <1>2, <1>3 DEF Stamps, Looks
<1>5. Looked' /\ Reading' /\ InHand'
  BY <1>2 DEF Looked, Reading, InHand
<1>6. Ruled' /\ Archived'
  BY <1>1, <1>2, <1>3 DEF Ruled, Archived, Looks
<1>7. Listed'
  <2>1. Included' = {}
    BY <1>1, <1>2, <1>3 DEF Archived, Included
  <2> QED
    BY <1>1, <1>2, <1>3, <2>1 DEF Listed, Looks
<1> QED
  BY <1>3, <1>4, <1>5, <1>6, <1>7 DEF PackageInv

\* The next name is not wanted.
LEMMA SkipPreserves ==
  ASSUME PackageInv, NEW name \in Names, step = "entry", Skip(name), ~Wanted(name)
  PROVE  PackageInv'
<1>1. PackageTypes /\ Stamps /\ Ruled /\ Archived /\ Listed
  BY DEF PackageInv
<1>2. Looks /\ step' = "entry" /\ local' = [local EXCEPT !.todo = local.todo \ {name}]
  BY DEF Skip, Go, Looks
<1>3. PackageTypes' /\ local'.todo = local.todo \ {name} /\ local'.before = local.before
      /\ local'.rootInfo = local.rootInfo /\ local'.rules = local.rules
      /\ local'.info = local.info /\ local'.archive = local.archive
  BY <1>1, <1>2 DEF PackageTypes, Local, Looks
<1>4. Stamps'
  BY <1>1, <1>2, <1>3 DEF Stamps, Looks
<1>5. Looked' /\ Reading' /\ InHand'
  BY <1>2 DEF Looked, Reading, InHand
<1>6. Ruled' /\ Archived'
  BY <1>1, <1>2, <1>3 DEF Ruled, Archived, Looks, Wanted, Excluded
<1>7. Listed'
  <2>1. Included' = Included /\ \A n \in Names : Wanted(n)' <=> Wanted(n)
    BY <1>3 DEF Included, Wanted, Excluded
  <2> QED
    BY <1>1, <1>2, <1>3, <2>1 DEF Listed, Looks
<1> QED
  BY <1>3, <1>4, <1>5, <1>6, <1>7 DEF PackageInv

\* The next name is wanted.
LEMMA ChoosePreserves ==
  ASSUME PackageInv, NEW name \in Names, Looks, step = "entry", step' = "open entry",
         files[name].safe, Wanted(name),
         local' = [local EXCEPT !.name = name, !.info = files[name]]
  PROVE  PackageInv'
<1>1. PackageTypes /\ Stamps /\ Ruled /\ Archived /\ Listed
  BY DEF PackageInv
<1>2. files[name] \in File /\ files[name] # NoFile
  BY <1>1, NoFileIsTyped DEF PackageTypes
<1>3. PackageTypes' /\ local'.name = name /\ local'.info = files[name]
      /\ local'.todo = local.todo /\ local'.before = local.before
      /\ local'.rootInfo = local.rootInfo /\ local'.rules = local.rules
      /\ local'.archive = local.archive
  BY <1>1, <1>2 DEF PackageTypes, Local, Looks
<1>4. files[name].stamp \in Nat /\ files[name].stamp # 0 /\ files[name].stamp > 0
      /\ files[name].stamp <= edits
  <2>1. files[name].stamp \in Nat
    BY <1>2 DEF File
  <2>2. files[name].stamp <= edits /\ files[name].stamp # 0
    BY <1>1, <1>2 DEF Stamps
  <2> QED
    BY <2>1, <2>2, SeenIsPositive
<1>5. Stamps'
  BY <1>1, <1>3, <1>4 DEF Stamps, Looks
<1>6. Looked'
  BY <1>3, <1>4 DEF Looked, Looks
<1>7. Reading'
  BY DEF Reading
<1>8. Ruled'
  BY <1>1, <1>3 DEF Ruled, Looks
<1>9. InHand'
  BY ZenonT(60), <1>1, <1>3 DEF InHand, Wanted, Excluded, Stamps
<1>10. Archived'
  BY <1>1, <1>3 DEF Archived, Wanted, Excluded
<1>11. Listed'
  <2>1. Included' = Included /\ \A n \in Names : Wanted(n)' <=> Wanted(n)
    BY <1>3 DEF Included, Wanted, Excluded
  <2> QED
    BY <1>1, <1>3, <2>1 DEF Listed, Looks
<1> QED
  BY <1>3, <1>5, <1>6, <1>7, <1>8, <1>9, <1>10, <1>11 DEF PackageInv

LEMMA StatEntryPreserves ==
  ASSUME PackageInv, StatEntry
  PROVE  PackageInv'
<1>1. step = "entry"
  BY DEF StatEntry
<1>2. PICK name \in Names :
        \/ ~files[name].safe /\ Continue("rejected")
        \/ name \in Mandatory /\ Skip(name)
        \/ /\ files[name].safe /\ name \notin Mandatory
           /\ \/ Excluded(name, local.rules) /\ Skip(name)
              \/ ~Excluded(name, local.rules) /\ Go("open entry")
                 /\ local' = [local EXCEPT !.name = name, !.info = files[name]]
  BY DEF StatEntry
<1>3. CASE Continue("rejected")
  BY <1>3, AbortPreserves DEF Continue, Go
<1>4. CASE ~Wanted(name) /\ Skip(name)
  BY <1>1, <1>4, SkipPreserves
<1>5. CASE /\ files[name].safe /\ Wanted(name) /\ Go("open entry")
           /\ local' = [local EXCEPT !.name = name, !.info = files[name]]
  BY <1>1, <1>5, ChoosePreserves DEF Go, Looks
<1> QED
  BY <1>2, <1>3, <1>4, <1>5 DEF Wanted

LEMMA CheckEntryPreserves ==
  ASSUME PackageInv, CheckEntry
  PROVE  PackageInv'
<1>1. PackageTypes /\ Stamps /\ Looked /\ Reading /\ Ruled /\ InHand /\ Archived /\ Listed
  BY DEF PackageInv
<1>2. step = "check" /\ Looks
  BY DEF CheckEntry, Continue, Go, Looks
<1>3. CASE local' = local /\ step' = "rejected"
  BY <1>2, <1>3, AbortPreserves DEF Looks
<1>4. CASE /\ CopyUnchanged /\ step' = "entry"
           /\ local' = [local EXCEPT !.archive = local.archive \cup {[name |-> local.name,
                             file |-> local.handle, half |-> local.half]},
                           !.handle = NoFile, !.todo = local.todo \ {local.name}]
  <2>1. local.name \in Names /\ local.handle \in File /\ local.half \in Nat
    BY <1>1 DEF PackageTypes, Local
  <2>2. PICK entry \in Entry :
          /\ entry = [name |-> local.name, file |-> local.handle, half |-> local.half]
          /\ entry.name = local.name /\ entry.file = local.handle /\ entry.half = local.half
    <3>1. [name |-> local.name, file |-> local.handle, half |-> local.half] \in Entry
      BY <2>1 DEF Entry
    <3> QED
      BY <3>1
  <2>3. PackageTypes' /\ local'.archive = local.archive \cup {entry}
        /\ local'.todo = local.todo \ {local.name} /\ local'.before = local.before
        /\ local'.rootInfo = local.rootInfo /\ local'.rules = local.rules
        /\ local'.info = local.info
    BY <1>1, <1>2, <1>4, <2>2, NoFileIsTyped DEF PackageTypes, Local, Looks
  <2>4. /\ local.handle = local.info /\ local.half = local.info.contents
        /\ files[local.name] = local.info /\ files[local.name] # NoFile
    BY <1>1, <1>2, <1>4, NoFileIsTyped
       DEF CopyUnchanged, HandleUnchanged, Reading, Looked
  <2>5. local.info.safe /\ Wanted(local.name) /\ (local.name = Ignore => local.info = local.rules)
    BY <1>1, <1>2 DEF Looked, InHand, SameIgnore
  <2>6. Stamps'
    BY <1>1, <1>2, <2>3 DEF Stamps, Looks
  <2>7. Looked' /\ Reading' /\ InHand'
    BY <1>4 DEF Looked, Reading, InHand
  <2>8. Ruled'
    BY <1>1, <1>2, <1>4, <2>3 DEF Ruled, Looks
  <2>9. \A n \in Names : Wanted(n)' <=> Wanted(n)
    BY <2>3 DEF Wanted, Excluded
  <2>10. Archived'
    <3>1. entry.file.safe /\ entry.half = entry.file.contents
          /\ (entry.name = Ignore => entry.file = local.rules)
      BY <2>2, <2>4, <2>5
    <3>2. \A e \in local.archive : Wanted(e.name)'
      BY <1>1, <2>3 DEF Archived, Wanted, Excluded
    <3>3. Wanted(entry.name)'
      BY <2>1, <2>2, <2>5, <2>9
    <3> QED
      BY <1>1, <1>4, <2>3, <3>1, <3>2, <3>3 DEF Archived
  <2>11. Listed'
    <3>1. Included' = Included \cup {local.name}
      BY <2>2, <2>3 DEF Included
    <3> QED
      BY <1>1, <1>2, <1>4, <2>3, <2>4, <2>9, <3>1 DEF Listed, Looks
  <2> QED
    BY <2>3, <2>6, <2>7, <2>8, <2>10, <2>11 DEF PackageInv
<1> QED
  BY <1>3, <1>4 DEF CheckEntry, Continue, Go

-----------------------------------------------------------------------------

LEMMA PackagePreserved == PackageInv /\ [PackageNext]_packageVars => PackageInv'
<1> SUFFICES ASSUME PackageInv, [PackageNext]_packageVars
             PROVE  PackageInv'
  OBVIOUS
<1>1. ASSUME NEW n \in Names, Write(n) \/ Replace(n)
      PROVE  PackageInv'
  BY <1>1, WritePreserves, ReplacePreserves
<1>2. CASE OpenRoot \/ CheckPin \/ StatIgnore \/ OpenIgnore \/ ReadIgnore \/ CheckIgnore
  BY <1>2, OpenRootPreserves, CheckPreserves, StatIgnorePreserves, OpenIgnorePreserves,
     ReadPreserves, CheckIgnorePreserves
<1>3. CASE StatDirectory \/ ListDirectory \/ StatEntry \/ OpenEntry \/ Copy \/ CheckEntry
  BY <1>3, StatDirectoryPreserves, ListDirectoryPreserves, StatEntryPreserves,
     OpenEntryPreserves, ReadPreserves, CheckEntryPreserves
<1>4. CASE CheckDirectory \/ FinishPackage
  BY <1>4, CheckPreserves
<1>5. CASE UNCHANGED packageVars
  <2>1. UNCHANGED <<files, changed, edits, step, local>>
    BY <1>5 DEF packageVars
  <2>2. PackageTypes' /\ Stamps' /\ Looked' /\ Reading' /\ Ruled'
    BY ZenonT(60), <2>1 DEF PackageInv, PackageTypes, Stamps, Looked, Reading, Ruled
  <2>3. InHand' /\ Archived' /\ Listed'
    BY <2>1 DEF PackageInv, InHand, Archived, Listed, Included, Wanted, Excluded, SameIgnore
  <2> QED
    BY <2>2, <2>3 DEF PackageInv
<1> QED
  BY <1>1, <1>2, <1>3, <1>4, <1>5 DEF PackageNext

LEMMA PackageIsWhole == PackageInv => SourceWhole
<1> SUFFICES ASSUME PackageInv, step = "packed"
             PROVE  /\ \A entry \in local.archive :
                         entry.file.safe /\ entry.half = entry.file.contents
                    /\ Included = {n \in Names \ Mandatory :
                                     files[n] # NoFile /\ ~ExcludedByArchive(n)}
  BY DEF SourceWhole
<1>1. PackageTypes /\ Stamps /\ Ruled /\ Archived /\ Listed
  BY DEF PackageInv
<1>2. changed = local.before /\ changed = local.rootInfo /\ local.todo = {}
  <2>1. /\ local.rootInfo <= local.before /\ local.before <= changed
        /\ changed = local.rootInfo /\ local.todo = {}
    BY <1>1 DEF Listed, Stamps
  <2>2. local.before \in Nat /\ local.rootInfo \in Nat /\ changed \in Nat
    BY <1>1 DEF PackageTypes, Local
  <2> QED
    BY <2>1, <2>2
<1>3. Included \subseteq Names
  BY <1>1 DEF Included, PackageTypes, Local, Entry
<1>4. \A n \in Names : n \in Included <=> files[n] # NoFile /\ Wanted(n)
  <2>1. \A n \in Included : Wanted(n)
    BY <1>1 DEF Archived, Included
  <2> QED
    BY <1>1, <1>2, <2>1 DEF Listed
<1>5. ASSUME NEW n \in Names
      PROVE  ExcludedByArchive(n) <=> Excluded(n, local.rules)
  <2>1. ExcludedByArchive(n) => Excluded(n, local.rules)
    BY <1>1 DEF ExcludedByArchive, Archived
  <2>2. ASSUME Excluded(n, local.rules)
        PROVE  ExcludedByArchive(n)
    <3>1. local.rules # NoFile
      BY <2>2 DEF Excluded, NoFile
    <3>2. Ignore \in Names /\ Wanted(Ignore)
      BY DEF Names, Wanted, Mandatory, Excluded, AlwaysIncluded, Ignore, Dockerfile
    <3>3. Ignore \in Included
      BY <1>1, <1>2, <1>4, <3>1, <3>2 DEF Ruled
    <3>4. PICK entry \in local.archive : entry.name = Ignore
      BY <3>3 DEF Included
    <3>5. entry.file = local.rules
      BY <1>1, <3>4 DEF Archived
    <3> QED
      BY <2>2, <3>4, <3>5 DEF ExcludedByArchive
  <2> QED
    BY <2>1, <2>2
<1>6. Included = {n \in Names \ Mandatory : files[n] # NoFile /\ ~ExcludedByArchive(n)}
  BY <1>3, <1>4, <1>5 DEF Wanted
<1> QED
  BY <1>1, <1>6 DEF Archived

\* Whatever is written, replaced, created or removed in the directory meanwhile, an
\* archive that is uploaded has whole regular files only, and all names of one moment but
\* those that its own .dockerignore or the platform excludes (upload.py _package).
THEOREM SourceStaysWhole == PackageSpec => []SourceWhole
<1>1. PackageInit => PackageInv
  BY PackageInitially
<1>2. PackageInv /\ [PackageNext]_packageVars => PackageInv'
  BY PackagePreserved
<1>3. PackageInv => SourceWhole
  BY PackageIsWhole
<1> QED
  BY <1>1, <1>2, <1>3, PTL DEF PackageSpec

(***************************************************************************)
(* The deploy command and the service.                                     *)
(***************************************************************************)

States == {"accepted", "working", "operator"} \cup Final
Refusals == {"busy", "no slot", "forbidden", "conflict"}
Reports == {"succeeded", "failed", "accepted", "timeout", "interrupted", "denied"}

DeployTypes ==
  /\ archive \in [Runs -> Archives \cup {None}]
  /\ copy \in [Runs -> {None, "sent", "uploading", "answering", "over"}]
  /\ reply \in [Runs -> [kind : {None, "accepted"} \cup Refusals, known : BOOLEAN]]
  /\ operation \in [archive : Archives \cup {None}, state : States \cup {None}]
  /\ admitted \in SUBSET Runs
  /\ otherBuild \in BOOLEAN /\ authorized \in BOOLEAN
  /\ phase \in [Runs -> {"idle", "submitting", "waiting", "over"}]
  /\ read \in [Runs -> {None, "lost", "denied"} \cup States]
  /\ seen \in [Runs -> {None} \cup States]
  /\ outcome \in [Runs -> [kind : {Pending, "unknown"} \cup Refusals \cup Reports,
                           continues : BOOLEAN]]

Exists == operation.state # None
StateOfOperation == ~Exists => operation = NoOperation

\* An answer is true of the operation when it is given and stays so, for the run's
\* archive is what it was and an operation keeps its own.
RequestInv(r) ==
  /\ phase[r] = "idle" => copy[r] = None
  /\ reply[r].kind # None => copy[r] \in {"answering", "over"}
  /\ copy[r] \in {None, "sent", "uploading"} => r \notin admitted
  /\ reply[r].kind = "accepted" => Exists /\ Own(r)
  /\ reply[r].kind = "conflict" => Exists /\ ~Own(r)
  /\ reply[r].kind = "busy" => ~reply[r].known
  /\ reply[r].kind \in Refusals => r \notin admitted

\* What the command was told of an ended operation is its last state.
CommandInv(r) ==
  /\ outcome[r].kind # Pending => phase[r] = "over"
  /\ phase[r] = "waiting" \/ outcome[r].kind \in Reports => Exists /\ Own(r)
  /\ read[r] \in Final => operation.state = read[r]
  /\ seen[r] \in Final => operation.state = seen[r]
  /\ outcome[r].kind \in Refusals => reply[r].kind = outcome[r].kind
  /\ outcome[r].kind = "succeeded" => operation.state = "succeeded"
  /\ outcome[r].kind = "failed" => operation.state = "failed" \/ seen[r] = "operator"
  /\ outcome[r].kind \in {"failed", "interrupted", "timeout", "denied"} /\ ~outcome[r].continues
       => seen[r] \in Final

DeployInv ==
  /\ DeployTypes /\ StateOfOperation
  /\ \A r \in Runs : RequestInv(r) /\ CommandInv(r)

\* An operation stays, keeps its archive, and does not leave a final state.
Goes ==
  /\ Exists => Exists' /\ operation'.archive = operation.archive
  /\ operation.state \in Final => operation'.state = operation.state

USE DEF None, Pending, Final, States, Refusals, Reports

-----------------------------------------------------------------------------

LEMMA DeployInitially == DeployInit => DeployInv
<1> SUFFICES ASSUME DeployInit
             PROVE  DeployInv
  OBVIOUS
<1>1. DeployTypes
  BY DEF DeployInit, DeployTypes, NoReply, NoOperation, NoOutcome
<1>2. StateOfOperation
  BY DEF DeployInit, StateOfOperation, Exists, NoOperation
<1>3. ASSUME NEW r \in Runs
      PROVE  RequestInv(r) /\ CommandInv(r)
  <2>1. /\ phase[r] = "idle" /\ copy[r] = None /\ reply[r].kind = None /\ r \notin admitted
        /\ read[r] = None /\ seen[r] = None /\ outcome[r].kind = Pending
    BY DEF DeployInit, NoReply, NoOutcome
  <2> QED
    BY <2>1 DEF RequestInv, CommandInv
<1> QED
  BY <1>1, <1>2, <1>3 DEF DeployInv

LEMMA OperationExists ==
  ASSUME StateOfOperation
  PROVE  operation # NoOperation <=> Exists
BY DEF StateOfOperation, Exists, NoOperation

\* A step of run r is of no other run.
Elsewhere(r) ==
  \A q \in Runs \ {r} :
    /\ archive'[q] = archive[q] /\ copy'[q] = copy[q] /\ reply'[q] = reply[q]
    /\ phase'[q] = phase[q] /\ read'[q] = read[q] /\ seen'[q] = seen[q]
    /\ outcome'[q] = outcome[q] /\ (q \in admitted' <=> q \in admitted)

LEMMA Untouched ==
  ASSUME DeployInv, NEW q \in Runs, Goes,
         archive'[q] = archive[q], copy'[q] = copy[q], reply'[q] = reply[q],
         phase'[q] = phase[q], read'[q] = read[q], seen'[q] = seen[q],
         outcome'[q] = outcome[q], q \in admitted' <=> q \in admitted
  PROVE  RequestInv(q)' /\ CommandInv(q)'
<1>1. RequestInv(q) /\ CommandInv(q)
  BY DEF DeployInv
<1>2. RequestInv(q)'
  BY <1>1 DEF RequestInv, Goes, Exists, Own
<1>3. CommandInv(q)'
  BY <1>1 DEF CommandInv, Goes, Exists, Own
<1> QED
  BY <1>2, <1>3

LEMMA OneRunTouched ==
  ASSUME DeployInv, NEW r \in Runs, DeployTypes', StateOfOperation', Goes, Elsewhere(r),
         RequestInv(r)', CommandInv(r)'
  PROVE  DeployInv'
<1>1. ASSUME NEW q \in Runs
      PROVE  RequestInv(q)' /\ CommandInv(q)'
  <2>1. CASE q = r
    BY <2>1
  <2>2. CASE q # r
    <3>1. /\ archive'[q] = archive[q] /\ copy'[q] = copy[q] /\ reply'[q] = reply[q]
          /\ phase'[q] = phase[q] /\ read'[q] = read[q] /\ seen'[q] = seen[q]
          /\ outcome'[q] = outcome[q] /\ (q \in admitted' <=> q \in admitted)
      BY <2>2 DEF Elsewhere
    <3> QED
      BY <3>1, Untouched
  <2> QED
    BY <2>1, <2>2
<1> QED
  BY <1>1 DEF DeployInv

\* A step that leaves the runs and the operation's identity alone.
LEMMA NoRunTouched ==
  ASSUME DeployInv, DeployTypes', StateOfOperation', Goes, admitted' = admitted,
         UNCHANGED <<requestVars, clientVars>>
  PROVE  DeployInv'
<1>1. ASSUME NEW q \in Runs
      PROVE  RequestInv(q)' /\ CommandInv(q)'
  BY Untouched DEF requestVars, clientVars
<1> QED
  BY <1>1 DEF DeployInv

LEMMA SubmitPreserves ==
  ASSUME DeployInv, NEW r \in Runs, Submit(r)
  PROVE  DeployInv'
<1>1. /\ phase[r] = "idle" /\ phase' = [phase EXCEPT ![r] = "submitting"]
      /\ copy' = [copy EXCEPT ![r] = "sent"]
      /\ UNCHANGED <<reply, operation, admitted, otherBuild, authorized, read, seen, outcome>>
  BY DEF Submit, serviceVars
<1>2. PICK a \in Archives : archive' = [archive EXCEPT ![r] = a]
  BY DEF Submit
<1>3. RequestInv(r) /\ CommandInv(r) /\ DeployTypes /\ StateOfOperation
  BY DEF DeployInv
<1>4. DeployTypes' /\ StateOfOperation' /\ Goes /\ Elsewhere(r)
  BY ZenonT(60), <1>1, <1>2, <1>3 DEF DeployTypes, StateOfOperation, Goes, Exists, Elsewhere
<1>5. copy[r] = None /\ reply[r].kind = None /\ outcome[r].kind = Pending
  BY <1>1, <1>3 DEF RequestInv, CommandInv
<1>6. /\ phase'[r] = "submitting" /\ copy'[r] = "sent"
      /\ reply'[r] = reply[r] /\ outcome'[r] = outcome[r]
  BY <1>1, <1>3 DEF DeployTypes
<1>7. RequestInv(r)'
  BY <1>1, <1>3, <1>5, <1>6 DEF RequestInv
<1>8. CommandInv(r)'
  BY <1>1, <1>3, <1>5, <1>6 DEF CommandInv
<1> QED
  BY <1>4, <1>7, <1>8, OneRunTouched

LEMMA UploadPreserves ==
  ASSUME DeployInv, NEW r \in Runs, Upload(r)
  PROVE  DeployInv'
<1>1. /\ copy[r] = "sent"
      /\ UNCHANGED <<archive, operation, admitted, otherBuild, authorized,
                     phase, read, seen, outcome>>
  BY DEF Upload, clientVars
<1>2. RequestInv(r) /\ CommandInv(r) /\ DeployTypes /\ StateOfOperation
  BY DEF DeployInv
<1>3. reply[r].kind = None /\ r \notin admitted /\ outcome[r].kind \notin Refusals
      /\ phase[r] # "idle"
  BY <1>1, <1>2 DEF RequestInv, CommandInv
<1>4. CASE copy' = [copy EXCEPT ![r] = "uploading"] /\ reply' = reply
  <2>1. DeployTypes' /\ StateOfOperation' /\ Goes /\ Elsewhere(r)
    BY <1>1, <1>2, <1>4 DEF DeployTypes, StateOfOperation, Goes, Exists, Elsewhere
  <2>2. copy'[r] = "uploading"
    BY <1>2, <1>4 DEF DeployTypes
  <2>3. RequestInv(r)'
    BY <1>1, <1>2, <1>3, <1>4, <2>2 DEF RequestInv
  <2>4. CommandInv(r)'
    BY <1>1, <1>2, <1>4 DEF CommandInv, Exists, Own
  <2> QED
    BY <2>1, <2>3, <2>4, OneRunTouched
<1>5. CASE /\ copy' = [copy EXCEPT ![r] = "over"]
           /\ Answer(r, IF authorized THEN "no slot" ELSE "forbidden")
  <2>1. PICK kind \in {"no slot", "forbidden"}, told \in BOOLEAN :
          reply' = [reply EXCEPT ![r] = [kind |-> kind, known |-> told]]
    BY <1>5 DEF Answer
  <2>2. DeployTypes' /\ StateOfOperation' /\ Goes /\ Elsewhere(r)
    BY ZenonT(60), <1>1, <1>2, <1>5, <2>1 DEF DeployTypes, StateOfOperation, Goes, Exists, Elsewhere
  <2>3. copy'[r] = "over" /\ reply'[r].kind \in {"no slot", "forbidden"}
    BY <1>2, <1>5, <2>1 DEF DeployTypes
  <2>4. RequestInv(r)'
    BY <1>1, <1>2, <1>3, <2>3 DEF RequestInv
  <2>5. CommandInv(r)'
    BY <1>1, <1>2, <1>3 DEF CommandInv, Exists, Own
  <2> QED
    BY <2>2, <2>4, <2>5, OneRunTouched
<1> QED
  BY <1>4, <1>5 DEF Upload

LEMMA AdmitPreserves ==
  ASSUME DeployInv, NEW r \in Runs, Admit(r)
  PROVE  DeployInv'
<1>1. /\ copy[r] = "uploading" /\ copy' = [copy EXCEPT ![r] = "answering"]
      /\ UNCHANGED <<archive, otherBuild, authorized, phase, read, seen, outcome>>
      /\ IF Decision(r) = "accepted" /\ operation = NoOperation
         THEN /\ operation' = [archive |-> archive[r], state |-> "accepted"]
              /\ admitted' = admitted \cup {r}
         ELSE UNCHANGED <<operation, admitted>>
  BY DEF Admit, clientVars
<1>2. RequestInv(r) /\ CommandInv(r) /\ DeployTypes /\ StateOfOperation
      /\ (operation # NoOperation <=> Exists)
  BY OperationExists DEF DeployInv
<1>3. PICK told \in BOOLEAN :
        /\ reply' = [reply EXCEPT ![r] = [kind |-> Decision(r), known |-> told]]
        /\ ~Exists => told = FALSE
  BY <1>2 DEF Admit, Answer
<1>4. /\ Decision(r) \in {"forbidden", "busy", "conflict", "accepted"}
      /\ Decision(r) = "busy" => ~Exists
      /\ Decision(r) = "conflict" => Exists /\ ~Own(r)
      /\ Decision(r) = "accepted" /\ Exists => Own(r)
  BY <1>2 DEF Decision, Receipt, Own
<1>5. reply[r].kind = None /\ r \notin admitted /\ outcome[r].kind \notin Refusals
      /\ phase[r] # "idle"
  BY <1>1, <1>2 DEF RequestInv, CommandInv
<1>6. \/ Decision(r) = "accepted" /\ ~Exists
         /\ operation' = [archive |-> archive[r], state |-> "accepted"]
         /\ admitted' = admitted \cup {r}
      \/ (Decision(r) # "accepted" \/ Exists) /\ operation' = operation /\ admitted' = admitted
  BY <1>1, <1>2
<1>7. DeployTypes'
  <2>1. reply' \in [Runs -> [kind : {None, "accepted"} \cup Refusals, known : BOOLEAN]]
    BY <1>2, <1>3, <1>4 DEF DeployTypes
  <2>2. copy' \in [Runs -> {None, "sent", "uploading", "answering", "over"}]
    BY <1>1, <1>2 DEF DeployTypes
  <2>3. operation' \in [archive : Archives \cup {None}, state : States \cup {None}]
    <3>1. archive[r] \in Archives \cup {None}
      BY <1>2 DEF DeployTypes
    <3>2. CASE operation' = [archive |-> archive[r], state |-> "accepted"]
      BY <3>1, <3>2
    <3>3. CASE operation' = operation
      BY <1>2, <3>3 DEF DeployTypes
    <3> QED
      BY <1>6, <3>2, <3>3
  <2>4. admitted' \in SUBSET Runs
    <3>1. admitted' = admitted \/ admitted' = admitted \cup {r}
      BY <1>6
    <3>2. admitted \subseteq Runs
      BY <1>2 DEF DeployTypes
    <3> QED
      BY <3>1, <3>2
  <2> QED
    BY <1>1, <1>2, <2>1, <2>2, <2>3, <2>4 DEF DeployTypes
<1>8. StateOfOperation' /\ Goes /\ Elsewhere(r)
  <2>1. StateOfOperation' /\ Goes
    BY <1>2, <1>6 DEF StateOfOperation, Goes, Exists
  <2>2. Elsewhere(r)
    BY ZenonT(60), <1>1, <1>2, <1>3, <1>6 DEF DeployTypes, Elsewhere
  <2> QED
    BY <2>1, <2>2
<1>9. RequestInv(r)'
  <2>1. reply'[r].kind = Decision(r) /\ (~Exists => reply'[r].known = FALSE)
    BY <1>2, <1>3 DEF DeployTypes
  <2>2. copy'[r] = "answering" /\ phase'[r] # "idle"
    BY <1>1, <1>2, <1>5 DEF DeployTypes
  <2>3. CASE Decision(r) = "accepted" /\ ~Exists
    <3>1. operation'.state # None /\ operation'.archive = archive'[r]
      BY <1>1, <1>6, <2>3
    <3> QED
      BY <2>1, <2>2, <2>3, <3>1 DEF RequestInv, Exists, Own
  <2>4. CASE Decision(r) # "accepted" \/ Exists
    <3>1. UNCHANGED <<operation, admitted, archive>>
      BY <1>1, <1>6, <2>4
    <3>2. reply'[r].kind = "accepted" => Exists' /\ Own(r)'
      BY <1>4, <2>1, <2>4, <3>1 DEF Exists, Own
    <3>3. reply'[r].kind = "conflict" => Exists' /\ ~Own(r)'
      BY <1>4, <2>1, <3>1 DEF Exists, Own
    <3>4. reply'[r].kind = "busy" => ~reply'[r].known
      BY <1>4, <2>1
    <3> QED
      BY <1>5, <2>2, <3>1, <3>2, <3>3, <3>4 DEF RequestInv
  <2> QED
    BY <2>3, <2>4
<1>10. CommandInv(r)'
  BY <1>1, <1>2, <1>5, <1>8 DEF CommandInv, Goes, Exists, Own
<1> QED
  BY <1>7, <1>8, <1>9, <1>10, OneRunTouched

LEMMA RespondPreserves ==
  ASSUME DeployInv, NEW r \in Runs, Respond(r)
  PROVE  DeployInv'
<1>1. /\ copy[r] = "answering" /\ copy' = [copy EXCEPT ![r] = "over"]
      /\ UNCHANGED <<archive, reply, operation, admitted, otherBuild, authorized,
                     phase, read, seen, outcome>>
  BY DEF Respond, clientVars
<1>2. RequestInv(r) /\ CommandInv(r) /\ DeployTypes /\ StateOfOperation
  BY DEF DeployInv
<1>3. DeployTypes' /\ StateOfOperation' /\ Goes /\ Elsewhere(r)
  BY <1>1, <1>2 DEF DeployTypes, StateOfOperation, Goes, Exists, Elsewhere
<1>4. copy'[r] = "over"
  BY <1>1, <1>2 DEF DeployTypes
<1>5. RequestInv(r)'
  BY <1>1, <1>2, <1>4 DEF RequestInv, Exists, Own
<1>6. CommandInv(r)'
  BY <1>1, <1>2 DEF CommandInv, Exists, Own
<1> QED
  BY <1>3, <1>5, <1>6, OneRunTouched

LEMMA DisconnectPreserves ==
  ASSUME DeployInv, NEW r \in Runs, LoseConnection(r)
  PROVE  DeployInv'
<1>1. /\ copy[r] \in {"sent", "uploading", "answering"}
      /\ copy[r] = "answering" => phase[r] = "submitting"
      /\ copy' = [copy EXCEPT ![r] = "over"]
      /\ reply' = [reply EXCEPT ![r] = NoReply]
      /\ UNCHANGED <<archive, operation, admitted, otherBuild, authorized,
                     phase, read, seen, outcome>>
  BY DEF LoseConnection, clientVars
<1>2. RequestInv(r) /\ CommandInv(r) /\ DeployTypes /\ StateOfOperation
  BY DEF DeployInv
<1>3. DeployTypes' /\ StateOfOperation' /\ Goes /\ Elsewhere(r)
  BY ZenonT(60), <1>1, <1>2 DEF DeployTypes, StateOfOperation, Goes, Exists, Elsewhere, NoReply
<1>4. outcome[r].kind \notin Refusals /\ phase[r] # "idle"
  BY <1>1, <1>2 DEF RequestInv, CommandInv
<1>5. copy'[r] = "over" /\ reply'[r].kind = None
  BY <1>1, <1>2 DEF DeployTypes, NoReply
<1>6. RequestInv(r)'
  BY <1>1, <1>2, <1>4, <1>5 DEF RequestInv
<1>7. CommandInv(r)'
  BY <1>1, <1>2, <1>4 DEF CommandInv, Exists, Own
<1> QED
  BY <1>3, <1>6, <1>7, OneRunTouched

\* The steps of others, and those of the service beside the requests.
LEMMA ServicePreserves ==
  ASSUME DeployInv, OtherUpload \/ OtherBuild \/ Revoke \/ Progress
  PROVE  DeployInv'
<1>1. DeployTypes /\ StateOfOperation
  BY DEF DeployInv
<1>2. CASE OtherUpload \/ OtherBuild \/ Revoke
  <2>1. UNCHANGED <<operation, admitted, requestVars, clientVars>>
        /\ otherBuild' \in BOOLEAN /\ authorized' \in BOOLEAN
    BY <1>1, <1>2 DEF OtherUpload, OtherBuild, Revoke, DeployTypes
  <2>2. DeployTypes' /\ StateOfOperation' /\ Goes
    BY <1>1, <2>1 DEF DeployTypes, StateOfOperation, Goes, Exists, requestVars, clientVars
  <2> QED
    BY <2>1, <2>2, NoRunTouched
<1>3. CASE Progress
  <2>1. PICK to \in {"working", "operator", "succeeded", "failed"} :
          /\ operation' = [operation EXCEPT !.state = to]
          /\ operation.state \in {"accepted", "working", "operator"}
    BY <1>3 DEF Progress
  <2>2. UNCHANGED <<admitted, otherBuild, authorized, requestVars, clientVars>>
    BY <1>3 DEF Progress
  <2>3. DeployTypes' /\ StateOfOperation' /\ Goes
    BY <1>1, <2>1, <2>2
       DEF DeployTypes, StateOfOperation, Goes, Exists, requestVars, clientVars
  <2> QED
    BY <2>2, <2>3, NoRunTouched
<1> QED
  BY <1>2, <1>3

\* A step of the command leaves the service and the requests alone.
LEMMA CommandTouched ==
  ASSUME DeployInv, NEW r \in Runs, UNCHANGED <<serviceVars, requestVars>>,
         phase' \in [Runs -> {"idle", "submitting", "waiting", "over"}],
         read' \in [Runs -> {None, "lost", "denied"} \cup States],
         seen' \in [Runs -> {None} \cup States],
         outcome' \in [Runs -> [kind : {Pending, "unknown"} \cup Refusals \cup Reports,
                                continues : BOOLEAN]],
         \A q \in Runs \ {r} : /\ phase'[q] = phase[q] /\ read'[q] = read[q]
                               /\ seen'[q] = seen[q] /\ outcome'[q] = outcome[q],
         phase[r] # "idle", phase'[r] # "idle", CommandInv(r)'
  PROVE  DeployInv'
<1>1. RequestInv(r) /\ DeployTypes /\ StateOfOperation
  BY DEF DeployInv
<1>2. UNCHANGED <<archive, copy, reply, operation, admitted, otherBuild, authorized>>
  BY DEF serviceVars, requestVars
<1>3. DeployTypes' /\ StateOfOperation' /\ Goes /\ Elsewhere(r)
  BY <1>1, <1>2 DEF DeployTypes, StateOfOperation, Goes, Exists, Elsewhere
<1>4. RequestInv(r)'
  BY <1>1, <1>2 DEF RequestInv, Exists, Own
<1> QED
  BY <1>3, <1>4, OneRunTouched

LEMMA Ends ==
  ASSUME DeployTypes, NEW r \in Runs, NEW k \in {"unknown"} \cup Refusals \cup Reports,
         NEW c \in BOOLEAN, End(r, k, c)
  PROVE  /\ phase' \in [Runs -> {"idle", "submitting", "waiting", "over"}]
         /\ outcome' \in [Runs -> [kind : {Pending, "unknown"} \cup Refusals \cup Reports,
                                   continues : BOOLEAN]]
         /\ phase'[r] = "over" /\ outcome'[r].kind = k /\ outcome'[r].continues = c
         /\ \A q \in Runs \ {r} : phase'[q] = phase[q] /\ outcome'[q] = outcome[q]
BY ZenonT(60) DEF End, DeployTypes

LEMMA ReceiveReplyPreserves ==
  ASSUME DeployInv, NEW r \in Runs, ReceiveReply(r)
  PROVE  DeployInv'
<1>1. RequestInv(r) /\ CommandInv(r) /\ DeployTypes
  BY DEF DeployInv
<1>2. /\ phase[r] = "submitting" /\ read' = read
      /\ UNCHANGED <<serviceVars, requestVars>>
      /\ operation' = operation /\ archive' = archive /\ reply' = reply
  BY DEF ReceiveReply, serviceVars, requestVars
<1>3. outcome[r].kind = Pending
  BY <1>1, <1>2 DEF CommandInv
<1>4. CASE reply[r].kind = "accepted"
  <2>1. seen' = [seen EXCEPT ![r] = "accepted"]
    BY <1>4 DEF ReceiveReply
  <2>2. seen' \in [Runs -> {None} \cup States] /\ seen'[r] = "accepted"
        /\ \A q \in Runs \ {r} : seen'[q] = seen[q]
    BY <1>1, <2>1 DEF DeployTypes
  <2>3. Exists /\ Own(r)
    BY <1>1, <1>4 DEF RequestInv
  <2>4. CASE phase' = [phase EXCEPT ![r] = "waiting"] /\ outcome' = outcome
    <3>1. phase' \in [Runs -> {"idle", "submitting", "waiting", "over"}]
          /\ phase'[r] = "waiting" /\ \A q \in Runs \ {r} : phase'[q] = phase[q]
      BY ZenonT(60), <1>1, <2>4 DEF DeployTypes
    <3>2. CommandInv(r)'
      BY <1>1, <1>2, <1>3, <2>2, <2>3, <2>4, <3>1 DEF CommandInv, Exists, Own
    <3> QED
      BY <1>1, <1>2, <2>2, <2>4, <3>1, <3>2, CommandTouched DEF DeployTypes
  <2>5. CASE End(r, "accepted", TRUE)
    <3>1. /\ phase' \in [Runs -> {"idle", "submitting", "waiting", "over"}]
          /\ outcome' \in [Runs -> [kind : {Pending, "unknown"} \cup Refusals \cup Reports,
                                    continues : BOOLEAN]]
          /\ phase'[r] = "over" /\ outcome'[r].kind = "accepted"
          /\ \A q \in Runs \ {r} : phase'[q] = phase[q] /\ outcome'[q] = outcome[q]
      BY <1>1, <2>5, Ends DEF Reports
    <3>2. CommandInv(r)'
      BY <1>1, <1>2, <2>2, <2>3, <3>1 DEF CommandInv, Exists, Own
    <3> QED
      BY <1>1, <1>2, <2>2, <3>1, <3>2, CommandTouched DEF DeployTypes
  <2> QED
    BY <1>4, <2>4, <2>5 DEF ReceiveReply
<1>5. CASE reply[r].kind # "accepted"
  <2>1. seen' = seen /\ End(r, reply[r].kind, FALSE)
    BY <1>5 DEF ReceiveReply
  <2>2. reply[r].kind \in Refusals
    BY <1>1, <1>5 DEF ReceiveReply, DeployTypes
  <2>3. /\ phase' \in [Runs -> {"idle", "submitting", "waiting", "over"}]
        /\ outcome' \in [Runs -> [kind : {Pending, "unknown"} \cup Refusals \cup Reports,
                                  continues : BOOLEAN]]
        /\ phase'[r] = "over" /\ outcome'[r].kind = reply[r].kind
        /\ \A q \in Runs \ {r} : phase'[q] = phase[q] /\ outcome'[q] = outcome[q]
    BY <1>1, <2>1, <2>2, Ends
  <2>4. CommandInv(r)'
    BY <1>1, <1>2, <2>1, <2>2, <2>3 DEF CommandInv, Reports
  <2> QED
    BY <1>1, <1>2, <2>1, <2>3, <2>4, CommandTouched DEF DeployTypes
<1> QED
  BY <1>4, <1>5

LEMMA ReceiveReadPreserves ==
  ASSUME DeployInv, NEW r \in Runs, ReceiveRead(r)
  PROVE  DeployInv'
<1>1. CommandInv(r) /\ DeployTypes
  BY DEF DeployInv
<1>2. /\ phase[r] = "waiting" /\ read[r] # None
      /\ read' = [read EXCEPT ![r] = None]
      /\ seen' = [seen EXCEPT ![r] = IF read[r] \in {"lost", "denied"} THEN seen[r] ELSE read[r]]
      /\ UNCHANGED <<serviceVars, requestVars>>
      /\ operation' = operation /\ archive' = archive /\ reply' = reply
  BY DEF ReceiveRead, serviceVars, requestVars
<1>3. outcome[r].kind = Pending /\ Exists /\ Own(r)
  BY <1>1, <1>2 DEF CommandInv
<1>4. /\ read' \in [Runs -> {None, "lost", "denied"} \cup States] /\ read'[r] = None
      /\ \A q \in Runs \ {r} : read'[q] = read[q]
  BY ZenonT(60), <1>1, <1>2 DEF DeployTypes
<1>5. /\ seen' \in [Runs -> {None} \cup States]
      /\ seen'[r] = IF read[r] \in {"lost", "denied"} THEN seen[r] ELSE read[r]
      /\ \A q \in Runs \ {r} : seen'[q] = seen[q]
  BY ZenonT(60), <1>1, <1>2 DEF DeployTypes
<1>6. seen'[r] \in Final => operation.state = seen'[r]
  BY <1>1, <1>5 DEF CommandInv
<1>7. CASE UNCHANGED <<phase, outcome>>
  <2>1. CommandInv(r)'
    BY <1>2, <1>3, <1>4, <1>6, <1>7 DEF CommandInv, Exists, Own, Reports
  <2> QED
    BY <1>1, <1>2, <1>4, <1>5, <1>7, <2>1, CommandTouched DEF DeployTypes
<1>8. ASSUME NEW k \in {"denied", "succeeded", "failed", "interrupted"}, NEW c \in BOOLEAN,
             End(r, k, c),
             k = "succeeded" => operation.state = "succeeded",
             k = "failed" => operation.state = "failed" \/ seen'[r] = "operator",
             ~c /\ k # "succeeded" => seen'[r] \in Final
      PROVE  DeployInv'
  <2>1. /\ phase' \in [Runs -> {"idle", "submitting", "waiting", "over"}]
        /\ outcome' \in [Runs -> [kind : {Pending, "unknown"} \cup Refusals \cup Reports,
                                  continues : BOOLEAN]]
        /\ phase'[r] = "over" /\ outcome'[r].kind = k /\ outcome'[r].continues = c
        /\ \A q \in Runs \ {r} : phase'[q] = phase[q] /\ outcome'[q] = outcome[q]
    BY ZenonT(60), <1>1, <1>8, Ends DEF Reports
  <2>2. CommandInv(r)'
    BY <1>2, <1>3, <1>4, <1>6, <1>8, <2>1 DEF CommandInv, Exists, Own
  <2> QED
    BY ZenonT(60), <1>2, <1>4, <1>5, <2>1, <2>2, CommandTouched
<1>9. read[r] \in Final => operation.state = read[r]
  BY <1>1 DEF CommandInv
<1>10. CASE read[r] = "denied" /\ End(r, "denied", Continuing(seen[r]))
  <2>1. Continuing(seen[r]) \in BOOLEAN /\ (~Continuing(seen[r]) => seen'[r] \in Final)
    BY <1>5, <1>10 DEF Continuing
  <2> QED
    BY <1>8, <1>10, <2>1
<1>11. CASE read[r] = "succeeded" /\ (End(r, "succeeded", FALSE) \/ End(r, "interrupted", TRUE))
  BY <1>8, <1>9, <1>11
<1>12. CASE /\ read[r] \in Final \cup {"operator"}
            /\ \/ read[r] # "succeeded" /\ End(r, "failed", Continuing(read[r]))
               \/ End(r, "interrupted", Continuing(read[r]))
  <2>1. /\ Continuing(read[r]) \in BOOLEAN /\ (~Continuing(read[r]) => seen'[r] \in Final)
        /\ seen'[r] = read[r]
    BY <1>5, <1>12 DEF Continuing
  <2> QED
    BY <1>8, <1>9, <1>12, <2>1
<1> QED
  BY <1>7, <1>10, <1>11, <1>12 DEF ReceiveRead

LEMMA CommandPreserves ==
  ASSUME DeployInv, NEW r \in Runs,
         ReceiveReply(r) \/ GiveUp(r) \/ ServeRead(r) \/ ReceiveRead(r) \/ StopWaiting(r)
  PROVE  DeployInv'
<1>1. CommandInv(r) /\ DeployTypes
  BY DEF DeployInv
<1>2. CASE ServeRead(r)
  <2>1. PICK answer \in {"lost", IF authorized THEN operation.state ELSE "denied"} :
          read' = [read EXCEPT ![r] = answer]
    BY <1>2 DEF ServeRead
  <2>2. /\ phase[r] = "waiting" /\ UNCHANGED <<serviceVars, requestVars, phase, seen, outcome>>
        /\ operation' = operation /\ archive' = archive /\ reply' = reply
    BY <1>2 DEF ServeRead, serviceVars, requestVars
  <2>3. Exists /\ Own(r)
    BY <1>1, <2>2 DEF CommandInv
  <2>4. answer \in {"lost", "denied"} \cup States
    BY <1>1, <2>3 DEF DeployTypes, Exists
  <2>5. /\ read' \in [Runs -> {None, "lost", "denied"} \cup States] /\ read'[r] = answer
        /\ \A q \in Runs \ {r} : read'[q] = read[q]
    BY ZenonT(60), <1>1, <2>1, <2>4 DEF DeployTypes
  <2>6. CommandInv(r)'
    BY <1>1, <2>2, <2>5 DEF CommandInv, Exists, Own
  <2> QED
    BY <1>1, <2>2, <2>5, <2>6, CommandTouched DEF DeployTypes
<1>3. ASSUME NEW k \in {"unknown", "timeout", "interrupted"}, NEW c \in BOOLEAN, End(r, k, c),
             UNCHANGED <<serviceVars, requestVars, read, seen>>, phase[r] # "idle",
             k # "unknown" => phase[r] = "waiting" /\ (~c => seen[r] \in Final)
      PROVE  DeployInv'
  <2>1. /\ phase' \in [Runs -> {"idle", "submitting", "waiting", "over"}]
        /\ outcome' \in [Runs -> [kind : {Pending, "unknown"} \cup Refusals \cup Reports,
                                  continues : BOOLEAN]]
        /\ phase'[r] = "over" /\ outcome'[r].kind = k /\ outcome'[r].continues = c
        /\ \A q \in Runs \ {r} : phase'[q] = phase[q] /\ outcome'[q] = outcome[q]
    BY ZenonT(60), <1>1, <1>3, Ends DEF Reports
  <2>2. operation' = operation /\ archive' = archive
    BY <1>3 DEF serviceVars, requestVars
  <2>3. CommandInv(r)'
    BY <1>1, <1>3, <2>1, <2>2 DEF CommandInv, Exists, Own, Reports
  <2> QED
    BY <1>1, <1>3, <2>1, <2>3, CommandTouched DEF DeployTypes
<1>4. CASE GiveUp(r)
  BY <1>3, <1>4 DEF GiveUp
<1>5. CASE StopWaiting(r)
  <2>1. Continuing(seen[r]) \in BOOLEAN /\ (~Continuing(seen[r]) => seen[r] \in Final)
    BY DEF Continuing
  <2> QED
    BY <1>3, <1>5, <2>1 DEF StopWaiting
<1> QED
  BY <1>2, <1>4, <1>5, ReceiveReplyPreserves, ReceiveReadPreserves

LEMMA DeployPreserved == DeployInv /\ [DeployNext]_deployVars => DeployInv'
<1> SUFFICES ASSUME DeployInv, [DeployNext]_deployVars
             PROVE  DeployInv'
  OBVIOUS
<1>1. ASSUME NEW r \in Runs,
             Submit(r) \/ Upload(r) \/ Admit(r) \/ Respond(r) \/ LoseConnection(r)
      PROVE  DeployInv'
  BY <1>1, SubmitPreserves, UploadPreserves, AdmitPreserves, RespondPreserves,
     DisconnectPreserves
<1>2. ASSUME NEW r \in Runs,
             ReceiveReply(r) \/ GiveUp(r) \/ ServeRead(r) \/ ReceiveRead(r) \/ StopWaiting(r)
      PROVE  DeployInv'
  BY <1>2, CommandPreserves
<1>3. CASE OtherUpload \/ OtherBuild \/ Revoke \/ Progress
  BY <1>3, ServicePreserves
<1>4. CASE UNCHANGED deployVars
  <2>1. UNCHANGED <<operation, admitted, otherBuild, authorized, requestVars, clientVars>>
    BY <1>4 DEF deployVars, serviceVars, requestVars, clientVars
  <2>2. DeployTypes' /\ StateOfOperation' /\ Goes
    BY <2>1 DEF DeployInv, DeployTypes, StateOfOperation, Goes, Exists, requestVars, clientVars
  <2> QED
    BY <2>1, <2>2, NoRunTouched
<1> QED
  BY <1>1, <1>2, <1>3, <1>4 DEF DeployNext

LEMMA DeployOutcomes == DeployInv => OutcomeIsTrue
<1> SUFFICES ASSUME DeployInv, NEW r \in Runs
             PROVE  LET kind == outcome[r].kind
                    IN  /\ kind \in Reports => operation # NoOperation /\ Own(r)
                        /\ kind = "succeeded" => operation.state = "succeeded"
                        /\ kind = "failed" =>
                             operation.state \in {"failed", "operator"} \/ seen[r] = "operator"
                        /\ kind \in {"failed", "interrupted", "timeout", "denied"}
                           /\ ~outcome[r].continues
                             => operation.state = seen[r] /\ seen[r] \in Final
                        /\ kind = "conflict" => operation # NoOperation /\ ~Own(r)
                        /\ kind = "busy" => ~reply[r].known
                        /\ kind \in Refusals => r \notin admitted
  BY DEF OutcomeIsTrue
<1>1. RequestInv(r) /\ CommandInv(r) /\ (operation # NoOperation <=> Exists)
  BY OperationExists DEF DeployInv
<1> QED
  BY <1>1 DEF RequestInv, CommandInv

\* Success, failure, a conflict, a refusal and work that goes on are what the deploy
\* command says they are, for every history of lost, late and repeated requests
\* (cli.py execute, completion.py wait_for_completion, publishing.py deploy).
THEOREM OutcomeStaysTrue == DeploySpec => []OutcomeIsTrue
<1>1. DeployInit => DeployInv
  BY DeployInitially
<1>2. DeployInv /\ [DeployNext]_deployVars => DeployInv'
  BY DeployPreserved
<1>3. DeployInv => OutcomeIsTrue
  BY DeployOutcomes
<1> QED
  BY <1>1, <1>2, <1>3, PTL DEF DeploySpec

(***************************************************************************)
(* Sign-in to an app, and what its owner shares.                           *)
(***************************************************************************)

Flow ==
  {NoFlow}
    \cup [stage : {"open", "expired"}, browser : Browsers, app : Apps]
    \cup [stage : {"pending", "late", "handed", "finished", "expired"},
          browser : Browsers, app : Apps, account : Users]
Session ==
  {NoSession} \cup [state : {"live", "expired"}, app : Apps, user : Users]
Cookie == {0} \cup Flows

AccessTypes ==
  /\ flows \in [Flows -> Flow]
  /\ sessions \in [Flows -> Session]
  /\ flowCookie \in [Browsers -> [Apps -> Cookie]]
  /\ cookie \in [Browsers -> [Apps -> Cookie]]
  /\ scope \in [Apps -> {"creator-only", "workspace-wide"}]
  /\ secrets \in [Apps -> [SecretNames -> {"none", "acknowledged", "unacknowledged"}]]

\* A flow cookie is at the browser and the app where its flow began.
FlowsAreOwn ==
  \A b \in Browsers, app \in Apps :
    LET f == flowCookie[b][app]
    IN  f # 0 => flows[f].stage # "none" /\ flows[f].browser = b /\ flows[f].app = app

\* A session cookie is of a flow that was finished there.
CookiesAreOwn ==
  \A b \in Browsers, app \in Apps :
    LET s == cookie[b][app]
    IN  s # 0 => flows[s].stage = "finished" /\ flows[s].browser = b /\ flows[s].app = app

\* A session has the account of its flow, which is bound from then on.
SessionsAreVouched ==
  \A f \in Flows :
    sessions[f].state # "none" =>
      flows[f].stage \notin {"none", "open", "pending", "late"} /\ sessions[f].user = flows[f].account

AccessInv ==
  /\ AccessTypes
  /\ FlowsAreOwn /\ CookiesAreOwn /\ SessionsAreVouched
  /\ SharedIsAcknowledged

-----------------------------------------------------------------------------

LEMMA AccessInitially == AccessInit => AccessInv
BY DEF AccessInit, AccessInv, AccessTypes, Flow, Session, Cookie, NoFlow, NoSession,
       FlowsAreOwn, CookiesAreOwn, SessionsAreVouched, SharedIsAcknowledged

LEMMA VisitPreserves ==
  ASSUME AccessInv, NEW b \in Browsers, NEW app \in Apps, Visit(b, app)
  PROVE  AccessInv'
<1>1. PICK f \in Flows :
        /\ flows[f] = NoFlow
        /\ flows' = [flows EXCEPT ![f] = [stage |-> "open", browser |-> b, app |-> app]]
        /\ flowCookie' = [flowCookie EXCEPT ![b][app] = f]
  BY DEF Visit
<1>2. UNCHANGED <<cookie, sessions, scope, secrets>>
  BY DEF Visit, sharingVars
<1>3. AccessTypes'
  BY <1>1, <1>2 DEF AccessInv, AccessTypes, Flow, Cookie
<1>4. flows[f].stage = "none"
  BY <1>1 DEF NoFlow
<1>5. FlowsAreOwn'
  BY <1>1, <1>4 DEF AccessInv, AccessTypes, FlowsAreOwn, Cookie
<1>6. CookiesAreOwn'
  BY <1>1, <1>2, <1>4 DEF AccessInv, AccessTypes, CookiesAreOwn, Cookie
<1>7. SessionsAreVouched'
  BY <1>1, <1>2, <1>4 DEF AccessInv, AccessTypes, SessionsAreVouched
<1> QED
  BY <1>2, <1>3, <1>5, <1>6, <1>7 DEF AccessInv, SharedIsAcknowledged

LEMMA CallbackPreserves ==
  ASSUME AccessInv, NEW f \in Flows, Callback(f)
  PROVE  AccessInv'
<1>1. PICK user \in Users :
        flows' = [flows EXCEPT ![f] = [stage |-> "pending", browser |-> flows[f].browser,
                                       app |-> flows[f].app, account |-> user]]
  BY DEF Callback, AccessInv, AccessTypes
<1>2. UNCHANGED <<flowCookie, cookie, sessions, scope, secrets>> /\ flows[f].stage = "open"
  BY DEF Callback, sharingVars
<1>3. flows[f].browser \in Browsers /\ flows[f].app \in Apps
  BY <1>2 DEF AccessInv, AccessTypes, Flow, NoFlow
<1>4. AccessTypes'
  BY <1>1, <1>2, <1>3 DEF AccessInv, AccessTypes, Flow
<1>5. FlowsAreOwn'
  BY <1>1, <1>2 DEF AccessInv, AccessTypes, FlowsAreOwn, Cookie
<1>6. CookiesAreOwn'
  BY <1>1, <1>2 DEF AccessInv, AccessTypes, CookiesAreOwn, Cookie
<1>7. SessionsAreVouched'
  BY <1>1, <1>2 DEF AccessInv, AccessTypes, SessionsAreVouched
<1> QED
  BY <1>2, <1>4, <1>5, <1>6, <1>7 DEF AccessInv, SharedIsAcknowledged

\* A step that changes no more of a flow than its stage.
LEMMA StageTypes ==
  ASSUME AccessTypes, NEW f \in Flows, flows[f].stage # "none",
         NEW to \in {"late", "handed", "finished", "expired"},
         to = "expired" \/ flows[f].stage \in {"pending", "late", "handed"},
         flows' = [flows EXCEPT ![f].stage = to]
  PROVE  /\ flows' \in [Flows -> Flow]
         /\ flows'[f].stage = to
         /\ flows'[f].browser = flows[f].browser /\ flows'[f].app = flows[f].app
         /\ flows[f].stage # "open" => flows'[f].account = flows[f].account
         /\ \A g \in Flows : g # f => flows'[g] = flows[g]
<1> DEFINE F == [flows[f] EXCEPT !.stage = to]
           Short == [stage : {"open", "expired"}, browser : Browsers, app : Apps]
           Long == [stage : {"pending", "late", "handed", "finished", "expired"},
                    browser : Browsers, app : Apps, account : Users]
<1>1. flows' = [flows EXCEPT ![f] = F]
  OBVIOUS
<1>2. flows[f] \in Short \cup Long
  BY DEF AccessTypes, Flow, NoFlow
<1>3. CASE flows[f] \in Short
  <2>1. to = "expired"
    BY <1>3
  <2>2. F = [stage |-> to, browser |-> flows[f].browser, app |-> flows[f].app]
    BY <1>3
  <2>3. F \in Short /\ F.stage = to
        /\ F.browser = flows[f].browser /\ F.app = flows[f].app
    BY <1>3, <2>1, <2>2
  <2> QED
    BY <1>1, <1>3, <2>1, <2>2, <2>3 DEF AccessTypes, Flow
<1>4. CASE flows[f] \in Long
  <2>1. F = [stage |-> to, browser |-> flows[f].browser, app |-> flows[f].app,
             account |-> flows[f].account]
    BY <1>4
  <2>2. F \in Long /\ F.stage = to /\ F.account = flows[f].account
        /\ F.browser = flows[f].browser /\ F.app = flows[f].app
    BY <1>4, <2>1
  <2> QED
    BY <1>1, <2>2 DEF AccessTypes, Flow
<1> QED
  BY <1>2, <1>3, <1>4

LEMMA IssuePreserves ==
  ASSUME AccessInv, NEW f \in Flows, Issue(f)
  PROVE  AccessInv'
<1>0. PICK to \in {"handed", "expired"} : flows' = [flows EXCEPT ![f].stage = to]
  BY DEF Issue
<1>1. /\ flows[f].stage \in {"pending", "late"}
      /\ sessions' = [sessions EXCEPT ![f] =
           [state |-> "live", app |-> flows[f].app, user |-> flows[f].account]]
      /\ UNCHANGED <<flowCookie, cookie, scope, secrets>>
  BY DEF Issue, sharingVars
<1>2. /\ flows' \in [Flows -> Flow] /\ flows'[f].stage = to
      /\ flows'[f].browser = flows[f].browser /\ flows'[f].app = flows[f].app
      /\ flows'[f].account = flows[f].account
      /\ \A g \in Flows : g # f => flows'[g] = flows[g]
  BY <1>0, <1>1, StageTypes DEF AccessInv
<1>3. flows[f].app \in Apps /\ flows[f].account \in Users
  <2>1. \/ flows[f] \in [stage : {"open", "expired"}, browser : Browsers, app : Apps]
        \/ flows[f] \in [stage : {"pending", "late", "handed", "finished", "expired"},
                         browser : Browsers, app : Apps, account : Users]
    BY <1>1 DEF AccessInv, AccessTypes, Flow, NoFlow
  <2> QED
    BY <1>1, <2>1
<1>4. AccessTypes'
  BY <1>1, <1>2, <1>3 DEF AccessInv, AccessTypes, Session
<1>5. FlowsAreOwn'
  BY <1>1, <1>2 DEF AccessInv, AccessTypes, FlowsAreOwn, Cookie
<1>6. CookiesAreOwn'
  BY <1>1, <1>2 DEF AccessInv, AccessTypes, CookiesAreOwn, Cookie
<1>7. SessionsAreVouched'
  BY <1>1, <1>2 DEF AccessInv, AccessTypes, SessionsAreVouched
<1> QED
  BY <1>1, <1>4, <1>5, <1>6, <1>7 DEF AccessInv, SharedIsAcknowledged

LEMMA FinishPreserves ==
  ASSUME AccessInv, NEW f \in Flows, NEW b \in Browsers, NEW app \in Apps, FinishSignIn(f, b, app)
  PROVE  AccessInv'
<1>1. /\ flows[f].stage = "handed" /\ flows[f].app = app /\ flowCookie[b][app] = f
      /\ flows' = [flows EXCEPT ![f].stage = "finished"]
      /\ cookie' = [cookie EXCEPT ![b][app] = f]
      /\ UNCHANGED <<flowCookie, sessions, scope, secrets>>
  BY DEF FinishSignIn, FinishesOwn, sharingVars
<1>2. /\ flows' \in [Flows -> Flow] /\ flows'[f].stage = "finished"
      /\ flows'[f].browser = flows[f].browser /\ flows'[f].app = flows[f].app
      /\ flows'[f].account = flows[f].account
      /\ \A g \in Flows : g # f => flows'[g] = flows[g]
  BY <1>1, StageTypes DEF AccessInv
<1>3. AccessTypes'
  BY <1>1, <1>2 DEF AccessInv, AccessTypes, Cookie
<1>4. f # 0
  BY DEF Flows
<1>5. flows[f].browser = b
  BY <1>1, <1>4 DEF AccessInv, FlowsAreOwn
<1>6. FlowsAreOwn'
  BY <1>1, <1>2 DEF AccessInv, AccessTypes, FlowsAreOwn, Cookie
<1>7. CookiesAreOwn'
  BY <1>1, <1>2, <1>5 DEF AccessInv, AccessTypes, CookiesAreOwn, Cookie
<1>8. SessionsAreVouched'
  BY <1>1, <1>2 DEF AccessInv, AccessTypes, SessionsAreVouched
<1> QED
  BY <1>1, <1>3, <1>6, <1>7, <1>8 DEF AccessInv, SharedIsAcknowledged

LEMMA FlowExpiresPreserves ==
  ASSUME AccessInv, NEW f \in Flows, FlowExpires(f)
  PROVE  AccessInv'
<1>0. PICK to \in {"late", "expired"} :
        /\ flows' = [flows EXCEPT ![f].stage = to]
        /\ to = "expired" \/ flows[f].stage = "pending"
  BY DEF FlowExpires
<1>1. /\ flows[f].stage \in {"open", "pending", "handed"}
      /\ UNCHANGED <<flowCookie, cookie, sessions, scope, secrets>>
  BY DEF FlowExpires, sharingVars
<1>2. /\ flows' \in [Flows -> Flow] /\ flows'[f].stage \in {"late", "expired"}
      /\ flows'[f].browser = flows[f].browser /\ flows'[f].app = flows[f].app
      /\ flows[f].stage # "open" => flows'[f].account = flows[f].account
      /\ flows[f].stage = "pending" \/ flows'[f].stage = "expired"
      /\ \A g \in Flows : g # f => flows'[g] = flows[g]
  BY <1>0, <1>1, StageTypes DEF AccessInv
<1>3. AccessTypes'
  BY <1>1, <1>2 DEF AccessInv, AccessTypes
<1>4. FlowsAreOwn'
  <2>1. ASSUME NEW b \in Browsers, NEW app \in Apps, flowCookie'[b][app] # 0
        PROVE  LET s == flowCookie'[b][app]
               IN  flows'[s].stage # "none" /\ flows'[s].browser = b /\ flows'[s].app = app
    <3>1. flowCookie[b][app] # 0 /\ flowCookie'[b][app] = flowCookie[b][app]
      BY <1>1, <2>1
    <3>2. PICK g \in Flows : g = flowCookie[b][app]
      BY <3>1 DEF AccessInv, AccessTypes, Cookie
    <3>3. flows[g].stage # "none" /\ flows[g].browser = b /\ flows[g].app = app
      BY <3>1, <3>2 DEF AccessInv, FlowsAreOwn
    <3> QED
      BY <1>1, <1>2, <3>1, <3>2, <3>3
  <2> QED
    BY <2>1 DEF FlowsAreOwn
<1>5. CookiesAreOwn'
  <2>1. ASSUME NEW b \in Browsers, NEW app \in Apps, cookie'[b][app] # 0
        PROVE  LET s == cookie'[b][app]
               IN  flows'[s].stage = "finished" /\ flows'[s].browser = b /\ flows'[s].app = app
    <3>1. cookie[b][app] # 0 /\ cookie'[b][app] = cookie[b][app]
      BY <1>1, <2>1
    <3>2. PICK g \in Flows : g = cookie[b][app]
      BY <3>1 DEF AccessInv, AccessTypes, Cookie
    <3>3. flows[g].stage = "finished" /\ flows[g].browser = b /\ flows[g].app = app
      BY <3>1, <3>2 DEF AccessInv, CookiesAreOwn
    <3> QED
      BY <1>1, <1>2, <3>1, <3>2, <3>3
  <2> QED
    BY <2>1 DEF CookiesAreOwn
<1>6. SessionsAreVouched'
  BY <1>1, <1>2 DEF AccessInv, AccessTypes, SessionsAreVouched
<1> QED
  BY <1>1, <1>3, <1>4, <1>5, <1>6 DEF AccessInv, SharedIsAcknowledged

LEMMA SessionExpiresPreserves ==
  ASSUME AccessInv, NEW f \in Flows, SessionExpires(f)
  PROVE  AccessInv'
<1>1. /\ sessions[f].state = "live"
      /\ sessions' = [sessions EXCEPT ![f].state = "expired"]
      /\ UNCHANGED <<flows, flowCookie, cookie, scope, secrets>>
  BY DEF SessionExpires, sharingVars
<1>2. sessions[f] \in [state : {"live", "expired"}, app : Apps, user : Users]
  BY <1>1 DEF AccessInv, AccessTypes, Session, NoSession
<1>3. AccessTypes' /\ sessions'[f].user = sessions[f].user
  BY <1>1, <1>2 DEF AccessInv, AccessTypes, Session
<1>4. \A g \in Flows : g # f => sessions'[g] = sessions[g]
  BY <1>1 DEF AccessInv, AccessTypes
<1>5. SessionsAreVouched'
  BY <1>1, <1>3, <1>4 DEF AccessInv, SessionsAreVouched
<1> QED
  BY <1>1, <1>3, <1>5 DEF AccessInv, FlowsAreOwn, CookiesAreOwn, SharedIsAcknowledged

LEMMA SharePreserves ==
  ASSUME AccessInv, NEW app \in Apps, NEW to \in {"creator-only", "workspace-wide"},
         NEW acknowledged \in BOOLEAN, Share(app, to, acknowledged)
  PROVE  AccessInv'
<1>1. UNCHANGED <<flows, flowCookie, cookie, sessions>>
  BY DEF Share, signInVars
<1>2. scope' = [scope EXCEPT ![app] = to]
  BY DEF Share
<1>3. secrets' = [secrets EXCEPT ![app] =
        [n \in SecretNames |-> IF secrets[app][n] # "none" /\ acknowledged
                               THEN "acknowledged" ELSE secrets[app][n]]]
  BY DEF Share, AccessInv, AccessTypes
<1>4. AccessTypes'
  BY <1>1, <1>2, <1>3 DEF AccessInv, AccessTypes
<1>5. SharedIsAcknowledged'
  <2> SUFFICES ASSUME NEW a \in Apps, NEW n \in SecretNames, scope'[a] = "workspace-wide"
               PROVE  secrets'[a][n] \in {"none", "acknowledged"}
    BY DEF SharedIsAcknowledged
  <2>1. CASE a # app
    BY <1>2, <1>3, <2>1 DEF AccessInv, AccessTypes, SharedIsAcknowledged
  <2>2. CASE a = app
    <3>1. to = "workspace-wide" /\ (HasSecrets(app) => acknowledged)
      BY <1>2, <2>2 DEF Share, AccessInv, AccessTypes
    <3>2. secrets[app][n] # "none" => acknowledged
      BY <3>1 DEF HasSecrets
    <3> QED
      BY <1>3, <2>2, <3>2 DEF AccessInv, AccessTypes
  <2> QED
    BY <2>1, <2>2
<1> QED
  BY <1>1, <1>4, <1>5 DEF AccessInv, FlowsAreOwn, CookiesAreOwn, SessionsAreVouched

LEMMA SecretPreserves ==
  ASSUME AccessInv, NEW app \in Apps, NEW n \in SecretNames, NEW acknowledged \in BOOLEAN,
         SetSecret(app, n, acknowledged) \/ DeleteSecret(app, n)
  PROVE  AccessInv'
<1>1. UNCHANGED <<flows, flowCookie, cookie, sessions, scope>>
  BY DEF SetSecret, DeleteSecret, signInVars
<1>2. PICK value \in {"none", "acknowledged", "unacknowledged"} :
        /\ secrets' = [secrets EXCEPT ![app][n] = value]
        /\ scope[app] = "workspace-wide" => value # "unacknowledged"
  BY DEF SetSecret, DeleteSecret, MaySet
<1>3. AccessTypes'
  BY <1>1, <1>2 DEF AccessInv, AccessTypes
<1>4. SharedIsAcknowledged'
  BY <1>1, <1>2 DEF AccessInv, AccessTypes, SharedIsAcknowledged
<1> QED
  BY <1>1, <1>3, <1>4 DEF AccessInv, FlowsAreOwn, CookiesAreOwn, SessionsAreVouched

LEMMA AccessPreserved == AccessInv /\ [AccessNext]_accessVars => AccessInv'
<1> SUFFICES ASSUME AccessInv, [AccessNext]_accessVars
             PROVE  AccessInv'
  OBVIOUS
<1>1. ASSUME NEW b \in Browsers, NEW app \in Apps, Visit(b, app)
      PROVE  AccessInv'
  BY <1>1, VisitPreserves
<1>2. ASSUME NEW f \in Flows,
             Callback(f) \/ Issue(f) \/ FlowExpires(f) \/ SessionExpires(f)
      PROVE  AccessInv'
  BY <1>2, CallbackPreserves, IssuePreserves, FlowExpiresPreserves, SessionExpiresPreserves
<1>3. ASSUME NEW f \in Flows, NEW b \in Browsers, NEW app \in Apps, FinishSignIn(f, b, app)
      PROVE  AccessInv'
  BY <1>3, FinishPreserves
<1>4. ASSUME NEW app \in Apps, NEW acknowledged \in BOOLEAN,
             NEW to \in {"creator-only", "workspace-wide"}, Share(app, to, acknowledged)
      PROVE  AccessInv'
  BY <1>4, SharePreserves
<1>5. ASSUME NEW app \in Apps, NEW acknowledged \in BOOLEAN, NEW n \in SecretNames,
             SetSecret(app, n, acknowledged) \/ DeleteSecret(app, n)
      PROVE  AccessInv'
  BY <1>5, SecretPreserves
<1>6. CASE UNCHANGED accessVars
  BY <1>6 DEF accessVars, signInVars, sharingVars, AccessInv, AccessTypes, FlowsAreOwn,
              CookiesAreOwn, SessionsAreVouched, SharedIsAcknowledged
<1> QED
  BY <1>1, <1>2, <1>3, <1>4, <1>5, <1>6 DEF AccessNext

LEMMA AccessIsMeant == AccessInv => AuthorityIsMeant
<1> SUFFICES ASSUME AccessInv
             PROVE  SessionsAreOwn /\ SharedIsAcknowledged
  BY DEF AuthorityIsMeant
<1> SUFFICES ASSUME NEW b \in Browsers, NEW app \in Apps, SignedIn(b, app)
             PROVE  LET s == cookie[b][app]
                    IN  /\ flows[s].browser = b /\ flows[s].app = app
                        /\ sessions[s].user = flows[s].account
                        /\ \A c \in Browsers, other \in Apps :
                             cookie[c][other] = s => c = b /\ other = app
  BY DEF AccessInv, SessionsAreOwn
<1>1. cookie[b][app] # 0 /\ cookie[b][app] \in Flows
      /\ sessions[cookie[b][app]].state = "live"
  BY DEF SignedIn, AccessInv, AccessTypes, Cookie
<1> QED
  BY <1>1 DEF AccessInv, CookiesAreOwn, SessionsAreVouched

\* A browser's session at an app is of a sign-in that it began there and of the account
\* that Google vouched for, and members only use secret values whose sharing the owner
\* acknowledged (gateway.py callback and route, publishing.py share, app_secrets.py change).
THEOREM AuthorityIsKept == AccessSpec => []AuthorityIsMeant
<1>1. AccessInit => AccessInv
  BY AccessInitially
<1>2. AccessInv /\ [AccessNext]_accessVars => AccessInv'
  BY AccessPreserved
<1>3. AccessInv => AuthorityIsMeant
  BY AccessIsMeant
<1> QED
  BY <1>1, <1>2, <1>3, PTL DEF AccessSpec

(***************************************************************************)
(* The runtime log.                                                        *)
(***************************************************************************)

\* A record of the log takes some bytes.
LogRecord == [id : Nat, line : Nat, size : Nat \ {0}, cut : Nat]
SizesOf(recs) == [i \in 1..Len(recs) |-> recs[i].size]

\* A nonempty set of positions has a last one.
LEMMA LastPosition ==
  ASSUME NEW n \in Nat, NEW s \in SUBSET (1..n), s # {}
  PROVE  Max(s) \in s
<1>1. PICK T : T = {n - x : x \in s}
  OBVIOUS
<1>2. PICK m \in T : \A k \in T : m <= k
  <2>1. \A x \in s : n - x \in Nat
    OBVIOUS
  <2>2. T \in SUBSET Nat /\ T # {}
    BY <1>1, <2>1
  <2> QED
    BY <2>2, LeastNumber
<1>3. PICK x \in s : m = n - x
  BY <1>1, <1>2
<1>4. ASSUME NEW y \in s PROVE x >= y
  <2>1. n - x <= n - y
    BY <1>1, <1>2, <1>3
  <2> QED
    BY <2>1
<1> QED
  BY <1>4 DEF Max

\* SizeOf is the sum of the sizes.
LEMMA SizeIsSum ==
  ASSUME NEW recs \in Seq(LogRecord)
  PROVE  /\ SizesOf(recs) \in [1..Len(recs) -> Nat \ {0}] /\ SizesOf(recs) \in [1..Len(recs) -> Int]
         /\ SizesOf(recs) \in [1..Len(recs) -> Nat]
         /\ IsFiniteSet(1..Len(recs)) /\ Len(recs) \in Nat
         /\ \E g : IsSum(g, SizesOf(recs), 1..Len(recs)) /\ SizeOf(recs) = g[1..Len(recs)]
<1> DEFINE S == 1..Len(recs)
           d == SizesOf(recs)
           c == [s \in SUBSET S |-> Max(s)]
           folding(g) == [s \in SUBSET S |->
             IF s = {} THEN 0 ELSE LET x == Max(s) IN g[s \ {x}] + recs[x].size]
           iter == CHOOSE g : g = folding(g)
<1>1. /\ d \in [S -> Nat \ {0}] /\ d \in [S -> Int] /\ d \in [S -> Nat]
      /\ \A i \in S : d[i] = recs[i].size
      /\ IsFiniteSet(S) /\ Len(recs) \in Nat
  <2>1. \A i \in S : recs[i] \in LogRecord
    OBVIOUS
  <2>2. \A i \in S : recs[i].size \in Nat \ {0}
    BY <2>1 DEF LogRecord
  <2>3. IsFiniteSet(S)
    BY FS_Interval
  <2> QED
    BY <2>2, <2>3 DEF SizesOf
<1>2. Chooses(c, S)
  BY <1>1, LastPosition DEF Chooses
<1>3. SizeOf(recs) = iter[S]
  <2>1. DOMAIN recs = S
    OBVIOUS
  <2> QED
    BY <2>1 DEF SizeOf, FoldLeft, MapThenFoldSet
<1>4. ASSUME NEW g, \A s \in SUBSET S : g[s] \in Int
      PROVE  folding(g) = Unfold(d, c, S, g)
  <2>1. ASSUME NEW s \in SUBSET S, s # {}
        PROVE  g[s \ {Max(s)}] + recs[Max(s)].size = d[c[s]] + g[s \ {c[s]}]
    <3>1. PICK x : x = Max(s)
      OBVIOUS
    <3>2. x \in s /\ c[s] = x
      BY <2>1, <3>1, LastPosition, <1>1
    <3>3. s \ {x} \in SUBSET S /\ d[x] = recs[x].size /\ d[x] \in Int
      BY <1>1, <3>2
    <3>4. g[s \ {x}] \in Int
      BY <1>4, <3>3
    <3> HIDE DEF d, c
    <3> QED
      BY <3>1, <3>2, <3>3, <3>4
  <2> HIDE DEF d, c
  <2> QED
    BY <2>1 DEF Unfold
<1>5. PICK g : g = Unfold(d, c, S, g) /\ IsSum(g, d, S)
  <2> HIDE DEF d, c, S
  <2> QED
    BY <1>1, <1>2, UnfoldExists, UnfoldSums
<1>6. g = folding(g)
  <2>1. \A s \in SUBSET S : g[s] \in Int
    BY <1>5 DEF IsSum
  <2> HIDE DEF d, c, S, folding
  <2> QED
    BY <1>4, <1>5, <2>1
<1>7. iter = folding(iter)
  <2> HIDE DEF folding
  <2> QED
    BY <1>6
<1>8. ASSUME NEW s \in SUBSET S PROVE iter[s] \in Int
  <2> DEFINE Bad == {t \in SUBSET S : iter[t] \notin Int}
  <2> SUFFICES ASSUME Bad # {} PROVE FALSE
    OBVIOUS
  <2>1. PICK t \in Bad : \A x \in t : t \ {x} \notin Bad
    BY <1>1, LeastPart
  <2>2. PICK h : h = iter
    OBVIOUS
  <2>3. h = folding(h)
    <3> HIDE DEF folding, iter
    <3> QED
      BY <1>7, <2>2
  <2>4. h[t] = IF t = {} THEN 0 ELSE h[t \ {Max(t)}] + recs[Max(t)].size
    <3>1. t \in SUBSET S
      BY <2>1
    <3> QED
      BY <2>3, <3>1
  <2>5. t # {}
    BY <2>1, <2>2, <2>4
  <2>6. PICK x \in t : x = Max(t)
    BY <2>1, <2>5, <1>1, LastPosition
  <2>7. h[t \ {x}] \in Int
    BY <2>1, <2>2, <2>6
  <2>8. recs[x].size \in Int
    BY <1>1, <2>1, <2>6
  <2> QED
    BY <2>1, <2>2, <2>4, <2>5, <2>6, <2>7, <2>8
<1>9. PICK h : h = iter
  OBVIOUS
<1>10. h = Unfold(d, c, S, h)
  <2> HIDE DEF folding, iter, d, c, S
  <2> QED
    BY <1>4, <1>7, <1>8, <1>9
<1>11. IsSum(h, d, S)
  <2> HIDE DEF iter, d, c, S
  <2> QED
    BY <1>1, <1>2, <1>10, UnfoldSums
<1> QED
  BY <1>1, <1>3, <1>9, <1>11

\* No records take nothing.
LEMMA SizeOfNone == SizeOf(<<>>) = 0
<1>1. <<>> \in Seq(LogRecord) /\ 1..Len(<<>>) = {}
  OBVIOUS
<1> QED
  BY <1>1, SizeIsSum DEF IsSum

\* What one record takes.
LEMMA SizeOfOne ==
  ASSUME NEW r \in LogRecord
  PROVE  SizeOf(<<r>>) = r.size
<1>1. <<r>> \in Seq(LogRecord) /\ Len(<<r>>) = 1 /\ 1..1 = {1}
  OBVIOUS
<1>2. PICK g : IsSum(g, SizesOf(<<r>>), {1}) /\ SizeOf(<<r>>) = g[{1}]
  BY <1>1, SizeIsSum
<1>3. g[{1}] = SizesOf(<<r>>)[1] + 0
  <2>1. PICK s \in SUBSET {1} : s = {1} \ {1}
    OBVIOUS
  <2>2. g[{1}] = SizesOf(<<r>>)[1] + g[s] /\ g[s] = 0
    BY <1>2, <2>1 DEF IsSum
  <2> QED
    BY <2>2
<1>4. SizesOf(<<r>>)[1] = r.size /\ r.size \in Int
  BY <1>1 DEF SizesOf, LogRecord
<1> QED
  BY <1>2, <1>3, <1>4

\* Every record takes some of what all take.
LEMMA SizeOfSome ==
  ASSUME NEW recs \in Seq(LogRecord)
  PROVE  /\ SizeOf(recs) \in Nat
         /\ recs # <<>> => SizeOf(recs) > 0
<1>1. PICK g : IsSum(g, SizesOf(recs), 1..Len(recs)) /\ SizeOf(recs) = g[1..Len(recs)]
  BY SizeIsSum
<1>2. g[1..Len(recs)] \in Nat /\ \A i \in 1..Len(recs) : SizesOf(recs)[i] <= g[1..Len(recs)]
  BY <1>1, SizeIsSum, SumOfNaturals
<1>3. ASSUME recs # <<>> PROVE SizeOf(recs) > 0
  <2>1. 1 \in 1..Len(recs)
    BY <1>3
  <2>2. SizesOf(recs)[1] \in Nat \ {0} /\ SizesOf(recs)[1] <= g[1..Len(recs)]
    BY <1>2, <2>1, SizeIsSum
  <2> QED
    BY <1>1, <1>2, <2>2
<1> QED
  BY <1>1, <1>2, <1>3

\* Two logs, one after the other.
LEMMA SizeOfBoth ==
  ASSUME NEW s \in Seq(LogRecord), NEW t \in Seq(LogRecord)
  PROVE  SizeOf(s \o t) = SizeOf(s) + SizeOf(t)
<1>1. PICK u \in Seq(LogRecord) : u = s \o t
  BY ConcatProperties
<1>2. /\ Len(s) \in Nat /\ Len(t) \in Nat /\ Len(u) = Len(s) + Len(t)
      /\ \A i \in 1..Len(s) : u[i] = s[i] /\ i \in 1..Len(u)
      /\ \A i \in 1..Len(t) : u[Len(s) + i] = t[i] /\ Len(s) + i \in 1..Len(u)
  BY <1>1
<1>3. /\ \A i \in 1..Len(s) : SizesOf(u)[i] = SizesOf(s)[i]
      /\ \A i \in 1..Len(t) : SizesOf(u)[Len(s) + i] = SizesOf(t)[i]
  BY <1>2 DEF SizesOf
<1>4. PICK g : IsSum(g, SizesOf(s), 1..Len(s)) /\ SizeOf(s) = g[1..Len(s)]
  BY SizeIsSum
<1>5. PICK h : IsSum(h, SizesOf(t), 1..Len(t)) /\ SizeOf(t) = h[1..Len(t)]
  BY SizeIsSum
<1>6. PICK j : IsSum(j, SizesOf(u), 1..(Len(s) + Len(t))) /\ SizeOf(u) = j[1..(Len(s) + Len(t))]
  BY <1>2, SizeIsSum
<1>7. /\ SizesOf(s) \in [1..Len(s) -> Int] /\ SizesOf(t) \in [1..Len(t) -> Int]
      /\ SizesOf(u) \in [1..(Len(s) + Len(t)) -> Int]
  BY <1>2, SizeIsSum
<1>8. Joins(SizesOf(u), SizesOf(s), SizesOf(t), Len(s), Len(t))
  BY <1>3, <1>7 DEF Joins
<1>9. j[1..(Len(s) + Len(t))] = g[1..Len(s)] + h[1..Len(t)]
  BY <1>2, <1>4, <1>5, <1>6, <1>8, SumOfJoined
<1> QED
  BY <1>1, <1>4, <1>5, <1>6, <1>9

\* The first n records and the others.
LEMMA SizeSplits ==
  ASSUME NEW recs \in Seq(LogRecord), NEW n \in 0..Len(recs)
  PROVE  /\ SubSeq(recs, 1, n) \in Seq(LogRecord) /\ SubSeq(recs, n + 1, Len(recs)) \in Seq(LogRecord)
         /\ SizeOf(recs) = SizeOf(SubSeq(recs, 1, n)) + SizeOf(SubSeq(recs, n + 1, Len(recs)))
<1>1. SubSeq(recs, 1, n) \in Seq(LogRecord) /\ SubSeq(recs, n + 1, Len(recs)) \in Seq(LogRecord)
  OBVIOUS
<1>2. recs = SubSeq(recs, 1, n) \o SubSeq(recs, n + 1, Len(recs))
  <2>1. PICK s, t \in Seq(LogRecord) : s = SubSeq(recs, 1, n) /\ t = SubSeq(recs, n + 1, Len(recs))
    BY <1>1
  <2>2. Len(s) = n /\ Len(t) = Len(recs) - n /\ n \in Nat /\ Len(recs) \in Nat
    BY <2>1
  <2>3. ASSUME NEW i \in 1..n PROVE (s \o t)[i] = recs[i]
    <3>1. (s \o t)[i] = s[i]
      BY <2>2
    <3>2. s[i] = recs[i]
      BY <2>1, <2>2
    <3> QED
      BY <3>1, <3>2
  <2>4. ASSUME NEW i \in (n + 1)..Len(recs) PROVE (s \o t)[i] = recs[i]
    <3>1. i - n \in 1..Len(t) /\ (s \o t)[i] = t[i - n]
      BY <2>2
    <3>2. t[i - n] = recs[(n + 1) + (i - n) - 1] /\ (n + 1) + (i - n) - 1 = i
      BY <2>1, <2>2, <3>1
    <3> QED
      BY <3>1, <3>2
  <2>5. ASSUME NEW i \in 1..Len(recs) PROVE (s \o t)[i] = recs[i]
    <3>1. i \in 1..n \/ i \in (n + 1)..Len(recs)
      OBVIOUS
    <3> QED
      BY <2>3, <2>4, <3>1
  <2>6. s \o t \in Seq(LogRecord) /\ Len(s \o t) = Len(recs)
    BY <2>2
  <2> QED
    BY <2>1, <2>5, <2>6, SeqEqual
<1> QED
  BY <1>1, <1>2, SizeOfBoth

\* One more record.
LEMMA SizeGrows ==
  ASSUME NEW recs \in Seq(LogRecord), NEW r \in LogRecord
  PROVE  Append(recs, r) \in Seq(LogRecord) /\ SizeOf(Append(recs, r)) = SizeOf(recs) + r.size
<1>1. Append(recs, r) = recs \o <<r>> /\ <<r>> \in Seq(LogRecord) /\ Append(recs, r) \in Seq(LogRecord)
  OBVIOUS
<1> QED
  BY <1>1, SizeOfBoth, SizeOfOne

\* The same records in another order.
LEMMA SizeOfSame ==
  ASSUME NEW s \in Seq(LogRecord), NEW t \in Seq(LogRecord), ToSet(s) = ToSet(t),
         \A i, j \in DOMAIN s : s[i] = s[j] => i = j,
         \A i, j \in DOMAIN t : t[i] = t[j] => i = j
  PROVE  SizeOf(s) = SizeOf(t)
<1>1. ASSUME NEW i \in 1..Len(s) PROVE \E j \in 1..Len(t) : t[j] = s[i]
  <2>1. s[i] \in ToSet(s)
    BY DEF ToSet
  <2>2. s[i] \in ToSet(t)
    BY <2>1
  <2> QED
    BY <2>2 DEF ToSet
<1>2. ASSUME NEW j \in 1..Len(t) PROVE \E i \in 1..Len(s) : t[j] = s[i]
  <2>1. t[j] \in ToSet(t)
    BY DEF ToSet
  <2>2. t[j] \in ToSet(s)
    BY <2>1
  <2> QED
    BY <2>2 DEF ToSet
<1>3. PICK f \in [1..Len(s) -> 1..Len(t)] : \A i \in 1..Len(s) : t[f[i]] = s[i]
  <2>1. PICK f : f = [i \in 1..Len(s) |-> CHOOSE j \in 1..Len(t) : t[j] = s[i]]
    OBVIOUS
  <2>2. f \in [1..Len(s) -> 1..Len(t)] /\ \A i \in 1..Len(s) : t[f[i]] = s[i]
    BY <1>1, <2>1
  <2> QED
    BY <2>2
<1>4. \A x, y \in 1..Len(s) : f[x] = f[y] => x = y
  BY <1>3
<1>5. Images(f, 1..Len(s)) = 1..Len(t)
  <2>1. ASSUME NEW j \in 1..Len(t) PROVE \E i \in 1..Len(s) : f[i] = j
    <3>1. PICK i \in 1..Len(s) : t[j] = s[i]
      BY <1>2
    <3> QED
      BY <1>3, <3>1
  <2> QED
    BY SMTT(60), <1>3, <2>1 DEF Images
<1>6. Renames(f, 1..Len(s), 1..Len(t), SizesOf(s), SizesOf(t))
  BY <1>3, <1>4 DEF SizesOf, Renames
<1>7. PICK g : IsSum(g, SizesOf(s), 1..Len(s)) /\ SizeOf(s) = g[1..Len(s)]
  BY SizeIsSum
<1>8. PICK h : IsSum(h, SizesOf(t), 1..Len(t)) /\ SizeOf(t) = h[1..Len(t)]
  BY SizeIsSum
<1>9. IsFiniteSet(1..Len(s))
  BY SizeIsSum
<1>10. g[1..Len(s)] = h[Images(f, 1..Len(s))]
  BY <1>6, <1>7, <1>8, <1>9, SumReindex
<1> QED
  BY <1>5, <1>7, <1>8, <1>10

-----------------------------------------------------------------------------

\* What is left when k of the records are gone.
Rest(all, k) == SubSeq(all, k + 1, Len(all))
Cropped(all, k) == SubSeq(all, 1, k)

LEMMA RestIs ==
  ASSUME NEW all \in Seq(LogRecord), NEW k \in 0..Len(all)
  PROVE  /\ Rest(all, k) \in Seq(LogRecord) /\ Len(Rest(all, k)) = Len(all) - k
         /\ \A i \in 1..(Len(all) - k) : Rest(all, k)[i] = all[k + i]
         /\ Cropped(all, k) \in Seq(LogRecord) /\ Len(Cropped(all, k)) = k
         /\ \A i \in 1..k : Cropped(all, k)[i] = all[i]
         /\ SizeOf(all) = SizeOf(Cropped(all, k)) + SizeOf(Rest(all, k))
         /\ SizeOf(all) \in Nat /\ SizeOf(Cropped(all, k)) \in Nat /\ SizeOf(Rest(all, k)) \in Nat
         /\ SizeOf(Cropped(all, k)) = 0 => k = 0
<1>1. /\ Rest(all, k) \in Seq(LogRecord) /\ Len(Rest(all, k)) = Len(all) - k
      /\ \A i \in 1..(Len(all) - k) : Rest(all, k)[i] = all[k + i]
  BY DEF Rest
<1>2. /\ Cropped(all, k) \in Seq(LogRecord) /\ Len(Cropped(all, k)) = k
      /\ \A i \in 1..k : Cropped(all, k)[i] = all[i]
  BY DEF Cropped
<1>3. SizeOf(all) = SizeOf(Cropped(all, k)) + SizeOf(Rest(all, k))
  BY SizeSplits DEF Cropped, Rest
<1>4. /\ SizeOf(all) \in Nat /\ SizeOf(Cropped(all, k)) \in Nat /\ SizeOf(Rest(all, k)) \in Nat
  BY <1>1, <1>2, SizeOfSome
<1>5. ASSUME k # 0 PROVE SizeOf(Cropped(all, k)) > 0
  BY <1>2, <1>5, SizeOfSome
<1> QED
  BY <1>1, <1>2, <1>3, <1>4, <1>5

LEMMA RestOfRest ==
  ASSUME NEW all \in Seq(LogRecord), NEW k \in 0..Len(all), NEW n \in 0..(Len(all) - k)
  PROVE  /\ Rest(Rest(all, k), n) = Rest(all, k + n) /\ k + n \in 0..Len(all)
         /\ SizeOf(Cropped(all, k + n)) = SizeOf(Cropped(all, k)) + SizeOf(Cropped(Rest(all, k), n))
<1>1. PICK r \in Seq(LogRecord) : r = Rest(all, k) /\ Len(r) = Len(all) - k
  BY RestIs
<1>2. k + n \in 0..Len(all) /\ n \in 0..Len(r) /\ Len(r) - n = Len(all) - (k + n) /\ Len(all) \in Nat
  <2>1. Len(all) \in Nat
    OBVIOUS
  <2>2. PICK m \in Nat : m = Len(all)
    BY <2>1
  <2>3. Len(r) = m - k /\ k \in 0..m /\ n \in 0..(m - k)
    BY <1>1, <2>2
  <2> QED
    BY <2>2, <2>3
<1>3. PICK m \in Nat : m = Len(r) - n
  <2>1. Len(r) \in Nat /\ n \in 0..Len(r)
    BY <1>2
  <2> QED
    BY SMTT(60), <2>1
<1>4. PICK s \in Seq(LogRecord) : s = Rest(r, n) /\ Len(s) = m /\ \A i \in 1..m : s[i] = r[n + i]
  BY <1>2, <1>3, RestIs
<1>5. PICK t \in Seq(LogRecord) :
        t = Rest(all, k + n) /\ Len(t) = m /\ \A i \in 1..m : t[i] = all[(k + n) + i]
  <2>1. PICK j \in 0..Len(all) : j = k + n
    BY <1>2
  <2>2. /\ Rest(all, j) \in Seq(LogRecord) /\ Len(Rest(all, j)) = Len(all) - j
        /\ \A i \in 1..(Len(all) - j) : Rest(all, j)[i] = all[j + i]
    BY RestIs
  <2>3. Len(all) - j = m
    BY <1>2, <1>3, <2>1
  <2> QED
    BY <2>1, <2>2, <2>3
<1>6. \A i \in 1..m : r[n + i] = all[(k + n) + i]
  <2>1. \A i \in 1..(Len(all) - k) : r[i] = all[k + i]
    BY <1>1, RestIs
  <2>2. ASSUME NEW i \in 1..m PROVE n + i \in 1..(Len(all) - k) /\ k + (n + i) = (k + n) + i
    BY <1>2, <1>3
  <2> QED
    BY <2>1, <2>2
<1>7. s = t
  <2>1. Len(s) = Len(t)
    BY <1>4, <1>5
  <2>2. ASSUME NEW i \in 1..Len(s) PROVE s[i] = t[i]
    BY <1>4, <1>5, <1>6
  <2> QED
    BY <2>1, <2>2, SeqEqual
<1>8. /\ SizeOf(all) = SizeOf(Cropped(all, k)) + SizeOf(r)
      /\ SizeOf(r) = SizeOf(Cropped(r, n)) + SizeOf(s)
      /\ SizeOf(all) = SizeOf(Cropped(all, k + n)) + SizeOf(t)
      /\ SizeOf(Cropped(all, k)) \in Nat /\ SizeOf(Cropped(r, n)) \in Nat
      /\ SizeOf(Cropped(all, k + n)) \in Nat /\ SizeOf(s) \in Nat
  <2>1. /\ SizeOf(all) = SizeOf(Cropped(all, k)) + SizeOf(Rest(all, k))
        /\ SizeOf(Cropped(all, k)) \in Nat
    BY RestIs
  <2>2. /\ SizeOf(r) = SizeOf(Cropped(r, n)) + SizeOf(Rest(r, n))
        /\ SizeOf(Cropped(r, n)) \in Nat /\ SizeOf(Rest(r, n)) \in Nat
    BY <1>2, RestIs
  <2>3. /\ SizeOf(all) = SizeOf(Cropped(all, k + n)) + SizeOf(Rest(all, k + n))
        /\ SizeOf(Cropped(all, k + n)) \in Nat
    BY <1>2, RestIs
  <2> QED
    BY <1>1, <1>4, <1>5, <2>1, <2>2, <2>3
<1>9. SizeOf(Cropped(all, k + n)) = SizeOf(Cropped(all, k)) + SizeOf(Cropped(r, n))
  <2>1. SizeOf(s) = SizeOf(t)
    BY <1>7
  <2>2. PICK w : w = SizeOf(s) /\ w = SizeOf(t)
    BY <2>1
  <2> QED
    BY SMTT(60), <1>8, <2>2
<1> QED
  BY <1>1, <1>2, <1>4, <1>5, <1>7, <1>9

(***************************************************************************)
(* The stream.                                                             *)
(***************************************************************************)

StreamTypes ==
  /\ records \in Seq(LogRecord) /\ lastId \in Nat /\ aged \in 0..Len(records)
  /\ retained \in Nat /\ dropped \in Nat /\ interrupted \in Nat

\* Of these records the first k go, and lost bytes of the last one.
Cut(all, k, lost) ==
  /\ records' = Rest(all, k) /\ aged' = 0
  /\ dropped' = dropped + lost + SizeOf(Cropped(all, k))
  /\ retained' = SizeOf(records') /\ retained' <= Volume

\* Pruning cuts what is a week old.
LEMMA PrunedCuts ==
  ASSUME StreamTypes, VolumeBound, Pruned
  PROVE  Cut(records, aged, 0) /\ Kept = Rest(records, aged)
<1>1. Kept = Rest(records, aged) /\ AgedSize = SizeOf(Cropped(records, aged))
  BY DEF Kept, AgedSize, Rest, Cropped
<1>2. /\ SizeOf(records) = SizeOf(Cropped(records, aged)) + SizeOf(Rest(records, aged))
      /\ SizeOf(Cropped(records, aged)) \in Nat /\ SizeOf(Rest(records, aged)) \in Nat
  BY RestIs DEF StreamTypes
<1>3. /\ records' = Rest(records, aged) /\ aged' = 0
      /\ retained' = retained - SizeOf(Cropped(records, aged))
      /\ dropped' = dropped + SizeOf(Cropped(records, aged))
  BY <1>1 DEF Pruned
<1>4. retained = SizeOf(records) /\ retained <= Volume /\ Volume \in Nat /\ dropped \in Nat
  BY LogAssumption DEF VolumeBound, StreamTypes
<1>5. retained' = SizeOf(records') /\ retained' <= Volume
  BY <1>2, <1>3, <1>4
<1>6. dropped' = dropped + 0 + SizeOf(Cropped(records, aged))
  BY <1>2, <1>3, <1>4
<1> QED
  BY <1>1, <1>3, <1>5, <1>6 DEF Cut

\* There is room when enough of the oldest are gone.
LEMMA RoomIsMade ==
  ASSUME NEW recs \in Seq(LogRecord), NEW total, total = SizeOf(recs)
  PROVE  /\ Evicted(recs, total) \in 0..Len(recs)
         /\ SizeOf(Rest(recs, Evicted(recs, total))) <= Volume
<1> DEFINE Enough(n) == total - SizeOf(SubSeq(recs, 1, n)) <= Volume
           T == {n \in 0..Len(recs) : Enough(n)}
<1>1. Len(recs) \in T
  <2>1. Len(recs) \in Nat /\ SubSeq(recs, 1, Len(recs)) = recs
    BY SubSeqFull
  <2>2. total - SizeOf(recs) <= Volume
    BY SizeOfSome, LogAssumption
  <2>3. Len(recs) \in 0..Len(recs)
    BY <2>1
  <2>4. Enough(Len(recs))
    BY <2>1, <2>2
  <2> QED
    BY <2>3, <2>4
<1>2. PICK n \in T : \A m \in T : n <= m
  <2>1. T \in SUBSET Nat
    OBVIOUS
  <2> HIDE DEF T
  <2> QED
    BY <1>1, <2>1, LeastNumber
<1>3. \A m \in 0..n - 1 : ~(total - SizeOf(SubSeq(recs, 1, m)) <= Volume)
  BY <1>2
<1>4. \A m \in 0..n - 1 : total - SizeOf(SubSeq(recs, 1, m)) > Volume
  <2>1. ASSUME NEW m \in 0..n - 1 PROVE total - SizeOf(SubSeq(recs, 1, m)) > Volume
    <3>1. m \in 0..Len(recs)
      BY <1>2
    <3>2. SizeOf(SubSeq(recs, 1, m)) \in Nat /\ total \in Nat
      BY <3>1, RestIs DEF Cropped
    <3> QED
      BY <1>3, <3>2, LogAssumption
  <2> QED
    BY <2>1
<1>5. PICK k : k = Evicted(recs, total)
  OBVIOUS
<1>6. k \in 0..Len(recs) /\ total - SizeOf(SubSeq(recs, 1, k)) <= Volume
  BY <1>2, <1>4, <1>5 DEF Evicted
<1>7. /\ SizeOf(recs) = SizeOf(Cropped(recs, k)) + SizeOf(Rest(recs, k))
      /\ SizeOf(Cropped(recs, k)) \in Nat /\ SizeOf(Rest(recs, k)) \in Nat
  BY <1>6, RestIs
<1> QED
  BY <1>5, <1>6, <1>7, LogAssumption DEF Cropped

\* A record that is about to be stored.
Newest(line, size, cut) == [id |-> lastId + 1, line |-> line, size |-> size, cut |-> cut]

LEMMA OneMore ==
  ASSUME NEW all \in Seq(LogRecord), NEW r \in LogRecord
  PROVE  /\ Append(all, r) \in Seq(LogRecord) /\ Len(Append(all, r)) = Len(all) + 1
         /\ \A i \in 1..Len(all) : Append(all, r)[i] = all[i]
         /\ Append(all, r)[Len(all) + 1] = r /\ Len(all) \in Nat
         /\ SizeOf(Append(all, r)) = SizeOf(all) + r.size
  BY SizeGrows, AppendProperties

LEMMA RestOfAppend ==
  ASSUME NEW all \in Seq(LogRecord), NEW r \in LogRecord, NEW k \in 0..Len(all)
  PROVE  /\ Rest(Append(all, r), k) = Append(Rest(all, k), r)
         /\ Cropped(Append(all, r), k) = Cropped(all, k)
<1>1. PICK b \in Seq(LogRecord) : b = Append(all, r) /\ Len(b) = Len(all) + 1
                               /\ (\A i \in 1..Len(all) : b[i] = all[i])
                               /\ b[Len(all) + 1] = r /\ Len(all) \in Nat
  BY OneMore
<1>2. b[Len(all) + 1] = r /\ k \in 0..Len(b) /\ Len(all) \in Nat
  BY <1>1
<1>3. PICK s \in Seq(LogRecord) : s = Rest(b, k) /\ Len(s) = Len(b) - k
                               /\ \A i \in 1..(Len(b) - k) : s[i] = b[k + i]
  BY <1>2, RestIs
<1>4. PICK t \in Seq(LogRecord) : t = Rest(all, k) /\ Len(t) = Len(all) - k
                               /\ \A i \in 1..(Len(all) - k) : t[i] = all[k + i]
  BY RestIs
<1>5. PICK u \in Seq(LogRecord) : u = Append(t, r) /\ Len(u) = Len(t) + 1
                               /\ (\A i \in 1..Len(t) : u[i] = t[i]) /\ u[Len(t) + 1] = r
  BY OneMore
<1>6. PICK m \in Nat : m = Len(all)
  BY <1>2
<1>7. s = u
  <2>1. Len(s) = (m - k) + 1 /\ Len(u) = (m - k) + 1 /\ Len(t) = m - k /\ k \in 0..m
    BY <1>1, <1>3, <1>4, <1>5, <1>6
  <2>2. ASSUME NEW i \in 1..Len(s) PROVE s[i] = u[i]
    <3>1. s[i] = b[k + i] /\ i \in 1..((m - k) + 1)
      BY <1>1, <1>3, <1>6, <2>1
    <3>2. CASE i = (m - k) + 1
      <4>1. k + i = m + 1
        BY <2>1, <3>2
      <4> QED
        BY <1>2, <1>5, <1>6, <2>1, <3>1, <3>2, <4>1
    <3>3. CASE i \in 1..(m - k)
      <4>1. k + i \in 1..m
        BY <2>1, <3>3
      <4> QED
        BY <1>1, <1>4, <1>5, <1>6, <2>1, <3>1, <3>3, <4>1
    <3>4. i = (m - k) + 1 \/ i \in 1..(m - k)
      BY <2>1, <3>1
    <3> QED
      BY <3>2, <3>3, <3>4
  <2> QED
    BY <2>1, <2>2, SeqEqual
<1>8. Cropped(b, k) = Cropped(all, k)
  <2>1. PICK f \in Seq(LogRecord) : f = Cropped(b, k) /\ Len(f) = k /\ \A i \in 1..k : f[i] = b[i]
    BY <1>2, RestIs
  <2>2. PICK g \in Seq(LogRecord) : g = Cropped(all, k) /\ Len(g) = k /\ \A i \in 1..k : g[i] = all[i]
    BY RestIs
  <2>3. ASSUME NEW i \in 1..k PROVE f[i] = g[i]
    <3>1. i \in 1..Len(all)
      BY <1>6
    <3> QED
      BY <1>1, <2>1, <2>2, <3>1
  <2>4. f = g
    BY <2>1, <2>2, <2>3, SeqEqual
  <2> QED
    BY <2>1, <2>2, <2>4
<1> QED
  BY <1>1, <1>3, <1>4, <1>5, <1>7, <1>8

\* Storing a record cuts what is a week old, and what there is no room for.
LEMMA AppendCuts ==
  ASSUME StreamTypes, VolumeBound,
         NEW line \in Nat, NEW size \in Nat \ {0}, NEW cut \in Nat, AppendRecord(line, size, cut)
  PROVE  /\ Newest(line, size, cut) \in LogRecord
         /\ \E k \in 0..(Len(records) + 1) : Cut(Append(records, Newest(line, size, cut)), k, cut)
         /\ lastId' = lastId + 1
         /\ interrupted' = interrupted + (IF line = Marker THEN 1 ELSE 0)
<1>1. PICK r \in LogRecord : r = Newest(line, size, cut) /\ r.size = size
  <2>1. lastId + 1 \in Nat
    BY DEF StreamTypes
  <2>2. Newest(line, size, cut) \in LogRecord /\ Newest(line, size, cut).size = size
    BY <2>1 DEF Newest, LogRecord
  <2> QED
    BY <2>2
<1>2. PICK all \in Seq(LogRecord) :
        all = Append(records, r) /\ Len(all) = Len(records) + 1 /\ SizeOf(all) = SizeOf(records) + size
  <2>1. records \in Seq(LogRecord)
    BY DEF StreamTypes
  <2>2. /\ Append(records, r) \in Seq(LogRecord) /\ Len(Append(records, r)) = Len(records) + 1
        /\ SizeOf(Append(records, r)) = SizeOf(records) + r.size
    BY <2>1, OneMore
  <2> QED
    BY <1>1, <2>2
<1>3. aged \in 0..Len(records) /\ aged \in 0..Len(all) /\ records \in Seq(LogRecord) /\ Len(records) \in Nat
  BY <1>2 DEF StreamTypes
<1>4. PICK recs \in Seq(LogRecord) : recs = Rest(all, aged) /\ Len(recs) = Len(all) - aged
  BY <1>3, RestIs
<1>5. recs = Append(Kept, r)
  BY <1>2, <1>3, <1>4, RestOfAppend DEF Kept, Rest
<1>6. AgedSize = SizeOf(Cropped(all, aged))
  BY <1>2, <1>3, RestOfAppend DEF AgedSize, Cropped
<1>7. PICK a \in Nat : a = AgedSize
  BY <1>3, <1>6, RestIs
<1>8. PICK total : total = retained - a + size
  OBVIOUS
<1>9. total = SizeOf(recs) /\ total \in Nat
  <2>1. SizeOf(all) = a + SizeOf(recs) /\ SizeOf(recs) \in Nat
    BY <1>3, <1>4, <1>6, <1>7, RestIs
  <2>2. SizeOf(all) = retained + size
    BY <1>2 DEF VolumeBound
  <2>3. retained \in Nat
    BY DEF StreamTypes
  <2> QED
    BY SMTT(60), <1>8, <2>1, <2>2, <2>3
<1>10. PICK n \in 0..Len(recs) : n = Evicted(recs, total) /\ SizeOf(Rest(recs, n)) <= Volume
  BY <1>9, RoomIsMade
<1>11. PICK gone \in Nat : gone = SizeOf(Cropped(recs, n)) /\ SizeOf(recs) = gone + SizeOf(Rest(recs, n))
                        /\ SizeOf(Rest(recs, n)) \in Nat
  BY RestIs
<1>12. PICK k \in 0..Len(all) : k = aged + n /\ Rest(recs, n) = Rest(all, k)
                             /\ SizeOf(Cropped(all, k)) = a + gone
  BY SMTT(60), <1>3, <1>4, <1>6, <1>7, <1>11, RestOfRest
<1>13. /\ records' = Rest(recs, n) /\ aged' = 0 /\ lastId' = lastId + 1
       /\ retained' = total - gone
       /\ dropped' = dropped + a + cut + gone
       /\ interrupted' = interrupted + (IF line = Marker THEN 1 ELSE 0)
  BY <1>1, <1>5, <1>7, <1>8, <1>10, <1>11 DEF AppendRecord, NextId, Newest, Rest, Cropped
<1>14. retained' = SizeOf(records') /\ retained' <= Volume
  <2>1. PICK left \in Nat : left = SizeOf(Rest(recs, n))
    BY <1>11
  <2>2. left = SizeOf(records') /\ left <= Volume /\ total = gone + left
    BY <1>9, <1>10, <1>11, <1>13, <2>1
  <2>3. retained' = left
    BY SMTT(60), <1>13, <2>2
  <2> QED
    BY <2>2, <2>3
<1>15. dropped' = dropped + cut + SizeOf(Cropped(all, k))
  BY SMTT(60), <1>7, <1>11, <1>12, <1>13 DEF StreamTypes
<1>16. Cut(all, k, cut)
  BY <1>12, <1>13, <1>14, <1>15 DEF Cut
<1> QED
  BY <1>1, <1>2, <1>13, <1>16

-----------------------------------------------------------------------------

\* The ids are given in order, and only the oldest records go; as long as nothing was
\* dropped, every record is there and whole.
Numbered(recs, last) ==
  /\ Len(recs) <= last
  /\ \A i \in 1..Len(recs) : recs[i].id = (last - Len(recs)) + i

Complete(recs, last) == Len(recs) = last /\ \A i \in 1..Len(recs) : recs[i].cut = 0

Stored ==
  /\ StreamTypes /\ VolumeBound
  /\ Numbered(records, lastId)
  /\ dropped = 0 => Complete(records, lastId)

\* What the steps do to the stream.
Stays ==
  /\ aged' \in 0..Len(records)
  /\ UNCHANGED <<records, lastId, retained, dropped, interrupted>>

Shrinks ==
  /\ \E k \in 0..Len(records) : Cut(records, k, 0)
  /\ UNCHANGED <<lastId, interrupted>>

Grows(line) ==
  /\ \E size \in Nat \ {0}, cut \in Nat : \E k \in 0..(Len(records) + 1) :
       /\ Newest(line, size, cut) \in LogRecord
       /\ Cut(Append(records, Newest(line, size, cut)), k, cut)
  /\ lastId' = lastId + 1
  /\ interrupted' = interrupted + (IF line = Marker THEN 1 ELSE 0)

\* What a cut leaves is numbered, and all of it if the dropped bytes are none.
LEMMA CutKeeps ==
  ASSUME NEW all \in Seq(LogRecord), NEW last \in Nat, NEW lost \in Nat, NEW k \in 0..Len(all),
         dropped \in Nat, Numbered(all, last), Cut(all, k, lost)
  PROVE  /\ records' \in Seq(LogRecord) /\ aged' \in 0..Len(records')
         /\ retained' \in Nat /\ dropped' \in Nat /\ VolumeBound'
         /\ Numbered(records', last) /\ dropped <= dropped'
         /\ dropped' = 0 => dropped = 0 /\ lost = 0 /\ k = 0 /\ records' = all
<1>1. /\ Rest(all, k) \in Seq(LogRecord) /\ Len(Rest(all, k)) = Len(all) - k
      /\ \A i \in 1..(Len(all) - k) : Rest(all, k)[i] = all[k + i]
      /\ SizeOf(Cropped(all, k)) \in Nat /\ SizeOf(Rest(all, k)) \in Nat
      /\ SizeOf(Cropped(all, k)) = 0 => k = 0
  BY RestIs
<1>2. PICK gone \in Nat : gone = SizeOf(Cropped(all, k)) /\ (gone = 0 => k = 0)
  BY <1>1
<1>3. PICK r \in Seq(LogRecord) : r = Rest(all, k) /\ Len(r) = Len(all) - k
                               /\ \A i \in 1..(Len(all) - k) : r[i] = all[k + i]
  BY <1>1
<1>4. records' = r /\ aged' = 0 /\ dropped' = (dropped + lost) + gone
  BY <1>2, <1>3 DEF Cut
<1>5. retained' \in Nat /\ VolumeBound'
  <2>1. retained' = SizeOf(records') /\ retained' <= Volume
    BY DEF Cut
  <2>2. SizeOf(r) \in Nat
    BY SizeOfSome
  <2> QED
    BY <1>4, <2>1, <2>2 DEF VolumeBound
<1>6. dropped' \in Nat /\ dropped <= dropped' /\ (dropped' = 0 => dropped = 0 /\ lost = 0 /\ gone = 0)
  BY <1>4
<1>7. Numbered(r, last)
  <2>1. PICK m \in Nat : m = Len(all)
    OBVIOUS
  <2>2. m <= last /\ \A i \in 1..m : all[i].id = (last - m) + i
    BY <2>1 DEF Numbered
  <2>3. Len(r) = m - k /\ k \in 0..m
    BY <1>3, <2>1
  <2>4. ASSUME NEW i \in 1..(m - k) PROVE r[i].id = (last - (m - k)) + i
    <3>1. k + i \in 1..m /\ r[i] = all[k + i]
      BY <1>3, <2>1, <2>3
    <3>2. r[i].id = (last - m) + (k + i)
      BY <2>2, <3>1
    <3> QED
      BY <2>3, <3>2
  <2> QED
    BY <2>2, <2>3, <2>4 DEF Numbered
<1>8. ASSUME k = 0 PROVE r = all
  <2>1. Len(r) = Len(all) /\ \A i \in 1..Len(all) : r[i] = all[i]
    BY <1>3, <1>8
  <2> QED
    BY <2>1, SeqEqual
<1>9. aged' \in 0..Len(records')
  BY <1>4
<1> QED
  BY <1>2, <1>4, <1>5, <1>6, <1>7, <1>8, <1>9

\* A record that is about to be stored has the next number.
LEMMA NextIsNumbered ==
  ASSUME StreamTypes, Numbered(records, lastId), NEW r \in LogRecord, r.id = lastId + 1
  PROVE  Append(records, r) \in Seq(LogRecord) /\ Numbered(Append(records, r), lastId + 1)
<1>1. records \in Seq(LogRecord) /\ lastId \in Nat
  BY DEF StreamTypes
<1>2. PICK all \in Seq(LogRecord) : all = Append(records, r) /\ Len(all) = Len(records) + 1
                                 /\ (\A i \in 1..Len(records) : all[i] = records[i])
                                 /\ all[Len(records) + 1] = r /\ Len(records) \in Nat
  BY <1>1, OneMore
<1>3. PICK m \in Nat : m = Len(records)
  BY <1>2
<1>4. m <= lastId /\ \A i \in 1..m : records[i].id = (lastId - m) + i
  BY <1>3 DEF Numbered
<1>5. ASSUME NEW i \in 1..(m + 1) PROVE all[i].id = ((lastId + 1) - (m + 1)) + i
  <2>1. CASE i = m + 1
    BY <1>1, <1>2, <1>3, <2>1
  <2>2. CASE i \in 1..m
    BY <1>1, <1>2, <1>3, <1>4, <2>2
  <2> QED
    BY <2>1, <2>2
<1>6. Numbered(all, lastId + 1)
  BY <1>1, <1>2, <1>3, <1>4, <1>5 DEF Numbered
<1> QED
  BY <1>2, <1>6

LEMMA StaysStored ==
  ASSUME Stored, Stays
  PROVE  Stored'
BY DEF Stored, Stays, StreamTypes, VolumeBound, Numbered, Complete

LEMMA ShrinksStored ==
  ASSUME Stored, Shrinks
  PROVE  /\ Stored' /\ dropped <= dropped'
         /\ dropped' = 0 => dropped = 0 /\ records' = records
<1>1. PICK k \in 0..Len(records) : Cut(records, k, 0)
  BY DEF Shrinks
<1>2. records \in Seq(LogRecord) /\ lastId \in Nat /\ dropped \in Nat /\ Numbered(records, lastId)
      /\ lastId' = lastId /\ interrupted' = interrupted /\ interrupted \in Nat
      /\ (dropped = 0 => Complete(records, lastId))
  BY DEF Stored, StreamTypes, Shrinks
<1>3. /\ records' \in Seq(LogRecord) /\ aged' \in 0..Len(records')
      /\ retained' \in Nat /\ dropped' \in Nat /\ VolumeBound'
      /\ Numbered(records', lastId) /\ dropped <= dropped'
      /\ dropped' = 0 => dropped = 0 /\ records' = records
  BY <1>1, <1>2, CutKeeps
<1>4. dropped' = 0 => Complete(records', lastId')
  BY <1>2, <1>3
<1> QED
  BY <1>2, <1>3, <1>4 DEF Stored, StreamTypes

LEMMA GrowsStored ==
  ASSUME Stored, NEW line, Grows(line)
  PROVE  /\ Stored' /\ dropped <= dropped'
         /\ dropped' = 0 => /\ dropped = 0
                            /\ \E r \in LogRecord : /\ records' = Append(records, r)
                                                    /\ r.line = line /\ r.cut = 0
<1>1. PICK size \in Nat \ {0}, cut \in Nat, k \in 0..(Len(records) + 1) :
        /\ Newest(line, size, cut) \in LogRecord
        /\ Cut(Append(records, Newest(line, size, cut)), k, cut)
  BY DEF Grows
<1>2. PICK r \in LogRecord : r = Newest(line, size, cut) /\ r.id = lastId + 1 /\ r.line = line /\ r.cut = cut
  BY <1>1 DEF Newest
<1>3. /\ records \in Seq(LogRecord) /\ lastId \in Nat /\ dropped \in Nat /\ interrupted \in Nat
      /\ lastId' = lastId + 1 /\ interrupted' = interrupted + (IF line = Marker THEN 1 ELSE 0)
      /\ StreamTypes /\ Numbered(records, lastId)
      /\ (dropped = 0 => Complete(records, lastId))
  BY DEF Stored, StreamTypes, Grows
<1>4. PICK all \in Seq(LogRecord) : all = Append(records, r) /\ Numbered(all, lastId + 1)
  BY <1>2, <1>3, NextIsNumbered
<1>5. k \in 0..Len(all) /\ Len(all) = Len(records) + 1 /\ Cut(all, k, cut) /\ lastId + 1 \in Nat
  <2>1. Len(all) = Len(records) + 1
    BY <1>3, <1>4, OneMore
  <2>2. lastId + 1 \in Nat
    BY <1>3
  <2> QED
    BY <1>1, <1>2, <1>4, <2>1, <2>2
<1>6. /\ records' \in Seq(LogRecord) /\ aged' \in 0..Len(records')
      /\ retained' \in Nat /\ dropped' \in Nat /\ VolumeBound'
      /\ Numbered(records', lastId + 1) /\ dropped <= dropped'
      /\ dropped' = 0 => dropped = 0 /\ cut = 0 /\ k = 0 /\ records' = all
  BY <1>3, <1>4, <1>5, CutKeeps
<1>7. ASSUME dropped' = 0 PROVE Complete(records', lastId')
  <2>1. /\ Len(records) = lastId /\ \A i \in 1..Len(records) : records[i].cut = 0
        /\ records' = all
    BY <1>3, <1>6, <1>7 DEF Complete
  <2>2. /\ \A i \in 1..Len(records) : all[i] = records[i]
        /\ all[Len(records) + 1] = r /\ Len(records) \in Nat
    BY <1>3, <1>4, OneMore
  <2>3. ASSUME NEW i \in 1..Len(all) PROVE all[i].cut = 0
    <3>1. i = Len(records) + 1 \/ i \in 1..Len(records)
      BY <1>5, <2>2
    <3> QED
      BY <1>2, <1>6, <1>7, <2>1, <2>2, <3>1
  <2>4. Len(all) = lastId'
    BY <1>3, <1>5, <2>1
  <2> QED
    BY <2>1, <2>3, <2>4 DEF Complete
<1>8. interrupted' \in Nat
  BY <1>3
<1>9. Stored'
  BY <1>3, <1>5, <1>6, <1>7, <1>8 DEF Stored, StreamTypes
<1> QED
  BY <1>2, <1>4, <1>6, <1>9

(***************************************************************************)
(* The lines.                                                              *)
(***************************************************************************)

\* The lines on a connection follow each other, and the last printed is the last of them.
Connected ==
  /\ printed \in Nat /\ flight \in Seq(Nat) /\ named \in BOOLEAN
  /\ connection \in {"open", "broken", "none"} /\ collector \in {"up", "down"}
  /\ connection = "none" => flight = <<>> /\ ~named
  /\ collector = "down" => connection = "none"
  /\ \A i \in 1..Len(flight) : flight[i] = flight[1] + (i - 1)
  /\ connection = "open" /\ flight # <<>> => flight[Len(flight)] = printed

Untold == dropped = 0 /\ interrupted = 0
InLine(recs) == \A i \in 1..Len(recs) : recs[i].line = recs[1].line + (i - 1)
LastLine == records[Len(records)].line

\* As long as no loss is told, the records follow each other, and what the collector will
\* receive next follows them.
Continues ==
  Untold /\ records # <<>> =>
    /\ InLine(records)
    /\ collector = "up" =>
         /\ named
         /\ flight # <<>> => flight[1] = LastLine + 1
         /\ flight = <<>> /\ connection = "open" => printed = LastLine

\* Which actions leave the stream alone.
Leaves == UNCHANGED streamVars \/ Age

LEMMA LeavesStays == Stored /\ Leaves => Stays
<1> SUFFICES ASSUME Stored, Leaves PROVE Stays
  OBVIOUS
<1>1. aged \in 0..Len(records) /\ Len(records) \in Nat
  BY DEF Stored, StreamTypes
<1>2. CASE UNCHANGED streamVars
  BY <1>1, <1>2 DEF Stays, streamVars
<1>3. CASE Age
  <2>1. aged' = aged + 1 /\ aged < Len(records)
        /\ UNCHANGED <<records, lastId, retained, dropped, interrupted>>
    BY <1>3 DEF Age
  <2>2. aged' \in 0..Len(records)
    BY <1>1, <2>1
  <2> QED
    BY <2>1, <2>2 DEF Stays
<1> QED
  BY <1>2, <1>3 DEF Leaves

LEMMA PrunedShrinks ==
  ASSUME Stored, Pruned, UNCHANGED <<lastId, interrupted>>
  PROVE  Shrinks
<1>1. aged \in 0..Len(records) /\ Cut(records, aged, 0)
  BY PrunedCuts DEF Stored, StreamTypes
<1> QED
  BY <1>1 DEF Shrinks

LEMMA AppendGrows ==
  ASSUME Stored, NEW line \in Nat, NEW size \in Nat \ {0}, NEW cut \in Nat,
         AppendRecord(line, size, cut)
  PROVE  Grows(line)
BY AppendCuts DEF Stored, Grows

LEMMA ReceiveGrows ==
  ASSUME Stored, Connected, Receive
  PROVE  flight # <<>> /\ Grows(flight[1])
<1>1. PICK size \in Sizes, cut \in {0, 1} : AppendRecord(Head(flight), size, cut)
  BY DEF Receive
<1>2. flight # <<>> /\ flight \in Seq(Nat) /\ Head(flight) = flight[1] /\ flight[1] \in Nat
  BY DEF Receive, Connected
<1>3. size \in Nat \ {0} /\ cut \in Nat
  BY LogAssumption
<1> QED
  BY <1>1, <1>2, <1>3, AppendGrows

LEMMA MarkGrows ==
  ASSUME Stored, MarkConnection
  PROVE  \/ named /\ Grows(Marker)
         \/ ~named /\ UNCHANGED streamVars
<1>1. CASE named
  <2>1. AppendRecord(Marker, 1, 0) /\ Marker \in Nat
    BY <1>1 DEF MarkConnection, Marker
  <2> QED
    BY <1>1, <2>1, AppendGrows
<1>2. CASE ~named
  BY <1>2 DEF MarkConnection
<1> QED
  BY <1>1, <1>2

\* A mark tells.
LEMMA MarkTells ==
  ASSUME Stored, Grows(Marker)
  PROVE  ~Untold'
<1>1. interrupted' = interrupted + 1 /\ interrupted \in Nat
  BY DEF Grows, Stored, StreamTypes
<1> QED
  BY <1>1 DEF Untold

\* What the container prints, and what becomes of the connection, is about the lines
\* alone.
LEMMA LeavesContinues ==
  ASSUME Stored, Continues, Leaves, UNCHANGED containerVars
  PROVE  Continues'
BY LeavesStays DEF Continues, Untold, Stays, containerVars, LastLine

LEMMA ShrinksContinues ==
  ASSUME Stored, Continues, Shrinks, UNCHANGED containerVars
  PROVE  Continues'
<1>1. SUFFICES ASSUME Untold' PROVE Continues'
  BY DEF Continues
<1>2. dropped = 0 /\ records' = records /\ interrupted' = interrupted
  BY <1>1, ShrinksStored DEF Untold, Shrinks
<1> QED
  BY <1>1, <1>2 DEF Continues, Untold, containerVars, LastLine

LEMMA LogLineFlows ==
  ASSUME Connected, Continues, LogLine
  PROVE  Connected' /\ Continues'
<1>1. /\ printed' = printed + 1 /\ printed \in Nat
      /\ UNCHANGED <<connection, named, collector>> /\ UNCHANGED streamVars
      /\ flight \in Seq(Nat)
  BY DEF LogLine, Connected
<1>2. CASE connection # "open"
  <2>1. flight' = flight
    BY <1>2 DEF LogLine
  <2> QED
    BY <1>1, <1>2, <2>1 DEF Connected, Continues, Untold, LastLine, streamVars
<1>3. CASE connection = "open"
  <2>1. PICK n \in Nat : n = Len(flight)
    BY <1>1
  <2>2. /\ flight' \in Seq(Nat) /\ Len(flight') = n + 1
        /\ (\A i \in 1..n : flight'[i] = flight[i]) /\ flight'[n + 1] = printed + 1
    BY <1>1, <1>3, <2>1 DEF LogLine
  <2>3. ASSUME n # 0 PROVE flight[n] = printed /\ flight # <<>> /\ flight'[1] = flight[1]
                          /\ flight[n] = flight[1] + (n - 1) /\ flight[1] \in Nat
    BY <1>1, <1>3, <2>1, <2>2, <2>3 DEF Connected
  <2>4. ASSUME NEW i \in 1..(n + 1) PROVE flight'[i] = flight'[1] + (i - 1)
    <3>1. CASE n = 0
      BY <1>1, <2>2, <3>1
    <3>2. CASE n # 0 /\ i = n + 1
      BY SMTT(60), <1>1, <2>2, <2>3, <3>2
    <3>3. CASE n # 0 /\ i \in 1..n
      BY <2>1, <2>2, <2>3, <3>3 DEF Connected
    <3> QED
      BY <3>1, <3>2, <3>3
  <2>5. Connected'
    BY <1>1, <1>3, <2>2, <2>4 DEF Connected
  <2>6. ASSUME Untold', records' # <<>> PROVE Untold /\ records # <<>>
    BY <1>1, <2>6 DEF Untold, streamVars
  <2>7. ASSUME Untold, records # <<>>, collector = "up"
        PROVE  flight'[1] = LastLine + 1
    <3>1. CASE n = 0
      <4>1. flight = <<>>
        BY <1>1, <2>1, <3>1, EmptySeq
      <4>2. printed = LastLine /\ flight'[1] = printed + 1
        BY <1>3, <2>2, <2>7, <3>1, <4>1 DEF Continues
      <4> QED
        BY <4>2
    <3>2. CASE n # 0
      BY <2>3, <2>7, <3>2 DEF Continues
    <3> QED
      BY <3>1, <3>2
  <2>8. flight' # <<>> /\ LastLine' = LastLine /\ records' = records
    BY <1>1, <2>2 DEF streamVars, LastLine
  <2>9. Continues'
    BY <1>1, <2>6, <2>7, <2>8 DEF Continues
  <2> QED
    BY <2>5, <2>9
<1> QED
  BY <1>2, <1>3

LEMMA ConnectFlows ==
  ASSUME Connected, Continues, Connect
  PROVE  Connected' /\ Continues'
BY DEF Connected, Continues, Connect, Untold, LastLine, streamVars

LEMMA BreakFlows ==
  ASSUME Connected, Continues, Break
  PROVE  Connected' /\ Continues'
<1>1. /\ connection = "open" /\ connection' = "broken"
      /\ UNCHANGED <<printed, named, collector>> /\ UNCHANGED streamVars
      /\ flight \in Seq(Nat) /\ collector = "up"
  BY DEF Break, Connected
<1>2. PICK n \in 0..Len(flight) : flight' = SubSeq(flight, 1, n)
  BY DEF Break
<1>3. /\ flight' \in Seq(Nat) /\ Len(flight') = n
      /\ \A i \in 1..n : flight'[i] = flight[i] /\ i \in 1..Len(flight)
  BY <1>1, <1>2
<1>4. ASSUME NEW i \in 1..n PROVE flight'[i] = flight'[1] + (i - 1)
  <2>1. 1 \in 1..n /\ n \in Nat
    BY <1>2
  <2>2. flight'[1] = flight[1] /\ flight'[i] = flight[i] /\ i \in 1..Len(flight)
    BY <1>3, <2>1
  <2> QED
    BY <2>2 DEF Connected
<1>5. Connected'
  BY <1>1, <1>3, <1>4 DEF Connected
<1>6. ASSUME flight' # <<>> PROVE flight # <<>> /\ flight'[1] = flight[1]
  <2>1. n # 0
    BY <1>3, <1>6
  <2>2. 1 \in 1..n
    BY <1>2, <2>1
  <2> QED
    BY <1>1, <1>3, <2>2
<1>7. Continues'
  BY <1>1, <1>6 DEF Continues, Untold, LastLine, streamVars
<1> QED
  BY <1>5, <1>7

LEMMA ReceiveFlows ==
  ASSUME Stored, Connected, Continues, Receive
  PROVE  Connected' /\ Continues'
<1>1. /\ collector = "up" /\ flight' = Tail(flight) /\ named' /\ named' \in BOOLEAN
      /\ UNCHANGED <<printed, connection, collector>>
      /\ flight \in Seq(Nat) /\ flight # <<>> /\ Grows(flight[1])
      /\ connection # "none"
  BY SMTT(60), ReceiveGrows DEF Receive, Connected
<1>2. PICK n \in Nat : n + 1 = Len(flight)
  <2>1. Len(flight) \in Nat /\ Len(flight) # 0
    BY <1>1
  <2>2. (Len(flight) - 1) + 1 = Len(flight) /\ Len(flight) - 1 \in Nat
    BY <2>1
  <2> QED
    BY <2>2
<1>3. /\ flight' \in Seq(Nat) /\ Len(flight') = n
      /\ \A i \in 1..n : flight'[i] = flight[i + 1]
  BY <1>1, <1>2
<1>4. \A i \in 1..(n + 1) : flight[i] = flight[1] + (i - 1)
  BY <1>2 DEF Connected
<1>5. flight[1] \in Nat
  BY <1>1, <1>2
<1>6. ASSUME NEW i \in 1..n PROVE flight'[i] = flight[1] + i
  <2>1. i + 1 \in 1..(n + 1) /\ (i + 1) - 1 = i
    OBVIOUS
  <2> QED
    BY <1>3, <1>4, <2>1
<1>7. ASSUME NEW i \in 1..n PROVE flight'[i] = flight'[1] + (i - 1)
  <2>1. 1 \in 1..n
    OBVIOUS
  <2>2. flight'[1] = flight[1] + 1 /\ flight'[i] = flight[1] + i
    BY <1>6, <2>1
  <2> QED
    BY <1>5, <2>2
<1>8. ASSUME connection = "open", flight' # <<>> PROVE flight'[Len(flight')] = printed
  <2>1. n \in 1..n
    BY <1>3, <1>8
  <2>2. flight'[n] = flight[n + 1]
    BY <1>3, <2>1
  <2> QED
    BY <1>1, <1>2, <1>3, <1>8, <2>2 DEF Connected
<1>9. Connected'
  BY <1>1, <1>3, <1>7, <1>8 DEF Connected
<1>10. ASSUME Untold' PROVE Continues'
  <2>1. interrupted' = interrupted + (IF flight[1] = Marker THEN 1 ELSE 0) /\ interrupted \in Nat
    BY <1>1 DEF Grows, Stored, StreamTypes
  <2>2. interrupted = 0 /\ dropped' = 0
    BY <1>10, <2>1 DEF Untold
  <2>3. PICK r \in LogRecord : records' = Append(records, r) /\ r.line = flight[1]
    BY <1>1, <2>2, GrowsStored
  <2>4. Untold
    BY <1>1, <2>2, GrowsStored DEF Untold
  <2>5. PICK m \in Nat : m = Len(records)
    BY DEF Stored, StreamTypes
  <2>6. /\ Len(records') = m + 1 /\ records'[m + 1] = r
        /\ \A i \in 1..m : records'[i] = records[i]
    BY <2>3, <2>5, OneMore DEF Stored, StreamTypes
  <2>7. LastLine' = flight[1]
    BY <2>3, <2>6 DEF LastLine
  <2>8. InLine(records')
    <3>1. CASE m = 0
      <4>1. \A i \in 1..1 : records'[i].line = records'[1].line + (i - 1)
        BY <1>5, <2>3, <2>6, <3>1
      <4> QED
        BY <2>6, <3>1, <4>1 DEF InLine
    <3>2. CASE m # 0
      <4>1. records # <<>> /\ 1 \in 1..m /\ m \in 1..m
        BY <2>5, <3>2
      <4>2. /\ \A i \in 1..m : records[i].line = records[1].line + (i - 1)
            /\ flight[1] = records[m].line + 1
        BY <1>1, <2>4, <2>5, <4>1 DEF Continues, InLine, LastLine
      <4>3. records[1].line \in Nat /\ records'[1] = records[1]
        <5>1. records[1] \in LogRecord
          BY <2>5, <4>1 DEF Stored, StreamTypes
        <5> QED
          BY <2>6, <4>1, <5>1 DEF LogRecord
      <4>4. ASSUME NEW i \in 1..(m + 1) PROVE records'[i].line = records'[1].line + (i - 1)
        <5>1. CASE i \in 1..m
          BY <2>6, <4>2, <4>3, <5>1
        <5>2. CASE i = m + 1
          <6>1. records[m].line = records[1].line + (m - 1)
            BY <4>1, <4>2
          <6>2. records'[i].line = flight[1]
            BY <2>3, <2>6, <5>2
          <6> QED
            BY <4>2, <4>3, <5>2, <6>1, <6>2
        <5> QED
          BY <5>1, <5>2
      <4> QED
        BY <2>6, <4>4 DEF InLine
    <3> QED
      BY <3>1, <3>2
  <2>9. ASSUME flight' # <<>> PROVE flight'[1] = LastLine' + 1
    <3>1. 1 \in 1..n
      BY <1>3, <2>9
    <3> QED
      BY <1>6, <2>7, <3>1
  <2>10. ASSUME flight' = <<>>, connection = "open" PROVE printed = LastLine'
    <3>1. Len(flight) = 1
      BY <1>2, <1>3, <2>10
    <3> QED
      BY <1>1, <2>7, <2>10, <3>1 DEF Connected
  <2> QED
    BY <1>1, <2>8, <2>9, <2>10 DEF Continues
<1> QED
  BY <1>9, <1>10 DEF Continues

\* The end of a connection that was named is marked; one that was not had brought nothing.
LEMMA CloseFlows ==
  ASSUME Stored, Connected, Continues, CloseConnection
  PROVE  Connected' /\ Continues'
<1>1. /\ collector = "up" /\ collector' = collector /\ printed' = printed
      /\ connection' = "none" /\ flight' = <<>> /\ ~named' /\ named' \in BOOLEAN
      /\ MarkConnection
  BY DEF CloseConnection, DropConnection
<1>2. Connected'
  BY <1>1 DEF Connected
<1>3. CASE named /\ Grows(Marker)
  BY <1>2, <1>3, MarkTells DEF Continues
<1>4. CASE ~named /\ UNCHANGED streamVars
  BY <1>1, <1>2, <1>4 DEF Continues, Untold, streamVars
<1> QED
  BY <1>1, <1>3, <1>4, MarkGrows

LEMMA ExitsFlows ==
  ASSUME Stored, Connected, Continues, CollectorExits
  PROVE  Connected' /\ Continues'
<1>1. /\ collector = "up" /\ collector' = "down" /\ printed' = printed
      /\ connection' = "none" /\ flight' = <<>> /\ ~named' /\ named' \in BOOLEAN
      /\ MarkConnection
  BY DEF CollectorExits, DropConnection
<1>2. Connected'
  BY <1>1 DEF Connected
<1>3. CASE named /\ Grows(Marker)
  BY <1>2, <1>3, MarkTells DEF Continues
<1>4. CASE ~named /\ UNCHANGED streamVars
  BY <1>1, <1>2, <1>4 DEF Continues, Untold, streamVars
<1> QED
  BY <1>1, <1>3, <1>4, MarkGrows

LEMMA CrashesFlows ==
  ASSUME Connected, Continues, CollectorCrashes
  PROVE  Connected' /\ Continues'
<1>1. /\ collector' = "down" /\ printed' = printed
      /\ connection' = "none" /\ flight' = <<>> /\ ~named' /\ named' \in BOOLEAN
      /\ UNCHANGED streamVars
  BY DEF CollectorCrashes, DropConnection
<1>2. Connected'
  BY <1>1 DEF Connected
<1> QED
  BY <1>1, <1>2 DEF Continues, Untold, streamVars

LEMMA StartsFlows ==
  ASSUME Stored, Connected, CollectorStarts
  PROVE  Connected' /\ Continues' /\ Grows(Marker)
<1>1. /\ collector = "down" /\ collector' = "up" /\ AppendRecord(Marker, 1, 0)
      /\ UNCHANGED <<printed, flight, connection, named>>
  BY DEF CollectorStarts
<1>2. Connected'
  BY <1>1 DEF Connected
<1>3. Grows(Marker)
  <2>1. Marker \in Nat
    BY DEF Marker
  <2> QED
    BY <1>1, <2>1, AppendGrows
<1> QED
  BY <1>2, <1>3, MarkTells DEF Continues

(***************************************************************************)
(* What sets of records take.                                              *)
(***************************************************************************)

Distinct(s) == \A i, j \in 1..Len(s) : s[i] = s[j] => i = j
SizeMap(U) == [r \in U |-> r.size]
Weight(A) == SizeOf(SetToSeq(A))

LEMMA RecordsAreFinite ==
  ASSUME NEW recs \in Seq(LogRecord)
  PROVE  IsFiniteSet(ToSet(recs)) /\ ToSet(recs) \in SUBSET LogRecord
<1>1. recs \in Surjection(1..Len(recs), ToSet(recs))
  BY DEF Surjection, ToSet
<1>2. IsFiniteSet(1..Len(recs))
  BY FS_Interval
<1>3. ToSet(recs) \in SUBSET LogRecord
  BY DEF ToSet
<1> QED
  BY <1>1, <1>2, <1>3, FS_Surjection

LEMMA SizesAreMapped ==
  ASSUME NEW U \in SUBSET LogRecord
  PROVE  SizeMap(U) \in [U -> Nat] /\ SizeMap(U) \in [U -> Int]
BY DEF SizeMap, LogRecord

\* Records that are not the same take what their set does.
LEMMA SizeOfSet ==
  ASSUME NEW U \in SUBSET LogRecord, NEW h, IsSum(h, SizeMap(U), U),
         NEW s \in Seq(U), Distinct(s)
  PROVE  SizeOf(s) = h[ToSet(s)]
<1>1. s \in [1..Len(s) -> U] /\ s \in Seq(LogRecord)
  OBVIOUS
<1>2. Renames(s, 1..Len(s), U, SizesOf(s), SizeMap(U))
  BY <1>1 DEF Renames, Distinct, SizesOf, SizeMap
<1>3. PICK g : IsSum(g, SizesOf(s), 1..Len(s)) /\ SizeOf(s) = g[1..Len(s)]
  BY <1>1, SizeIsSum
<1>4. IsFiniteSet(1..Len(s))
  BY <1>1, SizeIsSum
<1>5. g[1..Len(s)] = h[Images(s, 1..Len(s))]
  BY <1>2, <1>3, <1>4, SumReindex
<1>6. Images(s, 1..Len(s)) = ToSet(s)
  BY DEF Images, ToSet
<1> QED
  BY <1>3, <1>5, <1>6

\* SetToSeq has each element once.
LEMMA SeqOfSet ==
  ASSUME NEW A, IsFiniteSet(A)
  PROVE  /\ SetToSeq(A) \in Seq(A) /\ Distinct(SetToSeq(A))
         /\ ToSet(SetToSeq(A)) = A
<1>1. PICK n \in Nat : n = Cardinality(A) /\ ExistsBijection(1..n, A)
  BY FS_CardinalityType
<1>2. \E f \in [1..n -> A] : IsInjective(f)
  BY <1>1 DEF ExistsBijection, Bijection, Injection
<1>3. PICK f \in [1..n -> A] : f = SetToSeq(A) /\ IsInjective(f)
  BY <1>1, <1>2 DEF SetToSeq
<1>4. f \in Injection(1..n, A) /\ Cardinality(1..n) = Cardinality(A)
  <2>1. f \in Injection(1..n, A)
    BY <1>3 DEF Injection
  <2>2. Cardinality(1..n) = n
    BY FS_Interval
  <2> QED
    BY <1>1, <2>1, <2>2
<1>5. f \in Surjection(1..n, A)
  BY <1>4, FS_Injection
<1>6. f \in Seq(A) /\ Len(f) = n
  BY <1>3
<1>7. ToSet(f) = A
  BY <1>3, <1>5 DEF Surjection, ToSet
<1>8. Distinct(f)
  BY <1>3, <1>6 DEF Distinct, IsInjective
<1> QED
  BY <1>3, <1>6, <1>7, <1>8

LEMMA WeightIs ==
  ASSUME NEW U \in SUBSET LogRecord, IsFiniteSet(U), NEW h, IsSum(h, SizeMap(U), U),
         NEW A \in SUBSET U
  PROVE  Weight(A) = h[A]
<1>1. IsFiniteSet(A)
  BY FS_Subset
<1>2. PICK s \in Seq(A) : s = SetToSeq(A) /\ Distinct(s) /\ ToSet(s) = A
  BY <1>1, SeqOfSet
<1>3. s \in Seq(U)
  OBVIOUS
<1>4. SizeOf(s) = h[ToSet(s)]
  BY <1>2, <1>3, SizeOfSet
<1> QED
  BY <1>2, <1>4 DEF Weight

\* A set that some records are added to takes at most so much more.
LEMMA WeightGrows ==
  ASSUME NEW G \in SUBSET LogRecord, IsFiniteSet(G), NEW s \in Seq(LogRecord), Distinct(s),
         NEW H, H \subseteq G \cup ToSet(s)
  PROVE  /\ Weight(G) \in Nat /\ Weight(H) \in Nat /\ SizeOf(s) \in Nat
         /\ Weight(H) <= Weight(G) + SizeOf(s)
<1>1. PICK A : A = ToSet(s) /\ IsFiniteSet(A) /\ A \in SUBSET LogRecord
  BY RecordsAreFinite
<1>2. PICK U : U = G \cup A
  OBVIOUS
<1>3. /\ IsFiniteSet(U) /\ U \in SUBSET LogRecord
      /\ G \in SUBSET U /\ A \in SUBSET U /\ H \in SUBSET U
  BY <1>1, <1>2, FS_Union
<1>4. SizeMap(U) \in [U -> Nat] /\ SizeMap(U) \in [U -> Int]
  BY <1>3, SizesAreMapped
<1>5. PICK h : IsSum(h, SizeMap(U), U)
  BY <1>3, <1>4, SumExists
<1>6. Weight(G) = h[G] /\ Weight(H) = h[H]
  BY <1>3, <1>5, WeightIs
<1>7. SizeOf(s) = h[A]
  <2>1. s \in Seq(U)
    <3>1. \A i \in 1..Len(s) : s[i] \in U
      BY <1>1, <1>2 DEF ToSet
    <3> QED
      BY <3>1
  <2> QED
    BY <1>1, <1>3, <1>5, <2>1, SizeOfSet
<1>8. PICK B \in SUBSET U, C \in SUBSET U, D \in SUBSET U : B = A \ G /\ C = A \cap G /\ D = U \ H
  BY <1>3
<1>9. h[G] \in Nat /\ h[H] \in Nat /\ h[A] \in Nat /\ h[B] \in Nat /\ h[C] \in Nat /\ h[D] \in Nat
  BY <1>3, <1>4, <1>5, <1>8, SumOfNaturals
<1>10. h[G \cup B] = h[G] + h[B] /\ h[C \cup B] = h[C] + h[B] /\ h[H \cup D] = h[H] + h[D]
  <2>1. G \cap B = {} /\ C \cap B = {} /\ H \cap D = {}
    BY <1>8
  <2> QED
    BY <1>3, <1>4, <1>5, <1>8, <2>1, SumOfParts
<1>11. G \cup B = U /\ C \cup B = A /\ H \cup D = U
  BY <1>2, <1>3, <1>8
<1>12. h[U] = h[G] + h[B] /\ h[A] = h[C] + h[B] /\ h[U] = h[H] + h[D]
  BY <1>10, <1>11
<1>13. h[H] <= h[G] + h[A]
  BY SMTT(60), <1>9, <1>12
<1> QED
  BY <1>6, <1>7, <1>9, <1>13

LEMMA WeightLess ==
  ASSUME NEW G \in SUBSET LogRecord, IsFiniteSet(G), NEW H, H \subseteq G
  PROVE  Weight(G) \in Nat /\ Weight(H) \in Nat /\ Weight(H) <= Weight(G)
<1>1. PICK s \in Seq(LogRecord) : s = <<>>
  BY EmptySeq
<1>2. Distinct(s) /\ ToSet(s) = {} /\ SizeOf(s) = 0
  BY <1>1, SizeOfNone DEF Distinct, ToSet
<1>3. H \subseteq G \cup ToSet(s)
  BY <1>2
<1>4. Weight(G) \in Nat /\ Weight(H) \in Nat /\ Weight(H) <= Weight(G) + SizeOf(s)
  BY <1>2, <1>3, WeightGrows
<1> QED
  BY <1>2, <1>4

LEMMA NoWeight == Weight({}) = 0
<1>1. IsFiniteSet({})
  BY FS_EmptySet
<1>2. PICK s \in Seq({}) : s = SetToSeq({})
  BY <1>1, SeqOfSet
<1>3. s = <<>>
  OBVIOUS
<1> QED
  BY <1>2, <1>3, SizeOfNone DEF Weight

(***************************************************************************)
(* The reader.                                                             *)
(***************************************************************************)

\* How far the reader has come, and what was lost by the first page.
Reached(last, lost, after, through, before) ==
  /\ last \in Nat /\ lost \in Nat /\ after \in Nat /\ through \in Nat /\ before \in Nat
  /\ after <= through /\ through <= last /\ before <= lost

\* What was read is of the snapshot, in order, up to there.
ReadInOrder(after, through, got, snapshot) ==
  /\ snapshot \in SUBSET LogRecord /\ IsFiniteSet(snapshot)
  /\ \A r \in snapshot : r.id <= through
  /\ got \in Seq(LogRecord) /\ ToSet(got) \subseteq snapshot
  /\ \A i, j \in 1..Len(got) : i < j => got[i].id < got[j].id
  /\ \A i \in 1..Len(got) : got[i].id <= after

\* What is still stored of the snapshot was read, or will be.
Within(recs, after, through, got, snapshot) ==
  \A i \in 1..Len(recs) : /\ recs[i].id <= through => recs[i] \in snapshot
                          /\ recs[i].id <= after => recs[i] \in ToSet(got)

\* What is not is in the dropped bytes; if there are none, everything was read.
Accounted(recs, lost, after, got, snapshot, before) ==
  /\ Weight(snapshot \ ToSet(recs)) <= lost - before
  /\ lost = 0 => Len(got) = after /\ \A i \in 1..after : got[i] = recs[i]

Follows(recs, last, lost, after, through, got, snapshot, before) ==
  /\ Reached(last, lost, after, through, before)
  /\ ReadInOrder(after, through, got, snapshot)
  /\ Within(recs, after, through, got, snapshot)
  /\ Accounted(recs, lost, after, got, snapshot, before)

\* It stays so when records are stored and the oldest go.
LEMMA CutFollows ==
  ASSUME NEW recs \in Seq(LogRecord), NEW last, NEW lost, NEW after, NEW through, NEW got,
         NEW snapshot, NEW before,
         Follows(recs, last, lost, after, through, got, snapshot, before),
         NEW all \in Seq(LogRecord), NEW newLast \in Nat, Numbered(all, newLast), last <= newLast,
         Len(recs) <= Len(all), \A i \in 1..Len(recs) : all[i] = recs[i],
         \A i \in 1..Len(all) : i > Len(recs) => all[i].id > last,
         NEW k \in 0..Len(all), NEW cut \in Nat, NEW newLost,
         newLost = lost + cut + SizeOf(Cropped(all, k)),
         lost = 0 => Len(recs) = last
  PROVE  Follows(Rest(all, k), newLast, newLost, after, through, got, snapshot, before)
<1>1. PICK r \in Seq(LogRecord) : r = Rest(all, k) /\ Len(r) = Len(all) - k
                               /\ \A i \in 1..(Len(all) - k) : r[i] = all[k + i]
  BY RestIs
<1>2. PICK f \in Seq(LogRecord) : f = Cropped(all, k) /\ Len(f) = k /\ (\A i \in 1..k : f[i] = all[i])
                               /\ SizeOf(f) \in Nat /\ (SizeOf(f) = 0 => k = 0)
  BY RestIs
<1>3. PICK m \in Nat, n \in Nat : m = Len(recs) /\ n = Len(all)
  OBVIOUS
<1>4. m <= n /\ k \in 0..n /\ (\A i \in 1..m : all[i] = recs[i])
      /\ \A i \in 1..n : i > m => all[i].id > last
  BY <1>3
<1>5. Reached(last, lost, after, through, before)
  BY DEF Follows
<1>6. Reached(newLast, newLost, after, through, before)
  <2>1. newLost \in Nat /\ lost <= newLost
    BY <1>2, <1>5 DEF Reached
  <2> QED
    BY <1>5, <2>1 DEF Reached
<1>7. ReadInOrder(after, through, got, snapshot)
  BY DEF Follows
<1>8. \A i \in 1..n : all[i] \in LogRecord /\ all[i].id \in Nat
  <2>1. ASSUME NEW i \in 1..n PROVE all[i] \in LogRecord
    BY <1>3
  <2> QED
    BY <2>1 DEF LogRecord
<1>9. ASSUME NEW i \in 1..n
      PROVE  /\ all[i].id <= through => all[i] \in snapshot
             /\ all[i].id <= after => all[i] \in ToSet(got)
  <2>1. CASE i > m
    <3>1. all[i].id > last /\ all[i].id \in Nat
      BY <1>4, <1>8, <2>1
    <3>2. ~(all[i].id <= through) /\ ~(all[i].id <= after)
      BY SMTT(60), <1>5, <3>1 DEF Reached
    <3> QED
      BY <3>2
  <2>2. CASE i \in 1..m
    BY <1>3, <1>4, <2>2 DEF Follows, Within
  <2> QED
    BY <2>1, <2>2
<1>10. Within(r, after, through, got, snapshot)
  <2>1. ASSUME NEW i \in 1..(n - k) PROVE k + i \in 1..n /\ r[i] = all[k + i]
    BY <1>1, <1>3, <1>4
  <2> QED
    BY <1>1, <1>3, <1>9, <2>1 DEF Within
<1>11. Distinct(f)
  <2>1. n <= newLast /\ \A i \in 1..n : all[i].id = (newLast - n) + i
    BY <1>3 DEF Numbered
  <2>2. ASSUME NEW i \in 1..k, NEW j \in 1..k, f[i] = f[j] PROVE i = j
    <3>1. i \in 1..n /\ j \in 1..n /\ all[i] = all[j]
      BY <1>2, <1>4, <2>2
    <3>2. (newLast - n) + i = (newLast - n) + j
      BY <2>1, <3>1
    <3> QED
      BY <3>2
  <2> QED
    BY <1>2, <2>2 DEF Distinct
<1>12. PICK G \in SUBSET LogRecord : G = snapshot \ ToSet(recs) /\ IsFiniteSet(G)
  <2>1. snapshot \in SUBSET LogRecord /\ IsFiniteSet(snapshot)
    BY <1>7 DEF ReadInOrder
  <2>2. snapshot \ ToSet(recs) \in SUBSET snapshot
    OBVIOUS
  <2>3. IsFiniteSet(snapshot \ ToSet(recs))
    BY <2>1, <2>2, FS_Subset
  <2> QED
    BY <2>1, <2>2, <2>3
<1>13. PICK H : H = snapshot \ ToSet(r)
  OBVIOUS
<1>14. H \subseteq G \cup ToSet(f)
  <2>1. ASSUME NEW x \in H, x \notin G PROVE x \in ToSet(f)
    <3>1. x \in ToSet(recs) /\ x \notin ToSet(r)
      BY <1>12, <1>13, <2>1
    <3>2. PICK i \in 1..m : x = recs[i]
      BY <1>3, <3>1 DEF ToSet
    <3>3. x = all[i] /\ i \in 1..n
      BY <1>4, <3>2
    <3>4. i <= k
      <4>1. SUFFICES ASSUME i > k PROVE FALSE
        BY <1>4
      <4>2. i - k \in 1..(n - k) /\ k + (i - k) = i
        BY <1>4, <3>3, <4>1
      <4>3. r[i - k] = x /\ i - k \in 1..Len(r)
        BY <1>1, <1>3, <3>3, <4>2
      <4> QED
        BY SMTT(60), <3>1, <4>3 DEF ToSet
    <3>5. i \in 1..k
      BY <3>4
    <3>6. f[i] = x /\ i \in DOMAIN f
      BY <1>2, <3>3, <3>5
    <3> QED
      BY <3>6 DEF ToSet
  <2> QED
    BY <2>1
<1>15. Weight(H) <= newLost - before
  <2>1. /\ Weight(G) \in Nat /\ Weight(H) \in Nat /\ SizeOf(f) \in Nat
        /\ Weight(H) <= Weight(G) + SizeOf(f)
    BY <1>11, <1>12, <1>14, WeightGrows
  <2>2. Weight(G) <= lost - before
    BY <1>12 DEF Follows, Accounted
  <2>3. newLost = lost + cut + SizeOf(f) /\ lost \in Nat /\ before \in Nat
    BY <1>2, <1>5 DEF Reached
  <2> QED
    BY SMTT(60), <2>1, <2>2, <2>3
<1>16. ASSUME newLost = 0 PROVE Len(got) = after /\ \A i \in 1..after : got[i] = r[i]
  <2>1. lost = 0 /\ SizeOf(f) = 0
    <3>1. newLost = lost + cut + SizeOf(f) /\ lost \in Nat
      BY <1>2, <1>5 DEF Reached
    <3> QED
      BY <1>2, <1>16, <3>1
  <2>2. k = 0 /\ m = last
    BY <1>2, <1>3, <2>1
  <2>3. Len(got) = after /\ \A i \in 1..after : got[i] = recs[i]
    BY <2>1 DEF Follows, Accounted
  <2>4. ASSUME NEW i \in 1..after PROVE got[i] = r[i]
    <3>1. i \in 1..m /\ i \in 1..n
      BY <1>4, <1>5, <2>2 DEF Reached
    <3>2. r[i] = all[i]
      BY <1>1, <1>3, <2>2, <3>1
    <3> QED
      BY <1>4, <2>3, <3>1, <3>2
  <2> QED
    BY <2>3, <2>4
<1>17. Accounted(r, newLost, after, got, snapshot, before)
  BY <1>13, <1>15, <1>16 DEF Accounted
<1> QED
  BY <1>1, <1>6, <1>7, <1>10, <1>17 DEF Follows

\* The first u records have an id up to this one.
Reaches(recs, u, id) == u \in 0..Len(recs) /\ \A i \in 1..Len(recs) : i <= u <=> recs[i].id <= id

\* The records after the first u, up to the first v.
Slice(recs, u, v) == SubSeq(recs, u + 1, v)

LEMMA SliceIs ==
  ASSUME NEW recs \in Seq(LogRecord), NEW u \in 0..Len(recs), NEW v \in 0..Len(recs), u <= v
  PROVE  /\ Slice(recs, u, v) \in Seq(LogRecord) /\ Len(Slice(recs, u, v)) = v - u
         /\ \A i \in 1..(v - u) : Slice(recs, u, v)[i] = recs[u + i]
<1>1. PICK m \in Nat : m = Len(recs)
  OBVIOUS
<1>2. /\ SubSeq(recs, u + 1, v) \in Seq(LogRecord) /\ Len(SubSeq(recs, u + 1, v)) = v - u
      /\ \A i \in 1..(v - u) : SubSeq(recs, u + 1, v)[i] = recs[(u + 1) + i - 1]
  BY <1>1
<1>3. \A i \in 1..(v - u) : (u + 1) + i - 1 = u + i
  BY <1>1
<1> QED
  BY <1>2, <1>3 DEF Slice

\* The records are in the order of their ids.
LEMMA UptoIs ==
  ASSUME NEW recs \in Seq(LogRecord), NEW last \in Nat, Numbered(recs, last), NEW id \in Nat, id <= last
  PROVE  Reaches(recs, Upto(recs, id), id)
<1>1. PICK m \in Nat : m = Len(recs)
  OBVIOUS
<1>2. m <= last /\ \A i \in 1..m : recs[i].id = (last - m) + i
  BY <1>1 DEF Numbered
<1>3. \E n \in 0..m : \A i \in 1..m : i <= n <=> recs[i].id <= id
  <2>1. CASE id <= last - m
    <3>1. 0 \in 0..m /\ \A i \in 1..m : i <= 0 <=> recs[i].id <= id
      BY <1>2, <2>1
    <3> QED
      BY <3>1
  <2>2. CASE id > last - m
    <3>1. PICK n \in 0..m : n = id - (last - m)
      BY <1>2, <2>2
    <3>2. \A i \in 1..m : i <= n <=> recs[i].id <= id
      BY <1>2, <3>1
    <3> QED
      BY <3>2
  <2> QED
    BY <1>2, <2>1, <2>2
<1>4. DOMAIN recs = 1..m
  BY <1>1
<1> QED
  BY <1>1, <1>3, <1>4 DEF Upto, Reaches

LEMMA SameEnd ==
  ASSUME NEW m \in Nat, NEW u \in 0..m, NEW v \in 0..m, \A i \in 1..m : i <= u <=> i <= v
  PROVE  u = v
<1>1. ASSUME u < v PROVE FALSE
  <2>1. PICK i \in 1..m : i = v
    BY <1>1
  <2>2. i <= v /\ ~(i <= u)
    BY <1>1, <2>1
  <2> QED
    BY <2>2
<1>2. ASSUME v < u PROVE FALSE
  <2>1. PICK i \in 1..m : i = u
    BY <1>2
  <2>2. i <= u /\ ~(i <= v)
    BY <1>2, <2>1
  <2> QED
    BY <2>2
<1> QED
  BY <1>1, <1>2

\* The next records up to some id are read.
LEMMA PageFollows ==
  ASSUME NEW kept \in Seq(LogRecord), NEW last, NEW lost, NEW after, NEW through, NEW got,
         NEW snapshot, NEW before,
         Follows(kept, last, lost, after, through, got, snapshot, before), Numbered(kept, last),
         lost = 0 => Len(kept) = last,
         NEW a \in Nat, after <= a, a <= through,
         NEW u, Reaches(kept, u, after), NEW v, Reaches(kept, v, a)
  PROVE  /\ u <= v
         /\ Follows(kept, last, lost, a, through, got \o Slice(kept, u, v), snapshot, before)
<1>1. PICK m \in Nat : m = Len(kept)
  OBVIOUS
<1>2. /\ u \in 0..m /\ \A i \in 1..m : i <= u <=> kept[i].id <= after
      /\ v \in 0..m /\ \A i \in 1..m : i <= v <=> kept[i].id <= a
      /\ m <= last /\ \A i \in 1..m : kept[i].id = (last - m) + i
  BY <1>1 DEF Numbered, Reaches
<1>3. Reached(last, lost, after, through, before)
  BY DEF Follows
<1>4. u <= v
  <2>1. SUFFICES ASSUME v < u PROVE FALSE
    BY <1>2
  <2>2. u \in 1..m /\ kept[u].id <= after /\ kept[u].id = (last - m) + u
    BY <1>2, <2>1
  <2>3. kept[u].id <= a
    BY <1>2, <1>3, <2>2 DEF Reached
  <2> QED
    BY <1>2, <2>1, <2>2, <2>3
<1>5. PICK page \in Seq(LogRecord) : page = Slice(kept, u, v) /\ Len(page) = v - u
                                  /\ \A i \in 1..(v - u) : page[i] = kept[u + i]
  <2>1. /\ Slice(kept, u, v) \in Seq(LogRecord) /\ Len(Slice(kept, u, v)) = v - u
        /\ \A i \in 1..(v - u) : Slice(kept, u, v)[i] = kept[u + i]
    BY <1>1, <1>2, <1>4, SliceIs
  <2> QED
    BY <2>1
<1>6. ReadInOrder(after, through, got, snapshot) /\ Within(kept, after, through, got, snapshot)
  BY DEF Follows
<1>7. PICK l \in Nat : l = Len(got) /\ got \in Seq(LogRecord)
  BY <1>6 DEF ReadInOrder
<1>8. PICK all \in Seq(LogRecord) : all = got \o page /\ Len(all) = l + (v - u)
                                 /\ (\A i \in 1..l : all[i] = got[i])
                                 /\ \A i \in 1..(v - u) : all[l + i] = page[i]
  <2>1. /\ got \o page \in Seq(LogRecord) /\ Len(got \o page) = l + (v - u)
        /\ \A i \in 1..l : (got \o page)[i] = got[i]
        /\ \A i \in 1..(v - u) : (got \o page)[l + i] = page[i]
    <3>1. PICK j \in Nat : j = v - u
      BY <1>2, <1>4
    <3>2. /\ got \in Seq(LogRecord) /\ page \in Seq(LogRecord) /\ Len(got) = l /\ Len(page) = j
      BY <1>5, <1>7, <3>1
    <3>3. /\ got \o page \in Seq(LogRecord) /\ Len(got \o page) = l + j
          /\ \A i \in 1..l : (got \o page)[i] = got[i]
          /\ \A i \in 1..j : (got \o page)[l + i] = page[i]
      <4>1. got \o page \in Seq(LogRecord) /\ Len(got \o page) = l + j
        BY <3>2, ConcatProperties
      <4>2. ASSUME NEW i \in 1..l PROVE (got \o page)[i] = got[i]
        BY <3>2
      <4>3. ASSUME NEW i \in 1..j PROVE (got \o page)[l + i] = page[i]
        <5>1. PICK x \in 1..(l + j) : x = l + i /\ ~(x <= l) /\ x - l = i
          OBVIOUS
        <5>2. (got \o page)[x] = page[x - l]
          BY <3>2, <5>1, ConcatProperties
        <5> QED
          BY <5>1, <5>2
      <4> QED
        BY <4>1, <4>2, <4>3
    <3> QED
      BY <3>1, <3>3
  <2> QED
    BY <2>1
<1>9. ASSUME NEW i \in 1..(v - u)
      PROVE  /\ u + i \in 1..m /\ page[i] = kept[u + i] /\ page[i].id = (last - m) + (u + i)
             /\ page[i].id <= a /\ ~(page[i].id <= after) /\ page[i] \in snapshot
  <2>1. u + i \in 1..m /\ page[i] = kept[u + i] /\ u + i <= v /\ ~(u + i <= u)
    BY <1>2, <1>5
  <2>2. kept[u + i].id <= a /\ ~(kept[u + i].id <= after) /\ kept[u + i].id = (last - m) + (u + i)
    BY <1>2, <2>1
  <2>3. kept[u + i].id <= through
    BY <1>2, <1>3, <2>2 DEF Reached
  <2>4. kept[u + i] \in snapshot
    BY <1>1, <1>6, <2>1, <2>3 DEF Within
  <2> QED
    BY <2>1, <2>2, <2>4
<1>10. ASSUME NEW i \in 1..l PROVE got[i].id \in Nat /\ got[i].id <= after /\ got[i] \in snapshot
  <2>1. got[i] \in LogRecord /\ got[i] \in ToSet(got)
    BY SMTT(60), <1>7 DEF ToSet
  <2>2. got[i].id \in Nat
    BY <2>1 DEF LogRecord
  <2> QED
    BY <1>6, <1>7, <2>1, <2>2 DEF ReadInOrder
<1>11. ASSUME NEW i \in 1..(l + (v - u)) PROVE i \in 1..l \/ \E j \in 1..(v - u) : i = l + j
  <2>1. CASE i > l
    <3>1. i - l \in 1..(v - u) /\ i = l + (i - l)
      BY <1>2, <1>4, <2>1
    <3> QED
      BY <3>1
  <2> QED
    BY <2>1
<1>12. ASSUME NEW i \in 1..(l + (v - u)) PROVE all[i] \in snapshot /\ all[i].id <= a
  <2>1. CASE i \in 1..l
    <3>1. all[i] = got[i] /\ got[i].id <= after /\ got[i].id \in Nat /\ got[i] \in snapshot
      BY <1>8, <1>10, <2>1
    <3>2. got[i].id <= a
      BY SMTT(60), <1>3, <3>1 DEF Reached
    <3> QED
      BY <3>1, <3>2
  <2>2. CASE \E j \in 1..(v - u) : i = l + j
    BY <1>8, <1>9, <2>2
  <2> QED
    BY <1>11, <2>1, <2>2
<1>13. ASSUME NEW i \in 1..(l + (v - u)), NEW j \in 1..(l + (v - u)), i < j
       PROVE  all[i].id < all[j].id
  <2>1. CASE j \in 1..l
    <3>1. i \in 1..l
      BY <1>13, <2>1
    <3> QED
      BY <1>6, <1>7, <1>8, <1>13, <2>1, <3>1 DEF ReadInOrder
  <2>2. CASE \E y \in 1..(v - u) : j = l + y
    <3>1. PICK y \in 1..(v - u) : j = l + y
      BY <2>2
    <3>2. all[j].id = (last - m) + (u + y) /\ ~(all[j].id <= after)
      BY <1>8, <1>9, <3>1
    <3>3. CASE i \in 1..l
      <4>1. all[i].id \in Nat /\ all[i].id <= after
        BY <1>8, <1>10, <3>3
      <4>2. all[j].id \in Int /\ after \in Nat
        BY <1>2, <1>3, <3>2 DEF Reached
      <4> QED
        BY SMTT(60), <3>2, <4>1, <4>2
    <3>4. CASE \E x \in 1..(v - u) : i = l + x
      <4>1. PICK x \in 1..(v - u) : i = l + x
        BY <3>4
      <4>2. all[i].id = (last - m) + (u + x)
        BY <1>8, <1>9, <4>1
      <4>3. x < y
        BY <1>13, <3>1, <4>1
      <4>4. last \in Nat
        BY <1>3 DEF Reached
      <4> QED
        BY <1>2, <3>2, <4>2, <4>3, <4>4
    <3> QED
      BY <1>11, <3>3, <3>4
  <2> QED
    BY <1>11, <2>1, <2>2
<1>14. ReadInOrder(a, through, all, snapshot)
  <2>1. ToSet(all) \subseteq snapshot
    BY <1>8, <1>12 DEF ToSet
  <2> QED
    BY <1>6, <1>8, <1>12, <1>13, <2>1 DEF ReadInOrder
<1>15. ASSUME NEW i \in 1..m, kept[i].id <= a PROVE kept[i] \in ToSet(all)
  <2>1. i <= v
    BY <1>2, <1>15
  <2>2. CASE i <= u
    <3>1. kept[i] \in ToSet(got)
      BY <1>1, <1>2, <1>6, <2>2 DEF Within
    <3>2. PICK j \in 1..l : got[j] = kept[i]
      BY <1>7, <3>1 DEF ToSet
    <3>3. all[j] = kept[i] /\ j \in 1..Len(all)
      BY <1>2, <1>4, <1>8, <3>2
    <3> QED
      BY <3>3 DEF ToSet
  <2>3. CASE i > u
    <3>1. i - u \in 1..(v - u) /\ u + (i - u) = i
      BY <1>2, <2>1, <2>3
    <3>2. all[l + (i - u)] = kept[i]
      BY <1>5, <1>8, <3>1
    <3>3. l + (i - u) \in 1..Len(all)
      BY <1>2, <1>4, <1>8, <3>1
    <3> QED
      BY <3>2, <3>3 DEF ToSet
  <2> QED
    BY <1>2, <2>2, <2>3
<1>16. Within(kept, a, through, all, snapshot)
  BY <1>1, <1>6, <1>15 DEF Within
<1>17. ASSUME lost = 0 PROVE Len(all) = a /\ \A i \in 1..a : all[i] = kept[i]
  <2>1. l = after /\ (\A i \in 1..after : got[i] = kept[i]) /\ m = last
    BY <1>1, <1>7, <1>17 DEF Follows, Accounted
  <2>2. \A i \in 1..m : kept[i].id = i
    BY <1>2, <2>1
  <2>3. u = after
    <3>1. after \in 0..m
      BY <1>3, <2>1 DEF Reached
    <3>2. \A i \in 1..m : i <= u <=> i <= after
      BY <1>2, <2>2
    <3> QED
      BY <1>2, <3>1, <3>2, SameEnd
  <2>4. v = a
    <3>1. a \in 0..m
      BY <1>3, <2>1 DEF Reached
    <3>2. \A i \in 1..m : i <= v <=> i <= a
      BY <1>2, <2>2
    <3> QED
      BY <1>2, <3>1, <3>2, SameEnd
  <2>5. Len(all) = a
    BY <1>3, <1>8, <2>1, <2>3, <2>4 DEF Reached
  <2>6. ASSUME NEW i \in 1..a PROVE all[i] = kept[i]
    <3>1. CASE i \in 1..l
      BY <1>8, <2>1, <3>1
    <3>2. CASE \E j \in 1..(v - u) : i = l + j
      <4>1. PICK j \in 1..(v - u) : i = l + j
        BY <3>2
      <4>2. all[i] = page[j] /\ page[j] = kept[u + j] /\ u + j = i
        BY <1>8, <1>9, <2>1, <2>3, <4>1
      <4> QED
        BY <4>2
    <3>3. i \in 1..(l + (v - u))
      BY <1>3, <2>1, <2>3, <2>4 DEF Reached
    <3> QED
      BY <1>11, <3>1, <3>2, <3>3
  <2> QED
    BY <2>5, <2>6
<1>18. Reached(last, lost, a, through, before)
  BY <1>3 DEF Reached
<1>19. Accounted(kept, lost, a, all, snapshot, before)
  BY <1>17 DEF Follows, Accounted
<1> QED
  BY <1>4, <1>5, <1>8, <1>14, <1>16, <1>18, <1>19 DEF Follows

\* A page of at most n records brings the reader to its last one, and the last page to the
\* end of the snapshot.
LEMMA RowsFollow ==
  ASSUME NEW kept \in Seq(LogRecord), NEW last, NEW lost, NEW after, NEW through, NEW got,
         NEW snapshot, NEW before,
         Follows(kept, last, lost, after, through, got, snapshot, before), Numbered(kept, last),
         lost = 0 => Len(kept) = last,
         NEW n \in Nat \ {0},
         NEW rows, rows = SubSeq(kept, Upto(kept, after) + 1, Upto(kept, through)),
         NEW page, page = Limited(rows, n)
  PROVE  /\ page \in Seq(LogRecord)
         /\ Len(rows) > n =>
              /\ page # <<>>
              /\ Follows(kept, last, lost, Last(page).id, through, got \o page, snapshot, before)
         /\ ~(Len(rows) > n) =>
              Follows(kept, last, lost, through, through, got \o page, snapshot, before)
<1>1. /\ last \in Nat /\ after \in Nat /\ through \in Nat /\ after <= through /\ through <= last
      /\ after <= last
  BY DEF Follows, Reached
<1>2. PICK m \in Nat : m = Len(kept)
  OBVIOUS
<1>3. PICK u : u = Upto(kept, after) /\ Reaches(kept, u, after)
  BY <1>1, UptoIs
<1>4. PICK w : w = Upto(kept, through) /\ Reaches(kept, w, through)
  BY <1>1, UptoIs
<1>5. u <= w /\ Follows(kept, last, lost, through, through, got \o Slice(kept, u, w), snapshot, before)
  <2>1. through <= through
    BY <1>1
  <2> QED
    BY <1>1, <1>3, <1>4, <2>1, PageFollows
<1>6. u \in 0..m /\ w \in 0..m /\ u \in 0..Len(kept) /\ w \in 0..Len(kept)
  BY <1>2, <1>3, <1>4 DEF Reaches
<1>7. PICK t \in Seq(LogRecord) : t = rows /\ t = Slice(kept, u, w) /\ Len(t) = w - u
                               /\ \A i \in 1..(w - u) : t[i] = kept[u + i]
  <2>1. rows = Slice(kept, u, w)
    BY <1>3, <1>4 DEF Slice
  <2> QED
    BY <1>5, <1>6, <2>1, SliceIs
<1>8. ASSUME Len(rows) > n
      PROVE  /\ page # <<>> /\ page \in Seq(LogRecord)
             /\ Follows(kept, last, lost, Last(page).id, through, got \o page, snapshot, before)
  <2>1. PICK v \in 0..m : v = u + n
    BY <1>6, <1>7, <1>8
  <2>2. v <= w /\ v \in 1..m /\ n \in 1..(w - u) /\ v - u = n /\ u <= v /\ v \in 0..Len(kept)
    BY <1>2, <1>6, <1>7, <1>8, <2>1
  <2>3. PICK p \in Seq(LogRecord) : p = page /\ Len(p) = n /\ \A i \in 1..n : p[i] = kept[u + i]
    <3>1. page = Slice(t, 0, n)
      BY <1>7, <1>8 DEF Limited, Slice
    <3>2. PICK z \in 0..Len(t) : z = 0
      BY <1>6, <1>7
    <3>3. n \in 0..Len(t) /\ z <= n
      BY <1>6, <1>7, <2>2, <3>2
    <3>4. /\ Slice(t, z, n) \in Seq(LogRecord) /\ Len(Slice(t, z, n)) = n - z
          /\ \A i \in 1..(n - z) : Slice(t, z, n)[i] = t[z + i]
      BY <3>3, SliceIs
    <3>5. n - z = n /\ \A i \in 1..n : z + i = i /\ i \in 1..(w - u)
      BY <1>6, <2>2, <3>2
    <3>6. \A i \in 1..n : Slice(t, z, n)[i] = kept[u + i]
      BY <1>7, <3>4, <3>5
    <3> QED
      BY <3>1, <3>2, <3>4, <3>5, <3>6
  <2>4. PICK q \in Seq(LogRecord) : q = Slice(kept, u, v) /\ Len(q) = n
                                 /\ \A i \in 1..n : q[i] = kept[u + i]
    BY ZenonT(60), <1>6, <2>2, SliceIs
  <2>5. p = q
    <3>1. p \in Seq(LogRecord) /\ q \in Seq(LogRecord) /\ Len(p) = Len(q)
      BY <2>3, <2>4
    <3>2. ASSUME NEW i \in 1..Len(p) PROVE p[i] = q[i]
      <4>1. i \in 1..n
        BY <2>3, <3>2
      <4> QED
        BY <2>3, <2>4, <4>1
    <3> QED
      BY <3>1, <3>2, SeqEqual
  <2>6. page # <<>> /\ Last(page) = kept[v]
    BY <2>1, <2>3 DEF Last
  <2>7. PICK a \in Nat : a = kept[v].id
    <3>1. kept[v] \in LogRecord
      BY <1>2, <2>2
    <3> QED
      BY <3>1 DEF LogRecord
  <2>8. after <= a /\ a <= through
    <3>1. ~(v <= u)
      BY <1>6, <2>1
    <3>2. ~(kept[v].id <= after) /\ kept[v].id <= through
      BY <1>2, <1>3, <1>4, <2>2, <3>1 DEF Reaches
    <3> QED
      BY SMTT(60), <1>1, <2>7, <3>2
  <2>9. Reaches(kept, v, a)
    <3>1. \A i \in 1..m : kept[i].id = (last - m) + i
      BY <1>2 DEF Numbered
    <3>2. a = (last - m) + v
      BY <2>2, <2>7, <3>1
    <3>3. ASSUME NEW i \in 1..m PROVE i <= v <=> kept[i].id <= a
      <4>1. PICK d \in Int : d = last - m
        BY <1>1
      <4>2. kept[i].id = d + i /\ a = d + v
        BY <3>1, <3>2, <4>1
      <4>3. v \in Int /\ i \in Int
        BY <2>1
      <4> QED
        BY <4>2, <4>3
    <3> QED
      BY <1>2, <2>2, <3>3 DEF Reaches
  <2>10. Follows(kept, last, lost, a, through, got \o Slice(kept, u, v), snapshot, before)
    BY <1>3, <2>7, <2>8, <2>9, PageFollows
  <2> QED
    BY <2>3, <2>4, <2>5, <2>6, <2>7, <2>10
<1>9. ASSUME ~(Len(rows) > n) PROVE page = Slice(kept, u, w) /\ page \in Seq(LogRecord)
  BY <1>7, <1>9 DEF Limited
<1> QED
  BY <1>5, <1>8, <1>9

\* What the first page starts from.
LEMMA FirstFollows ==
  ASSUME NEW kept \in Seq(LogRecord), NEW last \in Nat, Numbered(kept, last), NEW lost \in Nat,
         NEW through, through = IF kept = <<>> THEN 0 ELSE Last(kept).id
  PROVE  Follows(kept, last, lost, 0, through, <<>>, ToSet(kept), lost)
<1>1. PICK m \in Nat : m = Len(kept)
  OBVIOUS
<1>2. m <= last /\ \A i \in 1..m : kept[i].id = (last - m) + i
  BY <1>1 DEF Numbered
<1>3. through \in Nat /\ through <= last /\ \A i \in 1..m : kept[i].id <= through /\ ~(kept[i].id <= 0)
  <2>1. CASE kept = <<>>
    BY <1>1, <2>1
  <2>2. CASE kept # <<>>
    <3>1. m \in 1..m
      BY <1>1, <2>2
    <3>2. through = (last - m) + m
      BY <1>1, <1>2, <2>2, <3>1 DEF Last
    <3> QED
      BY <1>2, <3>2
  <2> QED
    BY <2>1, <2>2
<1>4. Reached(last, lost, 0, through, lost)
  BY <1>3 DEF Reached
<1>5. PICK S \in SUBSET LogRecord : S = ToSet(kept) /\ IsFiniteSet(S)
  BY RecordsAreFinite
<1>6. \A r \in S : r.id <= through
  BY <1>1, <1>3, <1>5 DEF ToSet
<1>7. <<>> \in Seq(LogRecord) /\ ToSet(<<>>) = {} /\ Len(<<>>) = 0
  BY EmptySeq DEF ToSet
<1>8. ReadInOrder(0, through, <<>>, S)
  BY <1>5, <1>6, <1>7 DEF ReadInOrder
<1>9. \A i \in 1..m : kept[i] \in S
  BY <1>1, <1>5 DEF ToSet
<1>10. Within(kept, 0, through, <<>>, S)
  BY <1>1, <1>3, <1>9 DEF Within
<1>11. S \ ToSet(kept) = {}
  BY <1>5
<1>12. Accounted(kept, lost, 0, <<>>, S, lost)
  <2>1. Weight(S \ ToSet(kept)) = 0 /\ 0 <= lost - lost
    <3>1. Weight(S \ ToSet(kept)) = 0
      BY <1>11, NoWeight
    <3>2. 0 <= lost - lost
      OBVIOUS
    <3> QED
      BY <3>1, <3>2
  <2>2. 1..0 = {}
    OBVIOUS
  <2> QED
    BY <1>7, <2>1, <2>2 DEF Accounted
<1> QED
  BY <1>4, <1>5, <1>8, <1>10, <1>12 DEF Follows

\* What a reader has not got, up to there, is in the growth of the dropped bytes.
Unread(got, snapshot, after) == {r \in snapshot : r \notin ToSet(got) /\ r.id <= after}

LEMMA FollowsAccounts ==
  ASSUME NEW recs \in Seq(LogRecord), NEW last, NEW lost, NEW after, NEW through, NEW got,
         NEW snapshot, NEW before,
         Follows(recs, last, lost, after, through, got, snapshot, before)
  PROVE  Weight(Unread(got, snapshot, after)) <= lost - before
<1>1. PICK A : A = Unread(got, snapshot, after)
  OBVIOUS
<1>2. PICK G : G = snapshot \ ToSet(recs)
  OBVIOUS
<1>3. A \subseteq G
  <2>1. ASSUME NEW r \in A, r \in ToSet(recs) PROVE FALSE
    <3>1. PICK i \in 1..Len(recs) : r = recs[i]
      BY <2>1 DEF ToSet
    <3>2. r.id <= after /\ r \notin ToSet(got)
      BY <1>1 DEF Unread
    <3> QED
      BY <3>1, <3>2 DEF Follows, Within
  <2> QED
    BY <1>1, <1>2, <2>1 DEF Unread
<1>4. G \in SUBSET LogRecord /\ IsFiniteSet(G)
  <2>1. snapshot \in SUBSET LogRecord /\ IsFiniteSet(snapshot)
    BY DEF Follows, ReadInOrder
  <2>2. G \in SUBSET snapshot
    BY <1>2
  <2> QED
    BY <2>1, <2>2, FS_Subset
<1>5. Weight(G) \in Nat /\ Weight(A) \in Nat /\ Weight(A) <= Weight(G)
  BY <1>3, <1>4, WeightLess
<1>6. Weight(G) <= lost - before /\ lost \in Nat /\ before \in Nat
  BY <1>2 DEF Follows, Accounted, Reached
<1>7. Weight(A) <= lost - before
  BY <1>5, <1>6
<1> QED
  BY <1>1, <1>7

Reader ==
  [state : {"idle", "reading", "done", "tail", "refused"}, after : Nat, through : Nat,
   read : Seq(LogRecord), snapshot : SUBSET LogRecord, before : Nat, dropped : Nat,
   truncated : BOOLEAN]

ReaderInv ==
  /\ reader \in Reader
  /\ reader.state = "idle" => reader.after = 0 /\ reader.read = <<>>
  /\ reader.state = "reading" =>
       Follows(records, lastId, dropped, reader.after, reader.through, reader.read,
               reader.snapshot, reader.before)
  /\ PagesExact /\ GaplessUnlessTold

LogInv == Stored /\ Connected /\ Continues /\ ReaderInv

\* What a reader has read stays of the snapshot whatever becomes of the stream.
LEMMA ShrinksFollows ==
  ASSUME Stored, Shrinks, NEW after, NEW through, NEW got, NEW snapshot, NEW before,
         Follows(records, lastId, dropped, after, through, got, snapshot, before)
  PROVE  Follows(records', lastId', dropped', after, through, got, snapshot, before)
<1>1. PICK k \in 0..Len(records) : Cut(records, k, 0)
  BY DEF Shrinks
<1>2. /\ records \in Seq(LogRecord) /\ lastId \in Nat /\ dropped \in Nat
      /\ Numbered(records, lastId) /\ lastId' = lastId /\ (dropped = 0 => Len(records) = lastId)
  BY DEF Stored, StreamTypes, Shrinks, Complete
<1>3. /\ records' = Rest(records, k) /\ dropped' = dropped + 0 + SizeOf(Cropped(records, k))
  BY <1>1 DEF Cut
<1>4. \A i \in 1..Len(records) : i > Len(records) => records[i].id > lastId
  BY <1>2
<1>5. lastId <= lastId /\ Len(records) <= Len(records)
  BY <1>2
<1>6. Follows(Rest(records, k), lastId, dropped', after, through, got, snapshot, before)
  BY <1>2, <1>3, <1>4, <1>5, CutFollows
<1> QED
  BY <1>2, <1>3, <1>6

LEMMA GrowsFollows ==
  ASSUME Stored, NEW line, Grows(line),
         NEW after, NEW through, NEW got, NEW snapshot, NEW before,
         Follows(records, lastId, dropped, after, through, got, snapshot, before)
  PROVE  Follows(records', lastId', dropped', after, through, got, snapshot, before)
<1>1. PICK size \in Nat \ {0}, cut \in Nat, k \in 0..(Len(records) + 1) :
        /\ Newest(line, size, cut) \in LogRecord
        /\ Cut(Append(records, Newest(line, size, cut)), k, cut)
  BY DEF Grows
<1>2. PICK r \in LogRecord : r = Newest(line, size, cut) /\ r.id = lastId + 1
  BY <1>1 DEF Newest
<1>3. /\ records \in Seq(LogRecord) /\ lastId \in Nat /\ dropped \in Nat /\ StreamTypes
      /\ Numbered(records, lastId) /\ lastId' = lastId + 1 /\ lastId + 1 \in Nat
      /\ (dropped = 0 => Len(records) = lastId) /\ lastId <= lastId + 1
  BY DEF Stored, StreamTypes, Grows, Complete
<1>4. PICK all \in Seq(LogRecord) :
        /\ all = Append(records, r) /\ Numbered(all, lastId + 1) /\ Len(all) = Len(records) + 1
        /\ \A i \in 1..Len(records) : all[i] = records[i]
        /\ all[Len(records) + 1] = r /\ Len(records) \in Nat
  BY <1>2, <1>3, NextIsNumbered, OneMore
<1>5. k \in 0..Len(all) /\ Len(records) <= Len(all)
  BY <1>4
<1>6. /\ records' = Rest(all, k) /\ dropped' = dropped + cut + SizeOf(Cropped(all, k))
  BY <1>1, <1>2, <1>4 DEF Cut
<1>7. \A i \in 1..Len(all) : i > Len(records) => all[i].id > lastId
  <2>1. ASSUME NEW i \in 1..Len(all), i > Len(records) PROVE all[i].id > lastId
    <3>1. i = Len(records) + 1
      BY <1>4, <2>1
    <3> QED
      BY <1>2, <1>3, <1>4, <3>1
  <2> QED
    BY <2>1
<1>8. PICK next \in Nat : next = lastId' /\ Numbered(all, next) /\ lastId <= next
  BY <1>3, <1>4
<1>9. Follows(Rest(all, k), next, dropped', after, through, got, snapshot, before)
  <2>1. records \in Seq(LogRecord) /\ (dropped = 0 => Len(records) = lastId)
    BY <1>3
  <2>2. \A i \in 1..Len(records) : all[i] = records[i]
    BY <1>4
  <2>3. dropped' = dropped + cut + SizeOf(Cropped(all, k))
    BY <1>6
  <2> QED
    BY <1>5, <1>7, <1>8, <2>1, <2>2, <2>3, CutFollows
<1> QED
  BY <1>6, <1>8, <1>9

LEMMA ReaderKept ==
  ASSUME Stored, ReaderInv, UNCHANGED reader, Stays \/ Shrinks \/ \E line : Grows(line)
  PROVE  ReaderInv'
<1>1. ASSUME reader.state = "reading"
      PROVE  Follows(records', lastId', dropped', reader.after, reader.through, reader.read,
                     reader.snapshot, reader.before)
  <2>1. Follows(records, lastId, dropped, reader.after, reader.through, reader.read,
                reader.snapshot, reader.before)
    BY <1>1 DEF ReaderInv
  <2>2. CASE Stays
    BY <2>1, <2>2 DEF Stays
  <2>3. CASE Shrinks
    BY <2>1, <2>3, ShrinksFollows
  <2>4. CASE \E line : Grows(line)
    BY <2>1, <2>4, GrowsFollows
  <2> QED
    BY <2>2, <2>3, <2>4
<1>2. PagesExact' /\ GaplessUnlessTold'
  BY DEF ReaderInv, PagesExact, GaplessUnlessTold, Missing
<1> QED
  BY <1>1, <1>2 DEF ReaderInv

\* The records are in line, and whole, if no loss is told.
LEMMA UntoldLines ==
  ASSUME Stored, Continues, Shrinks, dropped' = 0, ~(interrupted > 0)
  PROVE  /\ records' \in Seq(LogRecord) /\ Len(records') = lastId
         /\ \A i \in 1..Len(records') :
              records'[i].line = records'[1].line + (i - 1) /\ records'[i].cut = 0
<1>1. dropped = 0 /\ records' = records
  BY ShrinksStored
<1>2. interrupted = 0 /\ records \in Seq(LogRecord) /\ Complete(records, lastId)
  BY <1>1 DEF Stored, StreamTypes
<1>3. CASE records = <<>>
  BY <1>1, <1>2, <1>3 DEF Complete
<1>4. CASE records # <<>>
  BY <1>1, <1>2, <1>4 DEF Complete, Continues, Untold, InLine
<1> QED
  BY <1>3, <1>4

\* A page is exact.
ExactSoFar(lost, after, through, got, snapshot, before) ==
  /\ got \in Seq(LogRecord) /\ after \in Nat /\ through \in Nat /\ before \in Nat
  /\ snapshot \in SUBSET LogRecord
  /\ \A i, j \in DOMAIN got : i < j => got[i].id < got[j].id
  /\ ToSet(got) \subseteq snapshot
  /\ SizeOf(SetToSeq(Unread(got, snapshot, after))) <= lost - before
  /\ \A r \in snapshot : r.id <= through

LEMMA FollowsExact ==
  ASSUME NEW recs \in Seq(LogRecord), NEW last, NEW lost, NEW after, NEW through, NEW got,
         NEW snapshot, NEW before,
         Follows(recs, last, lost, after, through, got, snapshot, before)
  PROVE  ExactSoFar(lost, after, through, got, snapshot, before)
<1>1. ReadInOrder(after, through, got, snapshot) /\ Reached(last, lost, after, through, before)
  BY DEF Follows
<1>2. DOMAIN got = 1..Len(got)
  BY <1>1 DEF ReadInOrder
<1>3. SizeOf(SetToSeq(Unread(got, snapshot, after))) <= lost - before
  BY FollowsAccounts DEF Weight
<1> QED
  BY <1>1, <1>2, <1>3 DEF ReadInOrder, Reached, ExactSoFar

LEMMA ReadPageReads ==
  ASSUME Stored, Continues, ReaderInv, ReadPage
  PROVE  ReaderInv'
<1> DEFINE first == reader.state = "idle"
           through == IF ~first THEN reader.through
                      ELSE IF Kept = <<>> THEN 0 ELSE Last(Kept).id
           rows == SubSeq(Kept, Upto(Kept, reader.after) + 1, Upto(Kept, through))
           snapshot == IF first THEN ToSet(Kept) ELSE reader.snapshot
           before == IF first THEN dropped' ELSE reader.before
<1>1. PICK n \in 1..PageLimit :
        reader' =
          [state |-> IF Len(rows) > n THEN "reading" ELSE "done",
           after |-> IF Limited(rows, n) = <<>> THEN reader.after ELSE Last(Limited(rows, n)).id,
           through |-> through,
           read |-> reader.read \o Limited(rows, n),
           snapshot |-> snapshot,
           before |-> before,
           dropped |-> dropped',
           truncated |-> Truncated(dropped', Len(rows) > n)]
  BY DEF ReadPage
<1>2. /\ reader.state \in {"idle", "reading"} /\ Pruned /\ lastId' = lastId
      /\ interrupted' = interrupted /\ records' = Kept /\ Shrinks
  <2>1. /\ reader.state \in {"idle", "reading"} /\ Pruned /\ UNCHANGED <<lastId, interrupted>>
    BY DEF ReadPage
  <2> QED
    BY <2>1, PrunedShrinks DEF Pruned
<1>3. Stored' /\ StreamTypes' /\ Numbered(records', lastId) /\ (dropped' = 0 => Len(records') = lastId)
  BY <1>2, ShrinksStored DEF Stored, Complete
<1>4. PICK kept \in Seq(LogRecord), lost \in Nat, last \in Nat :
        kept = records' /\ lost = dropped' /\ last = lastId
  BY <1>2, <1>3 DEF StreamTypes
<1>5. PICK t, s, b, p, w : t = through /\ s = snapshot /\ b = before /\ w = rows /\ p = Limited(rows, n)
  OBVIOUS
<1>6. Follows(kept, last, lost, reader.after, t, reader.read, s, b)
  <2>1. CASE reader.state = "idle"
    <3>1. /\ t = IF kept = <<>> THEN 0 ELSE Last(kept).id
          /\ s = ToSet(kept) /\ b = lost /\ reader.after = 0 /\ reader.read = <<>>
      BY <1>2, <1>4, <1>5, <2>1 DEF ReaderInv
    <3>2. Follows(kept, last, lost, 0, t, <<>>, ToSet(kept), lost)
      BY <1>3, <1>4, <3>1, FirstFollows
    <3> QED
      BY <3>1, <3>2
  <2>2. CASE reader.state = "reading"
    <3>1. t = reader.through /\ s = reader.snapshot /\ b = reader.before
      BY <1>5, <2>2
    <3>2. Follows(records, lastId, dropped, reader.after, t, reader.read, s, b)
      BY <2>2, <3>1 DEF ReaderInv
    <3>3. Follows(records', lastId', dropped', reader.after, t, reader.read, s, b)
      BY <1>2, <3>2, ShrinksFollows
    <3> QED
      BY <1>2, <1>4, <3>3
  <2> QED
    BY <1>2, <2>1, <2>2
<1>7. n \in Nat \ {0}
  BY LogAssumption
<1>8. /\ p \in Seq(LogRecord)
      /\ Len(w) > n => p # <<>> /\ Follows(kept, last, lost, Last(p).id, t, reader.read \o p, s, b)
      /\ ~(Len(w) > n) => Follows(kept, last, lost, t, t, reader.read \o p, s, b)
  <2>1. w = SubSeq(kept, Upto(kept, reader.after) + 1, Upto(kept, t)) /\ p = Limited(w, n)
    BY <1>2, <1>4, <1>5
  <2>2. Numbered(kept, last) /\ (lost = 0 => Len(kept) = last)
    BY <1>3, <1>4
  <2> HIDE DEF first, through, rows, snapshot, before
  <2> QED
    BY <1>6, <1>7, <2>1, <2>2, RowsFollow
<1>9. /\ reader'.state = (IF Len(w) > n THEN "reading" ELSE "done")
      /\ reader'.after = (IF p = <<>> THEN reader.after ELSE Last(p).id)
      /\ reader'.through = t /\ reader'.read = reader.read \o p /\ reader'.snapshot = s
      /\ reader'.before = b /\ reader'.dropped = lost
      /\ reader'.truncated = Truncated(lost, Len(w) > n)
      /\ reader' = [state |-> reader'.state, after |-> reader'.after, through |-> reader'.through,
                    read |-> reader'.read, snapshot |-> reader'.snapshot, before |-> reader'.before,
                    dropped |-> reader'.dropped, truncated |-> reader'.truncated]
  <2> HIDE DEF first, through, rows, snapshot, before
  <2> QED
    BY <1>1, <1>4, <1>5
<1> HIDE DEF first, through, rows, snapshot, before
<1>10. PICK all, a : all = reader.read \o p /\ a = reader'.after
  OBVIOUS
<1>11. /\ t \in Nat /\ b \in Nat /\ s \in SUBSET LogRecord /\ reader.after \in Nat
  BY <1>6, FollowsExact DEF ExactSoFar
<1>12. CASE Len(w) > n
  <2>1. /\ reader'.state = "reading" /\ a = Last(p).id
        /\ Follows(kept, last, lost, a, t, all, s, b)
    BY <1>8, <1>9, <1>10, <1>12
  <2>2. /\ all \in Seq(LogRecord) /\ a \in Nat
        /\ \A i, j \in DOMAIN all : i < j => all[i].id < all[j].id
        /\ ToSet(all) \subseteq s
        /\ SizeOf(SetToSeq(Unread(all, s, a))) <= lost - b
    BY <2>1, FollowsExact DEF ExactSoFar
  <2>3. reader'.truncated \in BOOLEAN
    BY <1>9 DEF Truncated
  <2>4. reader' \in Reader
    BY <1>9, <1>10, <1>11, <2>1, <2>2, <2>3 DEF Reader
  <2>5. Missing' = Unread(all, s, a)
    BY <1>9, <1>10, <2>1 DEF Missing, Unread
  <2>6. PagesExact'
    BY <1>9, <1>10, <2>2, <2>5 DEF PagesExact
  <2>7. GaplessUnlessTold'
    BY <2>1 DEF GaplessUnlessTold
  <2>8. Follows(records', lastId', dropped', reader'.after, reader'.through, reader'.read,
                reader'.snapshot, reader'.before)
    BY <1>2, <1>4, <1>9, <1>10, <2>1
  <2> QED
    BY <2>1, <2>4, <2>6, <2>7, <2>8 DEF ReaderInv
<1>13. CASE ~(Len(w) > n)
  <2>1. reader'.state = "done" /\ Follows(kept, last, lost, t, t, all, s, b)
    BY <1>8, <1>9, <1>10, <1>13
  <2>2. /\ all \in Seq(LogRecord)
        /\ \A i, j \in DOMAIN all : i < j => all[i].id < all[j].id
        /\ ToSet(all) \subseteq s
        /\ SizeOf(SetToSeq(Unread(all, s, t))) <= lost - b
        /\ \A r \in s : r.id <= t
    BY <2>1, FollowsExact DEF ExactSoFar
  <2>3. reader'.truncated \in BOOLEAN
    BY <1>9 DEF Truncated
  <2>4. a \in Nat
    <3>1. CASE p = <<>>
      BY <1>9, <1>10, <1>11, <3>1
    <3>2. CASE p # <<>>
      <4>1. Len(p) \in 1..Len(p)
        BY <1>8, <3>2, EmptySeq
      <4>2. p[Len(p)] \in LogRecord
        BY <1>8, <4>1
      <4> QED
        BY <1>9, <1>10, <3>2, <4>2 DEF Last, LogRecord
    <3> QED
      BY <3>1, <3>2
  <2>5. reader' \in Reader
    BY <1>9, <1>10, <1>11, <2>1, <2>2, <2>3, <2>4 DEF Reader
  <2>6. Missing' = Unread(all, s, t)
    BY <1>9, <1>10, <2>1, <2>2 DEF Missing, Unread
  <2>7. PagesExact'
    BY <1>9, <1>10, <2>2, <2>6 DEF PagesExact
  <2>8. GaplessUnlessTold'
    <3>1. SUFFICES ASSUME ~reader'.truncated
                   PROVE  \A i \in DOMAIN all : all[i].line = all[1].line + i - 1 /\ all[i].cut = 0
      BY <1>9, <1>10 DEF GaplessUnlessTold
    <3>2. lost = 0 /\ ~(interrupted > 0)
      <4>1. Truncated(lost, Len(w) > n) <=> lost > 0 \/ Len(w) > n \/ interrupted > 0
        BY DEF Truncated
      <4>2. ~(lost > 0) /\ ~(interrupted > 0)
        BY <1>9, <3>1, <4>1
      <4> QED
        BY <1>4, <4>2
    <3>3. /\ Len(kept) = last
          /\ \A i \in 1..Len(kept) : kept[i].line = kept[1].line + (i - 1) /\ kept[i].cut = 0
      BY <1>2, <1>4, <3>2, UntoldLines
    <3>4. Len(all) = t /\ (\A i \in 1..t : all[i] = kept[i]) /\ t <= last
      BY <2>1, <3>2 DEF Follows, Accounted, Reached
    <3>5. ASSUME NEW i \in 1..t PROVE all[i].line = all[1].line + i - 1 /\ all[i].cut = 0
      <4>1. i \in 1..Len(kept) /\ 1 \in 1..t /\ 1 \in 1..Len(kept)
        BY <1>11, <3>3, <3>4
      <4>2. kept[1] \in LogRecord /\ all[i] = kept[i] /\ all[1] = kept[1]
        BY <3>4, <4>1
      <4>3. kept[i].line = kept[1].line + (i - 1) /\ kept[i].cut = 0 /\ kept[1].line \in Nat
        BY <3>3, <4>1, <4>2 DEF LogRecord
      <4> QED
        BY <4>2, <4>3
    <3>6. DOMAIN all = 1..t
      BY <2>2, <3>4
    <3> QED
      BY <3>5, <3>6
  <2> QED
    BY <2>1, <2>5, <2>7, <2>8 DEF ReaderInv
<1> QED
  BY <1>12, <1>13

\* The tail is the last records, or all of them.
LEMMA TailIs ==
  ASSUME NEW kept \in Seq(LogRecord), NEW n \in Nat, NEW page,
         page = Reverse(Limited(Reverse(kept), n))
  PROVE  /\ page \in Seq(LogRecord)
         /\ ~(Len(kept) > n) => page = kept
<1>1. PICK m \in Nat : m = Len(kept)
  OBVIOUS
<1>2. PICK r \in Seq(LogRecord) : r = Reverse(kept) /\ Len(r) = m
                               /\ \A i \in 1..m : r[i] = kept[(m - i) + 1]
  <2>1. \A i \in 1..m : (m - i) + 1 \in 1..m
    OBVIOUS
  <2>2. Reverse(kept) = [i \in 1..m |-> kept[(m - i) + 1]]
    BY <1>1 DEF Reverse
  <2>3. \A i \in 1..m : kept[(m - i) + 1] \in LogRecord
    BY <1>1, <2>1
  <2>4. [i \in 1..m |-> kept[(m - i) + 1]] \in Seq(LogRecord)
    BY <2>3
  <2>5. PICK q \in Seq(LogRecord) : q = [i \in 1..m |-> kept[(m - i) + 1]]
    BY <2>4
  <2>6. Len(q) = m /\ \A i \in 1..m : q[i] = kept[(m - i) + 1]
    BY <2>5
  <2> QED
    BY <2>2, <2>5, <2>6
<1>3. PICK l \in Seq(LogRecord) : l = Limited(r, n) /\ (~(m > n) => l = r)
  <2>1. CASE m > n
    <3>1. n \in 0..Len(r)
      BY <1>2, <2>1
    <3>2. SubSeq(r, 1, n) \in Seq(LogRecord)
      BY <3>1
    <3>3. Limited(r, n) = SubSeq(r, 1, n)
      BY <1>2, <2>1 DEF Limited
    <3> QED
      BY <2>1, <3>2, <3>3
  <2>2. CASE ~(m > n)
    <3>1. Limited(r, n) = r
      BY <1>2, <2>2 DEF Limited
    <3> QED
      BY <3>1
  <2> QED
    BY <2>1, <2>2
<1>4. PICK j \in Nat : j = Len(l)
  OBVIOUS
<1>5. page = [i \in 1..j |-> l[(j - i) + 1]] /\ page \in Seq(LogRecord) /\ Len(page) = j
  <2>1. \A i \in 1..j : (j - i) + 1 \in 1..j
    OBVIOUS
  <2>2. page = [i \in 1..j |-> l[(j - i) + 1]]
    BY <1>2, <1>3, <1>4 DEF Reverse
  <2> QED
    BY <1>4, <2>1, <2>2
<1>6. ASSUME ~(m > n) PROVE page = kept
  <2>1. l = r /\ j = m
    BY <1>2, <1>3, <1>4, <1>6
  <2>2. ASSUME NEW i \in 1..m PROVE page[i] = kept[i]
    <3>1. PICK x \in 1..m : x = (m - i) + 1 /\ (m - x) + 1 = i
      OBVIOUS
    <3>2. page[i] = r[x]
      BY <1>5, <2>1, <3>1
    <3> QED
      BY <1>2, <3>1, <3>2
  <2> QED
    BY <1>1, <1>5, <2>1, <2>2, SeqEqual
<1> QED
  BY <1>1, <1>5, <1>6

LEMMA ReadTailReads ==
  ASSUME Stored, Continues, ReaderInv, ReadTail
  PROVE  ReaderInv'
<1>1. /\ Pruned /\ lastId' = lastId /\ interrupted' = interrupted /\ records' = Kept /\ Shrinks
  <2>1. Pruned /\ UNCHANGED <<lastId, interrupted>>
    BY DEF ReadTail
  <2> QED
    BY <2>1, PrunedShrinks DEF Pruned
<1>2. Stored'
  BY <1>1, ShrinksStored
<1>3. PICK kept \in Seq(LogRecord), lost \in Nat : kept = records' /\ lost = dropped'
  BY <1>2 DEF Stored, StreamTypes
<1>4. PICK n \in 1..PageLimit :
        reader' = [state |-> "tail", after |-> 0, through |-> 0,
                   read |-> Reverse(Limited(Reverse(Kept), n)),
                   snapshot |-> ToSet(Kept), before |-> dropped', dropped |-> dropped',
                   truncated |-> Truncated(dropped', Len(Kept) > n)]
  BY DEF ReadTail
<1>5. n \in Nat
  BY LogAssumption
<1>6. PICK page : page = Reverse(Limited(Reverse(kept), n))
  OBVIOUS
<1>7. page \in Seq(LogRecord) /\ (~(Len(kept) > n) => page = kept)
  BY <1>5, <1>6, TailIs
<1>8. PICK s \in SUBSET LogRecord : s = ToSet(kept)
  BY RecordsAreFinite
<1>9. PICK told \in BOOLEAN : told = Truncated(lost, Len(kept) > n)
  BY DEF Truncated
<1>10. reader' = [state |-> "tail", after |-> 0, through |-> 0, read |-> page, snapshot |-> s,
                  before |-> lost, dropped |-> lost, truncated |-> told]
  BY <1>1, <1>3, <1>4, <1>6, <1>8, <1>9
<1>11. reader' \in Reader
  BY <1>7, <1>10 DEF Reader
<1>12. reader'.state = "tail" /\ reader'.read = page /\ reader'.truncated = told
  BY <1>10
<1>13. PagesExact'
  BY <1>12 DEF PagesExact
<1>14. GaplessUnlessTold'
  <2>1. SUFFICES ASSUME ~told
                 PROVE  \A i \in DOMAIN page : page[i].line = page[1].line + i - 1 /\ page[i].cut = 0
    BY <1>12 DEF GaplessUnlessTold
  <2>2. lost = 0 /\ ~(interrupted > 0) /\ ~(Len(kept) > n)
    <3>1. Truncated(lost, Len(kept) > n) <=> lost > 0 \/ Len(kept) > n \/ interrupted > 0
      BY DEF Truncated
    <3>2. ~(lost > 0) /\ ~(interrupted > 0) /\ ~(Len(kept) > n)
      BY <1>9, <2>1, <3>1
    <3> QED
      BY <3>2
  <2>3. page = kept /\ DOMAIN page = 1..Len(kept)
    BY <1>7, <2>2
  <2>4. \A i \in 1..Len(kept) : kept[i].line = kept[1].line + (i - 1) /\ kept[i].cut = 0
    BY <1>1, <1>3, <2>2, UntoldLines
  <2>5. ASSUME NEW i \in 1..Len(kept) PROVE kept[i].line = kept[1].line + i - 1 /\ kept[i].cut = 0
    <3>1. 1 \in 1..Len(kept)
      OBVIOUS
    <3>2. kept[1] \in LogRecord
      BY <3>1
    <3>3. kept[1].line \in Nat
      BY <3>2 DEF LogRecord
    <3> QED
      BY <2>4, <3>3
  <2> QED
    BY <2>3, <2>5
<1> QED
  BY <1>11, <1>12, <1>13, <1>14 DEF ReaderInv

LEMMA CursorGoneReads ==
  ASSUME ReaderInv, CursorGone
  PROVE  ReaderInv'
<1>1. reader \in Reader /\ reader' = [reader EXCEPT !.state = "refused"]
  BY DEF ReaderInv, CursorGone
<1>2. reader' \in Reader /\ reader'.state = "refused"
  BY <1>1 DEF Reader
<1> QED
  BY <1>2 DEF ReaderInv, PagesExact, GaplessUnlessTold

(***************************************************************************)
(* All of it.                                                              *)
(***************************************************************************)

LEMMA LogInitially == LogInit => LogInv
<1> SUFFICES ASSUME LogInit PROVE LogInv
  OBVIOUS
<1>1. <<>> \in Seq(LogRecord) /\ Len(<<>>) = 0 /\ <<>> \in Seq(Nat)
  BY EmptySeq
<1>2. /\ records = <<>> /\ lastId = 0 /\ aged = 0
      /\ retained = 0 /\ dropped = 0 /\ interrupted = 0
  BY DEF LogInit
<1>3. Stored
  <2>1. StreamTypes
    BY <1>1, <1>2 DEF StreamTypes
  <2>2. VolumeBound
    BY <1>2, SizeOfNone, LogAssumption DEF VolumeBound
  <2>3. Numbered(records, lastId) /\ Complete(records, lastId)
    BY <1>1, <1>2 DEF Numbered, Complete
  <2> QED
    BY <2>1, <2>2, <2>3 DEF Stored
<1>4. Connected
  <2>1. /\ printed = 0 /\ flight = <<>> /\ connection = "open" /\ ~named
        /\ collector = "up" /\ failures = 0
    BY DEF LogInit
  <2>2. flight \in Seq(Nat) /\ Len(flight) = 0
    BY <1>1, <2>1
  <2>3. \A i \in 1..Len(flight) : flight[i] = flight[1] + (i - 1)
    BY <2>2
  <2>4. named \in BOOLEAN
    BY DEF LogInit
  <2>5. printed \in Nat
    BY <2>1
  <2> QED
    BY <2>1, <2>2, <2>3, <2>4, <2>5, Zenon DEF Connected
<1>5. Continues
  BY <1>2 DEF Continues
<1>6. ReaderInv
  <2>1. reader = [state |-> "idle", after |-> 0, through |-> 0, read |-> <<>>,
                  snapshot |-> {}, before |-> 0, dropped |-> 0, truncated |-> FALSE]
    BY DEF LogInit
  <2>2. reader \in Reader
    BY <1>1, <2>1 DEF Reader
  <2> QED
    BY <2>1, <2>2 DEF ReaderInv, PagesExact, GaplessUnlessTold
<1> QED
  BY <1>3, <1>4, <1>5, <1>6 DEF LogInv

\* A step that only the container, the connection and the collector take.
LEMMA LinesPreserve ==
  ASSUME LogInv, UNCHANGED reader, Connected', Continues', Stays \/ \E line : Grows(line)
  PROVE  LogInv'
<1>1. Stored /\ ReaderInv
  BY DEF LogInv
<1>2. Stored'
  BY <1>1, StaysStored, GrowsStored
<1>3. ReaderInv'
  BY <1>1, ReaderKept
<1> QED
  BY <1>2, <1>3 DEF LogInv

LEMMA MarkedStep ==
  ASSUME Stored, MarkConnection
  PROVE  Stays \/ \E line : Grows(line)
<1>1. CASE named /\ Grows(Marker)
  BY <1>1
<1>2. CASE ~named /\ UNCHANGED streamVars
  BY <1>2, LeavesStays DEF Leaves
<1> QED
  BY <1>1, <1>2, MarkGrows

LEMMA LogPreserved == LogInv /\ [LogNext]_logVars => LogInv'
<1> SUFFICES ASSUME LogInv, [LogNext]_logVars PROVE LogInv'
  OBVIOUS
<1>1. Stored /\ Connected /\ Continues /\ ReaderInv
  BY DEF LogInv
<1>2. CASE UNCHANGED logVars
  <2>1. UNCHANGED reader /\ UNCHANGED containerVars /\ UNCHANGED streamVars
    BY <1>2 DEF logVars
  <2>2. Stays
    BY <1>1, <2>1, LeavesStays DEF Leaves
  <2>3. Connected'
    BY <1>1, <2>1 DEF Connected, containerVars
  <2>4. Continues'
    BY <1>1, <2>1, LeavesContinues DEF Leaves
  <2> QED
    BY <2>1, <2>2, <2>3, <2>4, LinesPreserve
<1>3. CASE Age
  <2>1. UNCHANGED reader /\ UNCHANGED containerVars
    BY <1>3 DEF Age, containerVars
  <2>2. Stays
    BY <1>1, <1>3, LeavesStays DEF Leaves
  <2>3. Connected'
    BY <1>1, <2>1 DEF Connected, containerVars
  <2>4. Continues'
    BY <1>1, <1>3, <2>1, LeavesContinues DEF Leaves
  <2> QED
    BY <2>1, <2>2, <2>3, <2>4, LinesPreserve
<1>4. CASE Prune
  <2>1. Pruned /\ UNCHANGED <<lastId, interrupted>> /\ UNCHANGED reader /\ UNCHANGED containerVars
    BY <1>4 DEF Prune
  <2>2. Shrinks
    BY <1>1, <2>1, PrunedShrinks
  <2>3. Connected'
    BY <1>1, <2>1 DEF Connected, containerVars
  <2>4. Continues'
    BY <1>1, <2>1, <2>2, ShrinksContinues
  <2>5. Stored'
    BY <1>1, <2>2, ShrinksStored
  <2>6. ReaderInv'
    BY <1>1, <2>1, <2>2, ReaderKept
  <2> QED
    BY <2>3, <2>4, <2>5, <2>6 DEF LogInv
<1>5. CASE LogLine
  <2>1. UNCHANGED reader /\ UNCHANGED streamVars
    BY <1>5 DEF LogLine
  <2>2. Stays
    BY <1>1, <2>1, LeavesStays DEF Leaves
  <2> QED
    BY <1>1, <1>5, <2>1, <2>2, LogLineFlows, LinesPreserve
<1>6. CASE Connect
  <2>1. UNCHANGED reader /\ UNCHANGED streamVars
    BY <1>6 DEF Connect
  <2>2. Stays
    BY <1>1, <2>1, LeavesStays DEF Leaves
  <2> QED
    BY <1>1, <1>6, <2>1, <2>2, ConnectFlows, LinesPreserve
<1>7. CASE Break
  <2>1. UNCHANGED reader /\ UNCHANGED streamVars
    BY <1>7 DEF Break
  <2>2. Stays
    BY <1>1, <2>1, LeavesStays DEF Leaves
  <2> QED
    BY <1>1, <1>7, <2>1, <2>2, BreakFlows, LinesPreserve
<1>8. CASE Receive
  <2>1. UNCHANGED reader /\ \E line : Grows(line)
    BY <1>1, <1>8, ReceiveGrows DEF Receive
  <2> QED
    BY <1>1, <1>8, <2>1, ReceiveFlows, LinesPreserve
<1>9. CASE CloseConnection
  <2>1. UNCHANGED reader /\ MarkConnection
    BY <1>9 DEF CloseConnection
  <2> QED
    BY <1>1, <1>9, <2>1, MarkedStep, CloseFlows, LinesPreserve
<1>10. CASE CollectorExits
  <2>1. UNCHANGED reader /\ MarkConnection
    BY <1>10 DEF CollectorExits
  <2> QED
    BY <1>1, <1>10, <2>1, MarkedStep, ExitsFlows, LinesPreserve
<1>11. CASE CollectorCrashes
  <2>1. UNCHANGED reader /\ UNCHANGED streamVars
    BY <1>11 DEF CollectorCrashes
  <2>2. Stays
    BY <1>1, <2>1, LeavesStays DEF Leaves
  <2> QED
    BY <1>1, <1>11, <2>1, <2>2, CrashesFlows, LinesPreserve
<1>12. CASE CollectorStarts
  <2>1. UNCHANGED reader
    BY <1>12 DEF CollectorStarts
  <2> QED
    BY <1>1, <1>12, <2>1, StartsFlows, LinesPreserve
<1>13. CASE ReadPage
  <2>1. Pruned /\ UNCHANGED <<lastId, interrupted>> /\ UNCHANGED containerVars
    BY <1>13 DEF ReadPage
  <2>2. Shrinks
    BY <1>1, <2>1, PrunedShrinks
  <2>3. Connected'
    BY <1>1, <2>1 DEF Connected, containerVars
  <2>4. Continues' /\ Stored' /\ ReaderInv'
    BY <1>1, <1>13, <2>1, <2>2, ShrinksContinues, ShrinksStored, ReadPageReads
  <2> QED
    BY <2>3, <2>4 DEF LogInv
<1>14. CASE ReadTail
  <2>1. Pruned /\ UNCHANGED <<lastId, interrupted>> /\ UNCHANGED containerVars
    BY <1>14 DEF ReadTail
  <2>2. Shrinks
    BY <1>1, <2>1, PrunedShrinks
  <2>3. Connected'
    BY <1>1, <2>1 DEF Connected, containerVars
  <2>4. Continues' /\ Stored' /\ ReaderInv'
    BY <1>1, <1>14, <2>1, <2>2, ShrinksContinues, ShrinksStored, ReadTailReads
  <2> QED
    BY <2>3, <2>4 DEF LogInv
<1>15. CASE CursorGone
  <2>1. UNCHANGED containerVars /\ UNCHANGED streamVars
    BY <1>15 DEF CursorGone
  <2>2. Stays
    BY <1>1, <2>1, LeavesStays DEF Leaves
  <2>3. Connected' /\ Continues'
    BY <1>1, <2>1, LeavesContinues DEF Leaves, Connected, containerVars
  <2> QED
    BY <1>1, <1>15, <2>2, <2>3, StaysStored, CursorGoneReads DEF LogInv
<1>16. CASE LogNext
  BY <1>3, <1>4, <1>5, <1>6, <1>7, <1>8, <1>9, <1>10, <1>11, <1>12, <1>13, <1>14, <1>15, <1>16
     DEF LogNext
<1> QED
  BY <1>2, <1>16

\* The counter that eviction relies on is the size of what is stored, and neither exceeds
\* the volume (diagnostics.py:42-47 and 233-250).
THEOREM VolumeStaysBounded == LogSpec => []VolumeBound
<1>1. LogSpec => []LogInv
  BY LogInitially, LogPreserved, PTL DEF LogSpec
<1>2. LogInv => VolumeBound
  BY DEF LogInv, Stored
<1> QED
  BY <1>1, <1>2, PTL

\* The pages are the snapshot of the first one, in order, but for what the growth of the
\* dropped bytes accounts for (diagnostics.py:275-315).
THEOREM PagesStayExact == LogSpec => []PagesExact
<1>1. LogSpec => []LogInv
  BY LogInitially, LogPreserved, PTL DEF LogSpec
<1>2. LogInv => PagesExact
  BY DEF LogInv, ReaderInv
<1> QED
  BY <1>1, <1>2, PTL

\* A log that does not say that it is truncated has every line from the first that was
\* collected (diagnostics.py:309-315, collector.py:49-52 and 118-123).
THEOREM LossIsTold == LogSpec => []GaplessUnlessTold
<1>1. LogSpec => []LogInv
  BY LogInitially, LogPreserved, PTL DEF LogSpec
<1>2. LogInv => GaplessUnlessTold
  BY DEF LogInv, ReaderInv
<1> QED
  BY <1>1, <1>2, PTL

(***************************************************************************)
(* The redaction of the log.  What arrives and what a scan shows are       *)
(* recursive functions: that they exist, and what they give, is shown by   *)
(* induction on the least counterexample.                                  *)
(***************************************************************************)

(***************************************************************************)
(* What arrives of a text.                                                 *)
(***************************************************************************)

\* One step of Wire's recursion, and what it gives for the first n bytes.
WireStep(s, f) ==
  [n \in 0..Len(s) |-> IF n = 0 THEN <<>>
                       ELSE IF Survives(s[n]) THEN Append(f[n - 1], s[n])
                       ELSE f[n - 1]]
WireOf(s) == CHOOSE f : f = WireStep(s, f)
\* How many of the first n bytes arrive.
CountOf(s, n) == Len(WireOf(s)[n])

LEMMA WireIs == \A s : Wire(s) = WireOf(s)[Len(s)]
  BY DEF Wire, WireOf, WireStep

LEMMA WireExists ==
  ASSUME NEW s \in Seq(Bytes)
  PROVE  WireOf(s) = WireStep(s, WireOf(s))
<1>1. PICK n \in Nat : n = Len(s)
  OBVIOUS
<1> DEFINE Right(f, i) == \A j \in 0..i : f[j] = WireStep(s, f)[j]
           T == {i \in 0..n : \E f : f = [j \in 0..n |-> f[j]] /\ Right(f, i)}
<1>2. ASSUME NEW i \in 0..n, \A j \in 0..(i - 1) : j \in T
      PROVE  i \in T
  <2>1. CASE i = 0
    <3>1. PICK f : f = [j \in 0..n |-> <<>>]
      OBVIOUS
    <3>2. f = [j \in 0..n |-> f[j]]
      BY <3>1
    <3>3. WireStep(s, f)[0] = <<>>
      BY <1>1 DEF WireStep
    <3>4. Right(f, 0)
      BY <3>1, <3>3
    <3> QED
      BY <2>1, <3>2, <3>4
  <2>2. CASE i > 0
    <3>1. PICK f : f = [j \in 0..n |-> f[j]] /\ Right(f, i - 1)
      <4>1. i - 1 \in T
        <5> HIDE DEF T
        <5> QED
          BY <1>2, <2>2
      <4> QED
        BY <4>1
    <3>2. PICK h : h = [j \in 0..n |-> IF j = i THEN WireStep(s, f)[i] ELSE f[j]]
      OBVIOUS
    <3>3. h = [j \in 0..n |-> h[j]]
      BY <3>2
    <3>4. ASSUME NEW j \in 0..i PROVE h[j] = WireStep(s, h)[j]
      <4>1. WireStep(s, h)[j] = WireStep(s, f)[j]
        <5>1. CASE j = 0
          BY <1>1, <5>1 DEF WireStep
        <5>2. CASE j > 0
          <6>1. j - 1 \in 0..n /\ j - 1 # i /\ j \in 0..n
            BY <5>2
          <6>2. h[j - 1] = f[j - 1]
            BY <3>2, <6>1
          <6> QED
            BY <1>1, <5>2, <6>1, <6>2 DEF WireStep
        <5> QED
          BY <5>1, <5>2
      <4>2. CASE j = i
        BY <3>2, <4>1, <4>2
      <4>3. CASE j # i
        <5>1. j \in 0..(i - 1) /\ j \in 0..n
          BY <4>3
        <5>2. f[j] = WireStep(s, f)[j]
          BY <3>1, <5>1
        <5>3. h[j] = f[j]
          BY <3>2, <4>3, <5>1
        <5> QED
          BY <4>1, <5>2, <5>3
      <4> QED
        BY <4>2, <4>3
    <3> QED
      BY <3>3, <3>4
  <2> QED
    BY <2>1, <2>2
<1>3. n \in T
  <2>1. \A i \in 0..n : i \in T
    <3> HIDE DEF T
    <3> QED
      BY <1>2, Upward
  <2> QED
    BY <2>1
<1>4. PICK f : f = [j \in 0..n |-> f[j]] /\ Right(f, n)
  BY <1>3
<1>5. f = WireStep(s, f)
  <2>1. WireStep(s, f) = [j \in 0..n |-> WireStep(s, f)[j]]
    BY <1>1 DEF WireStep
  <2>2. \A j \in 0..n : f[j] = WireStep(s, f)[j]
    BY <1>4
  <2> QED
    BY <1>4, <2>1, <2>2
<1> QED
  BY <1>5 DEF WireOf

\* The first bytes that arrive are what arrives of the first bytes.
LEMMA WireGrows ==
  ASSUME NEW s \in Seq(Bytes)
  PROVE  /\ WireOf(s)[0] = <<>>
         /\ \A n \in 0..Len(s) : WireOf(s)[n] \in Seq(Bytes)
         /\ \A n \in 1..Len(s) : WireOf(s)[n] = IF Survives(s[n]) THEN Append(WireOf(s)[n - 1], s[n])
                                                ELSE WireOf(s)[n - 1]
<1>a. PICK f : f = WireOf(s)
  OBVIOUS
<1>b. PICK m \in Nat : m = Len(s)
  OBVIOUS
<1>1. f = WireOf(s) /\ m = Len(s)
  BY <1>a, <1>b
<1>2. f = [n \in 0..m |-> IF n = 0 THEN <<>>
                          ELSE IF Survives(s[n]) THEN Append(f[n - 1], s[n])
                          ELSE f[n - 1]]
  BY <1>1, WireExists DEF WireStep
<1>3. f[0] = <<>>
  BY <1>2
<1>4. ASSUME NEW n \in 1..m
      PROVE  f[n] = IF Survives(s[n]) THEN Append(f[n - 1], s[n]) ELSE f[n - 1]
  <2>1. n \in 0..m /\ n # 0
    OBVIOUS
  <2> QED
    BY <1>2, <2>1 DEF Survives
<1>5. PICK T : T = {n \in 0..m : f[n] \in Seq(Bytes)}
  OBVIOUS
<1>6. ASSUME NEW n \in 0..m, \A j \in 0..(n - 1) : j \in T PROVE n \in T
  <2>1. CASE n = 0
    BY <1>3, <1>5, <2>1, EmptySeq
  <2>2. CASE n > 0
    <3>1. n \in 1..m /\ n - 1 \in T
      BY <1>6, <2>2
    <3>2. f[n - 1] \in Seq(Bytes) /\ s[n] \in Bytes
      BY <1>1, <1>5, <3>1
    <3>3. Append(f[n - 1], s[n]) \in Seq(Bytes)
      BY <3>2, AppendProperties
    <3>4. f[n] \in Seq(Bytes)
      BY <1>4, <3>1, <3>2, <3>3
    <3> QED
      BY <1>5, <3>4
  <2> QED
    BY <2>1, <2>2
<1>7. \A n \in 0..m : n \in T
  BY <1>6, Upward
<1> QED
  BY <1>1, <1>3, <1>4, <1>5, <1>7

\* How many bytes arrive.
LEMMA CountIs ==
  ASSUME NEW s \in Seq(Bytes)
  PROVE  /\ CountOf(s, 0) = 0
         /\ \A n \in 0..Len(s) : CountOf(s, n) \in Nat
         /\ \A n \in 1..Len(s) : /\ Survives(s[n]) => CountOf(s, n) = CountOf(s, n - 1) + 1
                                 /\ ~Survives(s[n]) => CountOf(s, n) = CountOf(s, n - 1)
<1>1. PICK f : f = WireOf(s)
  OBVIOUS
<1>2. /\ f[0] = <<>>
      /\ \A n \in 0..Len(s) : f[n] \in Seq(Bytes)
  BY <1>1, WireGrows
<1>3. CountOf(s, 0) = 0 /\ \A n \in 0..Len(s) : CountOf(s, n) \in Nat
  BY <1>1, <1>2, EmptySeq DEF CountOf
<1>4. ASSUME NEW n \in 1..Len(s)
      PROVE  /\ Survives(s[n]) => CountOf(s, n) = CountOf(s, n - 1) + 1
             /\ ~Survives(s[n]) => CountOf(s, n) = CountOf(s, n - 1)
  <2>1. f[n - 1] \in Seq(Bytes) /\ s[n] \in Bytes
    BY <1>2
  <2>2. CASE Survives(s[n])
    <3>1. f[n] = Append(f[n - 1], s[n])
      BY <1>1, <2>2, WireGrows
    <3>2. Len(f[n]) = Len(f[n - 1]) + 1
      BY <2>1, <3>1, AppendProperties
    <3> QED
      BY <1>1, <2>2, <3>2 DEF CountOf
  <2>3. CASE ~Survives(s[n])
    <3>1. f[n] = f[n - 1]
      BY <1>1, <2>3, WireGrows
    <3> QED
      BY <1>1, <2>3, <3>1 DEF CountOf
  <2> QED
    BY <2>2, <2>3
<1> QED
  BY <1>3, <1>4

\* A byte that survives arrives where the count has come to, and every byte that
\* arrives is one.
LEMMA ArrivesAt ==
  ASSUME NEW s \in Seq(Bytes), NEW m \in 0..Len(s)
  PROVE  /\ \A n \in 0..m : CountOf(s, n) <= CountOf(s, m)
         /\ \A n \in 1..m : Survives(s[n]) =>
              /\ CountOf(s, n) \in 1..CountOf(s, m)
              /\ WireOf(s)[m][CountOf(s, n)] = s[n]
         /\ \A k \in 1..CountOf(s, m) : \E n \in 1..m : Survives(s[n]) /\ CountOf(s, n) = k
<1> DEFINE Grown(q) == \A n \in 0..q : CountOf(s, n) <= CountOf(s, q)
           Placed(q) == \A n \in 1..q : Survives(s[n]) =>
                          /\ CountOf(s, n) \in 1..CountOf(s, q)
                          /\ WireOf(s)[q][CountOf(s, n)] = s[n]
           Sources(q) == \A k \in 1..CountOf(s, q) : \E n \in 1..q : Survives(s[n]) /\ CountOf(s, n) = k
<1>1. PICK last \in Nat : last = Len(s)
  OBVIOUS
<1>2. PICK T : T = {q \in 0..last : Grown(q) /\ Placed(q) /\ Sources(q)}
  OBVIOUS
<1>3. /\ CountOf(s, 0) = 0
      /\ \A n \in 0..last : CountOf(s, n) \in Nat
      /\ \A n \in 1..last : /\ Survives(s[n]) => CountOf(s, n) = CountOf(s, n - 1) + 1
                            /\ ~Survives(s[n]) => CountOf(s, n) = CountOf(s, n - 1)
  BY <1>1, CountIs
<1>4. ASSUME NEW q \in 0..last, \A j \in 0..(q - 1) : j \in T PROVE q \in T
  <2>1. CASE q = 0
    <3>1. Grown(0) /\ Placed(0) /\ Sources(0)
      BY <1>3
    <3> HIDE DEF Grown, Placed, Sources
    <3> QED
      BY <1>2, <2>1, <3>1
  <2>2. CASE q > 0
    <3>1. q - 1 \in T /\ q \in 1..last /\ q - 1 \in 0..last
      BY <1>4, <2>2
    <3>2. Grown(q - 1) /\ Placed(q - 1) /\ Sources(q - 1)
      <4> HIDE DEF Grown, Placed, Sources
      <4> QED
        BY <1>2, <3>1
    <3>3. PICK c \in Nat : c = CountOf(s, q - 1)
      BY <1>3, <3>1
    <3>4. WireOf(s)[q - 1] \in Seq(Bytes) /\ Len(WireOf(s)[q - 1]) = c /\ s[q] \in Bytes
      BY <1>1, <3>1, <3>3, WireGrows DEF CountOf
    <3>5. CASE Survives(s[q])
      <4>1. CountOf(s, q) = c + 1
        BY <1>3, <3>1, <3>3, <3>5
      <4>2. WireOf(s)[q] = Append(WireOf(s)[q - 1], s[q])
        BY <1>1, <3>1, <3>5, WireGrows
      <4>3. /\ \A i \in 1..c : WireOf(s)[q][i] = WireOf(s)[q - 1][i]
            /\ WireOf(s)[q][c + 1] = s[q]
        BY <3>4, <4>2, AppendProperties
      <4>4. Grown(q)
        <5>1. ASSUME NEW n \in 0..q PROVE CountOf(s, n) <= c + 1
          <6>1. CASE n = q
            BY <4>1, <6>1
          <6>2. CASE n # q
            <7>1. n \in 0..(q - 1) /\ n \in 0..last
              BY <6>2
            <7>2. CountOf(s, n) <= c /\ CountOf(s, n) \in Nat
              BY <1>3, <3>2, <3>3, <7>1
            <7> QED
              BY <7>2
          <6> QED
            BY <6>1, <6>2
        <5> QED
          BY <4>1, <5>1
      <4>5. Placed(q)
        <5>1. ASSUME NEW n \in 1..q, Survives(s[n])
              PROVE  CountOf(s, n) \in 1..(c + 1) /\ WireOf(s)[q][CountOf(s, n)] = s[n]
          <6>1. CASE n = q
            BY <4>1, <4>3, <6>1
          <6>2. CASE n # q
            <7>1. n \in 1..(q - 1)
              BY <6>2
            <7>2. CountOf(s, n) \in 1..c /\ WireOf(s)[q - 1][CountOf(s, n)] = s[n]
              BY <3>2, <3>3, <5>1, <7>1
            <7> QED
              BY <4>3, <7>2
          <6> QED
            BY <6>1, <6>2
        <5> QED
          BY <4>1, <5>1
      <4>6. Sources(q)
        <5>1. ASSUME NEW k \in 1..(c + 1) PROVE \E n \in 1..q : Survives(s[n]) /\ CountOf(s, n) = k
          <6>1. CASE k = c + 1
            BY <3>1, <3>5, <4>1, <6>1
          <6>2. CASE k # c + 1
            <7>1. k \in 1..c
              BY <6>2
            <7>2. PICK n \in 1..(q - 1) : Survives(s[n]) /\ CountOf(s, n) = k
              BY <3>2, <3>3, <7>1
            <7> QED
              BY <7>2
          <6> QED
            BY <6>1, <6>2
        <5> QED
          BY <4>1, <5>1
      <4> HIDE DEF Grown, Placed, Sources
      <4> QED
        BY <1>2, <4>4, <4>5, <4>6
    <3>6. CASE ~Survives(s[q])
      <4>1. CountOf(s, q) = c /\ WireOf(s)[q] = WireOf(s)[q - 1]
        BY <1>1, <1>3, <3>1, <3>3, <3>6, WireGrows
      <4>2. Grown(q)
        <5>1. ASSUME NEW n \in 0..q PROVE CountOf(s, n) <= c
          <6>1. CASE n = q
            BY <4>1, <6>1
          <6>2. CASE n # q
            BY <3>2, <3>3, <6>2
          <6> QED
            BY <6>1, <6>2
        <5> QED
          BY <4>1, <5>1
      <4>3. Placed(q)
        <5>1. ASSUME NEW n \in 1..q, Survives(s[n])
              PROVE  CountOf(s, n) \in 1..c /\ WireOf(s)[q - 1][CountOf(s, n)] = s[n]
          <6>1. n # q
            BY <3>6, <5>1
          <6>2. n \in 1..(q - 1)
            BY <6>1
          <6> QED
            BY <3>2, <3>3, <5>1, <6>2
        <5> QED
          BY <4>1, <5>1
      <4>4. Sources(q)
        <5>1. ASSUME NEW k \in 1..c PROVE \E n \in 1..q : Survives(s[n]) /\ CountOf(s, n) = k
          <6>1. PICK n \in 1..(q - 1) : Survives(s[n]) /\ CountOf(s, n) = k
            BY <3>2, <3>3
          <6> QED
            BY <6>1
        <5> QED
          BY <4>1, <5>1
      <4> HIDE DEF Grown, Placed, Sources
      <4> QED
        BY <1>2, <4>2, <4>3, <4>4
    <3> QED
      BY <3>5, <3>6
  <2> QED
    BY <2>1, <2>2
<1>5. m \in T
  <2>1. \A q \in 0..last : q \in T
    BY <1>4, Upward
  <2> QED
    BY <1>1, <2>1
<1> QED
  BY <1>2, <1>5

\* t stands in s after the first a bytes.
StandsAfter(t, s, a) ==
  /\ t \in Seq(Bytes) /\ s \in Seq(Bytes) /\ a \in Nat /\ a + Len(t) <= Len(s)
  /\ \A k \in 1..Len(t) : t[k] = s[a + k]

\* What arrives of it.
LEMMA CountShifts ==
  ASSUME NEW s, NEW t, NEW a, StandsAfter(t, s, a), NEW m \in 0..Len(t)
  PROVE  CountOf(s, a + m) = CountOf(s, a) + CountOf(t, m)
<1>1. /\ t \in Seq(Bytes) /\ s \in Seq(Bytes) /\ a \in Nat /\ a + Len(t) <= Len(s)
      /\ \A k \in 1..Len(t) : t[k] = s[a + k]
  BY DEF StandsAfter
<1>2. PICK last \in Nat : last = Len(t)
  BY <1>1
<1>3. PICK T : T = {q \in 0..last : CountOf(s, a + q) = CountOf(s, a) + CountOf(t, q)}
  OBVIOUS
<1>4. \A q \in 0..last : CountOf(s, a + q) \in Nat /\ CountOf(t, q) \in Nat /\ CountOf(t, 0) = 0
  <2>1. \A q \in 0..last : a + q \in 0..Len(s)
    BY <1>1, <1>2
  <2>2. \A q \in 0..Len(s) : CountOf(s, q) \in Nat
    BY <1>1, CountIs
  <2>3. \A q \in 0..last : CountOf(t, q) \in Nat /\ CountOf(t, 0) = 0
    BY <1>1, <1>2, CountIs
  <2> QED
    BY <2>1, <2>2, <2>3
<1>5. ASSUME NEW q \in 0..last, \A j \in 0..(q - 1) : j \in T PROVE q \in T
  <2>1. CASE q = 0
    <3>1. a + 0 = a /\ CountOf(s, a + 0) \in Nat
      BY <1>1, <1>4
    <3>2. CountOf(s, a + 0) = CountOf(s, a) + CountOf(t, 0)
      BY <1>4, <3>1
    <3> QED
      BY <1>3, <2>1, <3>2
  <2>2. CASE q > 0
    <3>1. q - 1 \in T /\ q - 1 \in 0..last /\ q \in 1..last
      BY <1>5, <2>2
    <3>2. CountOf(s, a + (q - 1)) = CountOf(s, a) + CountOf(t, q - 1)
      BY <1>3, <3>1
    <3>3. a + q \in 1..Len(s) /\ (a + q) - 1 = a + (q - 1) /\ t[q] = s[a + q]
      BY <1>1, <1>2, <3>1
    <3>4. /\ Survives(s[a + q]) => CountOf(s, a + q) = CountOf(s, (a + q) - 1) + 1
          /\ ~Survives(s[a + q]) => CountOf(s, a + q) = CountOf(s, (a + q) - 1)
      BY <1>1, <3>3, CountIs
    <3>5. /\ Survives(t[q]) => CountOf(t, q) = CountOf(t, q - 1) + 1
          /\ ~Survives(t[q]) => CountOf(t, q) = CountOf(t, q - 1)
      BY <1>1, <1>2, <3>1, CountIs
    <3>6. PICK x \in Nat, y \in Nat, z \in Nat :
            x = CountOf(s, a) /\ y = CountOf(t, q - 1) /\ z = CountOf(s, a + (q - 1))
      <4>1. CountOf(s, a) \in Nat
        BY <1>1, CountIs
      <4> QED
        BY <1>4, <3>1, <4>1
    <3>7. CountOf(s, a + q) = x + CountOf(t, q)
      <4>1. CASE Survives(t[q])
        <5>1. CountOf(s, a + q) = z + 1 /\ CountOf(t, q) = y + 1
          BY <3>3, <3>4, <3>5, <3>6, <4>1
        <5> QED
          BY <3>2, <3>6, <5>1
      <4>2. CASE ~Survives(t[q])
        <5>1. CountOf(s, a + q) = z /\ CountOf(t, q) = y
          BY <3>3, <3>4, <3>5, <3>6, <4>2
        <5> QED
          BY <3>2, <3>6, <5>1
      <4> QED
        BY <4>1, <4>2
    <3> QED
      BY <1>3, <3>6, <3>7
  <2> QED
    BY <2>1, <2>2
<1>6. \A q \in 0..last : q \in T
  BY <1>5, Upward
<1> QED
  BY <1>2, <1>3, <1>6

(***************************************************************************)
(* One scan of what is held back.                                          *)
(***************************************************************************)

\* Every pattern has a length.
PatternsHaveBytes == \A v \in Patterns : v \in Seq(Bytes) /\ v # <<>>

LEMMA PatternLength ==
  ASSUME PatternsHaveBytes, NEW v \in Patterns
  PROVE  Len(v) \in Nat /\ Len(v) > 0
<1>1. v \in Seq(Bytes) /\ v # <<>>
  BY DEF PatternsHaveBytes
<1> QED
  BY <1>1, EmptySeq

\* The longest value at i ends with the bytes that have arrived, or before.
LEMMA LongestIs ==
  ASSUME PatternsHaveBytes, NEW last \in Nat, NEW i \in 1..last, Full(i, last) # {}
  PROVE  /\ Max(Full(i, last)) \in 1..(last + 1 - i)
         /\ \E v \in Patterns : Occurs(v, i, last) /\ Len(v) = Max(Full(i, last))
<1>1. PICK s : s = Full(i, last)
  OBVIOUS
<1>2. ASSUME NEW k \in s PROVE k \in 1..(last + 1 - i)
  <2>1. PICK v \in Patterns : Occurs(v, i, last) /\ k = Len(v)
    BY <1>1, <1>2 DEF Full
  <2>2. Len(v) \in Nat /\ Len(v) > 0 /\ i + Len(v) - 1 <= last
    BY <2>1, PatternLength DEF Occurs
  <2> QED
    BY <2>1, <2>2
<1>3. PICK n \in Nat : n = last + 1 - i
  OBVIOUS
<1>4. s \in SUBSET (1..n) /\ s # {}
  BY <1>1, <1>2, <1>3
<1>5. Max(s) \in s
  BY <1>4, LastPosition
<1>6. \E v \in Patterns : Occurs(v, i, last) /\ Max(s) = Len(v)
  BY <1>1, <1>5 DEF Full
<1> QED
  BY <1>1, <1>2, <1>5, <1>6

\* One step of Scan's recursion, and what it gives for what is held back from i on.
ScanAt(f, i, last, final) ==
  IF i = last + 1 THEN [shown |-> {}, held |-> i]
  ELSE IF MustWait(i, last) THEN [shown |-> {}, held |-> IF final THEN last + 1 ELSE i]
  ELSE IF Full(i, last) # {} THEN f[i + Max(Full(i, last))]
  ELSE [f[i + 1] EXCEPT !.shown = @ \cup {i}]
ScanStep(f, last, final) == [i \in 1..last + 1 |-> ScanAt(f, i, last, final)]
ScanOf(last, final) == CHOOSE f : f = ScanStep(f, last, final)

LEMMA ScanIs == \A first, last, final : Scan(first, last, final) = ScanOf(last, final)[first]
  BY DEF Scan, ScanOf, ScanStep, ScanAt

\* It depends on what it gives further on.
LEMMA ScanLooksAhead ==
  ASSUME PatternsHaveBytes, NEW last \in Nat, NEW final, NEW f, NEW h, NEW i \in 1..(last + 1),
         \A j \in (i + 1)..(last + 1) : f[j] = h[j]
  PROVE  ScanAt(f, i, last, final) = ScanAt(h, i, last, final)
<1>1. CASE i = last + 1
  BY <1>1 DEF ScanAt
<1>2. CASE i # last + 1
  <2>1. i \in 1..last /\ i + 1 \in (i + 1)..(last + 1)
    BY <1>2
  <2>2. f[i + 1] = h[i + 1]
    BY <2>1
  <2>3. CASE Full(i, last) # {}
    <3>1. Max(Full(i, last)) \in 1..(last + 1 - i)
      BY <2>1, <2>3, LongestIs
    <3>2. i + Max(Full(i, last)) \in (i + 1)..(last + 1)
      BY <3>1
    <3>3. f[i + Max(Full(i, last))] = h[i + Max(Full(i, last))]
      BY <3>2
    <3> QED
      BY <1>2, <2>3, <3>3 DEF ScanAt
  <2>4. CASE Full(i, last) = {}
    BY <1>2, <2>2, <2>4 DEF ScanAt
  <2> QED
    BY <2>3, <2>4
<1> QED
  BY <1>1, <1>2

LEMMA ScanExists ==
  ASSUME PatternsHaveBytes, NEW last \in Nat, NEW final
  PROVE  ScanOf(last, final) = ScanStep(ScanOf(last, final), last, final)
<1>1. PICK n \in Nat : n = last + 1
  OBVIOUS
<1> DEFINE Right(f, i) == \A j \in i..n : f[j] = ScanAt(f, j, last, final)
           T == {i \in 1..n : \E f : f = [j \in 1..n |-> f[j]] /\ Right(f, i)}
<1>2. ASSUME NEW i \in 1..n, \A j \in (i + 1)..n : j \in T
      PROVE  i \in T
  <2>1. PICK f : f = [j \in 1..n |-> f[j]] /\ Right(f, i + 1)
    <3>1. CASE i = n
      <4>1. PICK f : f = [j \in 1..n |-> 0]
        OBVIOUS
      <4>2. f = [j \in 1..n |-> f[j]]
        BY <4>1
      <4>3. Right(f, i + 1)
        BY <3>1
      <4> QED
        BY <4>2, <4>3
    <3>2. CASE i # n
      <4>1. i + 1 \in T
        <5> HIDE DEF T
        <5> QED
          BY <1>2, <3>2
      <4> QED
        BY <4>1
    <3> QED
      BY <3>1, <3>2
  <2>2. PICK h : h = [j \in 1..n |-> IF j = i THEN ScanAt(f, i, last, final) ELSE f[j]]
    OBVIOUS
  <2>3. h = [j \in 1..n |-> h[j]]
    BY <2>2
  <2>4. ASSUME NEW j \in i..n PROVE h[j] = ScanAt(h, j, last, final)
    <3>1. \A k \in (j + 1)..(last + 1) : f[k] = h[k]
      BY <1>1, <2>2
    <3>2. j \in 1..(last + 1)
      BY <1>1
    <3>3. ScanAt(f, j, last, final) = ScanAt(h, j, last, final)
      BY SMTT(60), <3>1, <3>2, ScanLooksAhead
    <3>4. CASE j = i
      BY <2>2, <3>3, <3>4
    <3>5. CASE j # i
      <4>1. j \in (i + 1)..n /\ j \in 1..n
        BY <3>5
      <4>2. f[j] = ScanAt(f, j, last, final)
        BY <2>1, <4>1
      <4>3. h[j] = f[j]
        BY <2>2, <3>5, <4>1
      <4> QED
        BY <3>3, <4>2, <4>3
    <3> QED
      BY <3>4, <3>5
  <2> QED
    BY <2>3, <2>4
<1>3. \A i \in 1..n : i \in T
  <2> HIDE DEF T
  <2> QED
    BY <1>2, Downward
<1>4. 1 \in T
  BY <1>1, <1>3
<1>5. PICK f : f = [j \in 1..n |-> f[j]] /\ Right(f, 1)
  BY <1>4
<1>6. f = ScanStep(f, last, final)
  <2>1. ScanStep(f, last, final) = [j \in 1..n |-> ScanAt(f, j, last, final)]
    BY <1>1 DEF ScanStep
  <2>2. \A j \in 1..n : f[j] = ScanAt(f, j, last, final)
    BY <1>5
  <2> QED
    BY <1>5, <2>1, <2>2
<1> QED
  BY <1>6 DEF ScanOf

\* Position p is inside a value that stands at i or later, or after the beginning of one.
Covered(p, i, last) == \E j \in i..p : \E v \in Patterns : Occurs(v, j, last) /\ p < j + Len(v)
CutShort(p, i, last) == \E j \in i..p : MustWait(j, last)

\* What a scan that starts at i may give.
ScanSays(x, i, last, final) ==
  /\ x \in [shown : SUBSET (i..last), held : i..(last + 1)]
  /\ final => x.held = last + 1
  /\ \A p \in x.shown : p < x.held /\ ~MustWait(p, last) /\ Full(p, last) = {}
  /\ \A p \in i..(x.held - 1) : p \in x.shown \/ Covered(p, i, last) \/ (final /\ CutShort(p, i, last))

LEMMA ScanSound ==
  ASSUME PatternsHaveBytes, NEW last \in Nat, NEW final \in BOOLEAN
  PROVE  \A i \in 1..(last + 1) : /\ ScanOf(last, final)[i] = ScanAt(ScanOf(last, final), i, last, final)
                                  /\ ScanSays(ScanOf(last, final)[i], i, last, final)
<1>1. PICK r : r = ScanOf(last, final)
  OBVIOUS
<1>2. ASSUME NEW i \in 1..(last + 1) PROVE r[i] = ScanAt(r, i, last, final)
  <2>1. r = ScanStep(r, last, final)
    BY <1>1, ScanExists
  <2>2. ScanStep(r, last, final)[i] = ScanAt(r, i, last, final)
    BY DEF ScanStep
  <2> QED
    BY <2>1, <2>2
<1>3. PICK n \in Nat : n = last + 1
  OBVIOUS
<1>4. PICK T : T = {i \in 1..n : ScanSays(r[i], i, last, final)}
  OBVIOUS
<1>5. ASSUME NEW i \in 1..n, \A j \in (i + 1)..n : j \in T PROVE i \in T
  <2>1. r[i] = ScanAt(r, i, last, final)
    BY <1>2, <1>3
  <2>2. CASE i = last + 1
    <3>1. r[i] = [shown |-> {}, held |-> last + 1]
      BY <2>1, <2>2 DEF ScanAt
    <3>2. ScanSays(r[i], i, last, final)
      BY <2>2, <3>1 DEF ScanSays
    <3> QED
      BY <1>4, <3>2
  <2>3. CASE i # last + 1 /\ MustWait(i, last)
    <3>1. r[i] = [shown |-> {}, held |-> IF final THEN last + 1 ELSE i]
      BY <2>1, <2>3 DEF ScanAt
    <3>2. \A p \in i..last : CutShort(p, i, last)
      BY <2>3 DEF CutShort
    <3>3. CASE final
      <4>1. r[i] = [shown |-> {}, held |-> last + 1]
        BY <3>1, <3>3
      <4>2. ScanSays(r[i], i, last, final)
        BY <1>3, <2>3, <3>2, <3>3, <4>1 DEF ScanSays
      <4> QED
        BY <1>4, <4>2
    <3>4. CASE ~final
      <4>1. r[i] = [shown |-> {}, held |-> i]
        BY <3>1, <3>4
      <4>2. ScanSays(r[i], i, last, final)
        BY <1>3, <2>3, <3>4, <4>1 DEF ScanSays
      <4> QED
        BY <1>4, <4>2
    <3> QED
      BY <3>3, <3>4
  <2>4. CASE i # last + 1 /\ ~MustWait(i, last) /\ Full(i, last) # {}
    <3>1. PICK m : m = Max(Full(i, last))
      OBVIOUS
    <3>2. i \in 1..last
      BY <1>3, <2>4
    <3>3. m \in 1..(last + 1 - i) /\ \E v \in Patterns : Occurs(v, i, last) /\ Len(v) = m
      BY <2>4, <3>1, <3>2, LongestIs
    <3>4. PICK k \in (i + 1)..(last + 1) : k = i + m
      BY <3>2, <3>3
    <3>5. r[i] = r[k]
      BY <2>1, <2>4, <3>1, <3>4 DEF ScanAt
    <3>6. ScanSays(r[k], k, last, final)
      BY <1>3, <1>4, <1>5
    <3>7. PICK x : x = r[k]
      OBVIOUS
    <3>8. /\ x \in [shown : SUBSET (k..last), held : k..(last + 1)]
          /\ final => x.held = last + 1
          /\ \A p \in x.shown : p < x.held /\ ~MustWait(p, last) /\ Full(p, last) = {}
          /\ \A p \in k..(x.held - 1) : p \in x.shown \/ Covered(p, k, last) \/ (final /\ CutShort(p, k, last))
      BY <3>6, <3>7 DEF ScanSays
    <3>9. x \in [shown : SUBSET (i..last), held : i..(last + 1)]
      BY <3>2, <3>4, <3>8
    <3>10. ASSUME NEW p \in i..(x.held - 1)
           PROVE  p \in x.shown \/ Covered(p, i, last) \/ (final /\ CutShort(p, i, last))
      <4>1. x.held \in Int
        BY <3>8
      <4>2. CASE p < k
        <5>1. Covered(p, i, last)
          BY <3>2, <3>3, <3>4, <4>1, <4>2 DEF Covered
        <5> QED
          BY <5>1
      <4>3. CASE p >= k
        <5>1. p \in k..(x.held - 1) /\ k..p \subseteq i..p
          BY <3>2, <3>4, <4>1, <4>3
        <5>2. p \in x.shown \/ Covered(p, k, last) \/ (final /\ CutShort(p, k, last))
          BY <3>8, <5>1
        <5>3. Covered(p, k, last) => Covered(p, i, last)
          BY <5>1 DEF Covered
        <5>4. CutShort(p, k, last) => CutShort(p, i, last)
          BY <5>1 DEF CutShort
        <5> QED
          BY <5>2, <5>3, <5>4
      <4> QED
        BY <3>2, <4>1, <4>2, <4>3
    <3>11. ScanSays(x, i, last, final)
      BY <3>8, <3>9, <3>10 DEF ScanSays
    <3> QED
      BY <1>4, <3>5, <3>7, <3>11
  <2>5. CASE i # last + 1 /\ ~MustWait(i, last) /\ Full(i, last) = {}
    <3>1. i \in 1..last
      BY <1>3, <2>5
    <3>2. PICK k \in (i + 1)..(last + 1) : k = i + 1
      BY <3>1
    <3>3. PICK x : x = r[k]
      OBVIOUS
    <3>4. ScanSays(x, k, last, final)
      BY <1>3, <1>4, <1>5, <3>3
    <3>5. /\ x \in [shown : SUBSET (k..last), held : k..(last + 1)]
          /\ final => x.held = last + 1
          /\ \A p \in x.shown : p < x.held /\ ~MustWait(p, last) /\ Full(p, last) = {}
          /\ \A p \in k..(x.held - 1) : p \in x.shown \/ Covered(p, k, last) \/ (final /\ CutShort(p, k, last))
      BY <3>4 DEF ScanSays
    <3>6. PICK y : y = [x EXCEPT !.shown = @ \cup {i}]
      OBVIOUS
    <3>7. r[i] = y
      BY <2>1, <2>5, <3>2, <3>3, <3>6 DEF ScanAt
    <3>8. y = [shown |-> x.shown \cup {i}, held |-> x.held]
      BY <3>5, <3>6
    <3>9. y.shown = x.shown \cup {i} /\ y.held = x.held
      BY <3>8
    <3>10. y \in [shown : SUBSET (i..last), held : i..(last + 1)]
      <4>1. x.shown \cup {i} \in SUBSET (i..last) /\ x.held \in i..(last + 1)
        BY <3>1, <3>2, <3>5
      <4> QED
        BY <3>8, <4>1
    <3>11. ASSUME NEW p \in i..(y.held - 1)
           PROVE  p \in y.shown \/ Covered(p, i, last) \/ (final /\ CutShort(p, i, last))
      <4>1. CASE p = i
        BY <3>9, <4>1
      <4>2. CASE p # i
        <5>1. x.held \in Int
          BY <3>5
        <5>2. p \in k..(x.held - 1) /\ k..p \subseteq i..p
          BY <3>1, <3>2, <3>9, <4>2, <5>1
        <5>3. p \in x.shown \/ Covered(p, k, last) \/ (final /\ CutShort(p, k, last))
          BY <3>5, <5>2
        <5>4. Covered(p, k, last) => Covered(p, i, last)
          BY <5>2 DEF Covered
        <5>5. CutShort(p, k, last) => CutShort(p, i, last)
          BY <5>2 DEF CutShort
        <5> QED
          BY <3>9, <5>3, <5>4, <5>5
      <4> QED
        BY <4>1, <4>2
    <3>12. \A p \in y.shown : p < y.held /\ ~MustWait(p, last) /\ Full(p, last) = {}
      <4>1. i < x.held
        BY <3>1, <3>2, <3>5
      <4> QED
        BY <2>5, <3>5, <3>9, <4>1
    <3>13. final => y.held = last + 1
      BY <3>5, <3>9
    <3>14. ScanSays(y, i, last, final)
      BY <3>10, <3>11, <3>12, <3>13 DEF ScanSays
    <3> QED
      BY <1>4, <3>7, <3>14
  <2> QED
    BY <2>2, <2>3, <2>4, <2>5
<1>6. \A i \in 1..n : i \in T
  BY <1>5, Downward
<1>7. \A i \in 1..n : ScanSays(r[i], i, last, final)
  BY <1>4, <1>6
<1> QED
  BY <1>1, <1>2, <1>3, <1>7

\* What is decided at a position stays so when more bytes arrive.
LEMMA DecidedForGood ==
  ASSUME PatternsHaveBytes, NEW last \in Nat, NEW whole \in Nat, last <= whole, NEW i \in 1..last,
         ~MustWait(i, last)
  PROVE  ~MustWait(i, whole) /\ Full(i, whole) = Full(i, last)
<1>1. ASSUME NEW v \in Patterns, MayFollow(v, i, whole) PROVE MayFollow(v, i, last)
  <2>1. PICK n \in Nat : n = Len(v)
    BY PatternLength
  <2>2. whole - i + 1 < n /\ \A k \in 1..(whole - i + 1) : Stream[i + k - 1] = v[k]
    BY <1>1, <2>1 DEF MayFollow
  <2>3. last - i + 1 < n /\ \A k \in 1..(last - i + 1) : Stream[i + k - 1] = v[k]
    BY <2>2
  <2> QED
    BY <2>1, <2>3 DEF MayFollow
<1>2. ~MustWait(i, whole)
  BY <1>1 DEF MustWait
<1>3. ASSUME NEW v \in Patterns PROVE Occurs(v, i, whole) <=> Occurs(v, i, last)
  <2>1. PICK n \in Nat : n = Len(v)
    BY <1>3, PatternLength
  <2>2. DOMAIN v = 1..n
    <3>1. v \in Seq(Bytes)
      BY <1>3 DEF PatternsHaveBytes
    <3> QED
      BY <2>1, <3>1
  <2>3. CASE i + n - 1 <= last
    <3>1. i + n - 1 <= whole
      BY <2>3
    <3> QED
      BY <2>1, <2>3, <3>1 DEF Occurs
  <2>4. CASE ~(i + n - 1 <= last)
    <3>1. ASSUME Occurs(v, i, whole) PROVE FALSE
      <4>1. \A k \in 1..n : Stream[i + k - 1] = v[k]
        BY <2>2, <3>1 DEF Occurs
      <4>2. last - i + 1 < n /\ \A k \in 1..(last - i + 1) : Stream[i + k - 1] = v[k]
        BY <2>4, <4>1
      <4>3. MayFollow(v, i, last)
        BY <2>1, <4>2 DEF MayFollow
      <4> QED
        BY <4>3 DEF MustWait
    <3>2. ~Occurs(v, i, last)
      BY <2>1, <2>4 DEF Occurs
    <3> QED
      BY <3>1, <3>2
  <2> QED
    BY <2>3, <2>4
<1>4. Full(i, whole) = Full(i, last)
  BY <1>3 DEF Full
<1> QED
  BY <1>2, <1>4

\* Scanning what has arrived, and then the rest, is scanning the whole.
LEMMA ScanJoins ==
  ASSUME PatternsHaveBytes, NEW last \in Nat, NEW whole \in Nat, last <= whole
  PROVE  \A i \in 1..(last + 1) :
           ScanOf(whole, TRUE)[i].shown
             = ScanOf(last, FALSE)[i].shown \cup ScanOf(whole, TRUE)[ScanOf(last, FALSE)[i].held].shown
<1>1. PICK a : a = ScanOf(last, FALSE)
  OBVIOUS
<1>2. PICK b : b = ScanOf(whole, TRUE)
  OBVIOUS
<1>3. \A i \in 1..(last + 1) : a[i] = ScanAt(a, i, last, FALSE) /\ ScanSays(a[i], i, last, FALSE)
  BY <1>1, ScanSound
<1>4. \A i \in 1..(whole + 1) : b[i] = ScanAt(b, i, whole, TRUE) /\ ScanSays(b[i], i, whole, TRUE)
  BY <1>2, ScanSound
<1>5. PICK n \in Nat : n = last + 1
  OBVIOUS
<1>6. PICK T : T = {i \in 1..n : b[i].shown = a[i].shown \cup b[a[i].held].shown}
  OBVIOUS
<1>7. ASSUME NEW i \in 1..n, \A j \in (i + 1)..n : j \in T PROVE i \in T
  <2>0. i \in 1..(last + 1) /\ i \in 1..(whole + 1)
    BY <1>5
  <2>1. a[i] = ScanAt(a, i, last, FALSE) /\ b[i] = ScanAt(b, i, whole, TRUE)
    BY <1>3, <1>4, <2>0
  <2>2. CASE i = last + 1 \/ MustWait(i, last)
    <3>1. a[i] = [shown |-> {}, held |-> i]
      BY <2>1, <2>2 DEF ScanAt
    <3>2. a[i].shown = {} /\ a[i].held = i
      BY <3>1
    <3> QED
      BY <1>6, <3>2
  <2>3. CASE i # last + 1 /\ ~MustWait(i, last) /\ Full(i, last) # {}
    <3>1. i \in 1..last /\ i # whole + 1
      BY <1>5, <2>3
    <3>2. ~MustWait(i, whole) /\ Full(i, whole) = Full(i, last)
      BY <2>3, <3>1, DecidedForGood
    <3>3. PICK m : m = Max(Full(i, last))
      OBVIOUS
    <3>4. m \in 1..(last + 1 - i)
      BY <2>3, <3>1, <3>3, LongestIs
    <3>5. PICK k \in (i + 1)..n : k = i + m
      BY <1>5, <3>1, <3>4
    <3>6. a[i] = a[k] /\ b[i] = b[k]
      BY <2>1, <2>3, <3>1, <3>2, <3>3, <3>5 DEF ScanAt
    <3>7. k \in T
      BY <1>7
    <3> QED
      BY <1>6, <3>6, <3>7
  <2>4. CASE i # last + 1 /\ ~MustWait(i, last) /\ Full(i, last) = {}
    <3>1. i \in 1..last /\ i # whole + 1
      BY <1>5, <2>4
    <3>2. ~MustWait(i, whole) /\ Full(i, whole) = Full(i, last)
      BY <2>4, <3>1, DecidedForGood
    <3>3. PICK k \in (i + 1)..n : k = i + 1
      BY <1>5, <3>1
    <3>4. PICK x : x = a[k]
      OBVIOUS
    <3>5. PICK y : y = b[k]
      OBVIOUS
    <3>6. a[i] = [x EXCEPT !.shown = @ \cup {i}] /\ b[i] = [y EXCEPT !.shown = @ \cup {i}]
      BY <2>1, <2>4, <3>1, <3>2, <3>3, <3>4, <3>5 DEF ScanAt
    <3>7. x \in [shown : SUBSET (k..last), held : k..(last + 1)]
      <4>1. k \in 1..(last + 1)
        BY <1>5
      <4> QED
        BY <1>3, <3>4, <4>1 DEF ScanSays
    <3>8. y \in [shown : SUBSET (k..whole), held : k..(whole + 1)]
      <4>1. k \in 1..(whole + 1)
        BY <1>5
      <4> QED
        BY <1>4, <3>5, <4>1 DEF ScanSays
    <3>9. a[i].shown = x.shown \cup {i} /\ a[i].held = x.held
      BY <3>6, <3>7
    <3>10. b[i].shown = y.shown \cup {i}
      BY <3>6, <3>8
    <3>11. y.shown = x.shown \cup b[x.held].shown
      <4>1. k \in T
        BY <1>7
      <4> QED
        BY <1>6, <3>4, <3>5, <4>1
    <3>12. b[i].shown = a[i].shown \cup b[a[i].held].shown
      BY <3>9, <3>10, <3>11
    <3> QED
      BY <1>6, <3>12
  <2> QED
    BY <2>2, <2>3, <2>4
<1>8. \A i \in 1..n : i \in T
  BY <1>7, Downward
<1> QED
  BY <1>1, <1>2, <1>5, <1>6, <1>8

(***************************************************************************)
(* What holds after every chunk.                                           *)
(***************************************************************************)

RedactTypes ==
  /\ text \in Seq(Bytes) /\ closed \in BOOLEAN /\ DOMAIN known \subseteq SecretValues
  /\ \A v \in DOMAIN known : known[v] \in 0..arrived
  /\ arrived \in 0..Len(Stream) /\ held \in 1..(arrived + 1) /\ shown \subseteq 1..(held - 1)
  /\ closed => held = arrived + 1 /\ arrived = Len(Stream)

\* No value that was registered in time stands at a byte that was shown.
ShownIsBare ==
  \A p \in shown, v \in DOMAIN known :
    known[v] < p /\ Wire(v) # <<>> => ~Occurs(Wire(v), p, Len(Stream))

\* A byte that was settled and not shown is part of a value, or of the beginning of
\* one in which the stream ended.
HiddenIsCovered ==
  \A p \in 1..(held - 1) :
    p \in shown \/ Covered(p, 1, Len(Stream)) \/ (closed /\ CutShort(p, 1, Len(Stream)))

\* What was shown, with what a scan of the rest would show, is what one scan shows.
CutsDoNotMatter ==
  (\A v \in DOMAIN known : known[v] = 0) =>
    shown \cup Scan(held, Len(Stream), TRUE).shown = Scan(1, Len(Stream), TRUE).shown

RedactInv == RedactTypes /\ ShownIsBare /\ HiddenIsCovered /\ CutsDoNotMatter

\* What arrives is a sequence of bytes.
LEMMA WireHasBytes ==
  ASSUME NEW s \in Seq(Bytes)
  PROVE  Wire(s) \in Seq(Bytes)
<1>1. Wire(s) = WireOf(s)[Len(s)] /\ Len(s) \in 0..Len(s)
  BY WireIs
<1> QED
  BY <1>1, WireGrows

LEMMA StreamHasBytes ==
  ASSUME RedactTypes
  PROVE  /\ Stream \in Seq(Bytes) /\ Len(Stream) \in Nat
         /\ PatternsHaveBytes
<1>1. text \in Seq(Bytes) /\ DOMAIN known \subseteq Seq(Bytes) \ {<<>>}
  BY RedactionAssumption DEF RedactTypes
<1>2. Stream \in Seq(Bytes)
  BY <1>1, WireHasBytes DEF Stream
<1>3. \A v \in DOMAIN known : Wire(v) \in Seq(Bytes)
  BY <1>1, WireHasBytes
<1>4. PatternsHaveBytes
  BY <1>1, <1>3 DEF PatternsHaveBytes, Patterns
<1> QED
  BY <1>2, <1>4

\* What the redaction does to the bytes never changes them.
LEMMA StreamStays ==
  ASSUME source' = source, text' = text
  PROVE  Stream' = Stream /\ \A s : Wire(s)' = Wire(s)
<1>1. \A s : Wire(s)' = Wire(s)
  BY DEF Wire, Survives
<1>2. Stream' = Stream
  BY DEF Stream, Wire, Survives
<1> QED
  BY <1>1, <1>2

LEMMA ScanStays ==
  ASSUME source' = source, text' = text, known' = known
  PROVE  /\ Patterns' = Patterns
         /\ \A i, last, final : Scan(i, last, final)' = Scan(i, last, final)
         /\ \A p, i, last : (Covered(p, i, last)' <=> Covered(p, i, last))
                            /\ (CutShort(p, i, last)' <=> CutShort(p, i, last))
         /\ \A v, i, last : Occurs(v, i, last)' <=> Occurs(v, i, last)
<1>1. Patterns' = Patterns
  BY DEF Patterns, Wire, Survives
<1>2. \A i, last, final : Scan(i, last, final)' = Scan(i, last, final)
  BY DEF Scan, MustWait, Full, MayFollow, Occurs, Patterns, Stream, Wire, Survives
<1>3. Stream' = Stream
  BY StreamStays
<1>4. \A v, i, last : Occurs(v, i, last)' <=> Occurs(v, i, last)
  BY <1>3 DEF Occurs
<1>5. \A p, i, last : Covered(p, i, last)' <=> Covered(p, i, last)
  BY <1>1, <1>4 DEF Covered
<1>6. \A p, i, last : CutShort(p, i, last)' <=> CutShort(p, i, last)
  BY <1>1, <1>3 DEF CutShort, MustWait, MayFollow
<1> QED
  BY <1>1, <1>2, <1>4, <1>5, <1>6

LEMMA RedactionStarts == RedactionInit => RedactInv
<1> SUFFICES ASSUME RedactionInit PROVE RedactInv
  OBVIOUS
<1>1. arrived = 0 /\ held = 1 /\ shown = {} /\ closed = FALSE
  BY DEF RedactionInit
<1>2. text \in Seq(Bytes)
  BY DEF RedactionInit
<1>3. PICK values \in SUBSET SecretValues : known = [v \in values |-> 0]
  BY DEF RedactionInit
<1>4. Len(Stream) \in Nat
  <2>1. Stream \in Seq(Bytes)
    BY <1>2, WireHasBytes DEF Stream
  <2> QED
    BY <2>1
<1>5. DOMAIN known \subseteq SecretValues /\ \A v \in DOMAIN known : known[v] = 0
  BY <1>3
<1>6. RedactTypes
  <2>1. arrived \in 0..Len(Stream) /\ held \in 1..(arrived + 1) /\ shown \subseteq 1..(held - 1)
    BY <1>1, <1>4
  <2>2. closed \in BOOLEAN /\ ~closed
    BY <1>1
  <2>3. \A v \in DOMAIN known : known[v] \in 0..arrived
    BY <1>1, <1>5
  <2> QED
    BY <1>2, <1>5, <2>1, <2>2, <2>3 DEF RedactTypes
<1>7. ShownIsBare /\ HiddenIsCovered /\ CutsDoNotMatter
  BY <1>1 DEF ShownIsBare, HiddenIsCovered, CutsDoNotMatter
<1> QED
  BY <1>6, <1>7 DEF RedactInv

\* A registration comes too late for the bytes that have arrived.
LEMMA RegisterKeepsRedaction ==
  ASSUME RedactInv, NEW value \in SecretValues, Register(value)
  PROVE  RedactInv'
<1>1. /\ ~closed /\ value \notin DOMAIN known
      /\ known' = [v \in DOMAIN known \cup {value} |-> IF v = value THEN arrived ELSE known[v]]
      /\ source' = source /\ text' = text /\ arrived' = arrived
      /\ held' = held /\ shown' = shown /\ closed' = closed
  BY DEF Register
<1>2. Stream' = Stream /\ \A s : Wire(s)' = Wire(s)
  BY <1>1, StreamStays
<1>3. RedactTypes /\ ShownIsBare /\ HiddenIsCovered
  BY DEF RedactInv
<1>4. DOMAIN known' = DOMAIN known \cup {value}
  BY <1>1
<1>5. \A v \in DOMAIN known : known'[v] = known[v]
  BY <1>1
<1>6. known'[value] = arrived
  BY <1>1
<1>7. RedactTypes'
  <2>1. arrived \in Nat /\ \A v \in DOMAIN known' : known'[v] \in 0..arrived
    <3>1. arrived \in Nat /\ \A v \in DOMAIN known : known[v] \in 0..arrived
      BY <1>3, StreamHasBytes DEF RedactTypes
    <3> QED
      BY <1>4, <1>5, <1>6, <3>1
  <2>2. DOMAIN known' \subseteq SecretValues
    BY <1>3, <1>4 DEF RedactTypes
  <2> QED
    BY <1>1, <1>2, <1>3, <2>1, <2>2 DEF RedactTypes
<1>8. \A v, i, last : Occurs(v, i, last)' <=> Occurs(v, i, last)
  BY <1>2 DEF Occurs
<1>9. Patterns \subseteq Patterns'
  BY <1>2, <1>4 DEF Patterns
<1>10. ShownIsBare'
  <2>1. ASSUME NEW p \in shown, NEW v \in DOMAIN known', known'[v] < p, Wire(v) # <<>>
        PROVE  ~Occurs(Wire(v), p, Len(Stream))
    <3>1. CASE v = value
      <4>1. p \in 1..(held - 1) /\ held \in 1..(arrived + 1) /\ arrived \in Nat
        BY <1>3, StreamHasBytes DEF RedactTypes
      <4> QED
        BY <1>6, <2>1, <3>1, <4>1
    <3>2. CASE v # value
      <4>1. v \in DOMAIN known /\ known[v] < p
        BY <1>4, <1>5, <2>1, <3>2
      <4> QED
        BY <1>3, <2>1, <4>1 DEF ShownIsBare
    <3> QED
      BY <3>1, <3>2
  <2> QED
    BY <1>1, <1>2, <1>8, <2>1 DEF ShownIsBare
<1>11. HiddenIsCovered'
  <2>1. \A p, i, last : Covered(p, i, last) => Covered(p, i, last)'
    BY <1>8, <1>9 DEF Covered
  <2> QED
    BY <1>1, <1>2, <1>3, <2>1 DEF HiddenIsCovered
<1>12. CutsDoNotMatter'
  <2>1. CASE arrived = 0
    <3>1. held = 1 /\ shown = {}
      BY <1>3, <2>1 DEF RedactTypes
    <3> QED
      BY <1>1, <3>1 DEF CutsDoNotMatter
  <2>2. CASE arrived # 0
    <3>1. value \in DOMAIN known' /\ known'[value] # 0
      BY <1>4, <1>6, <2>2
    <3> QED
      BY <3>1 DEF CutsDoNotMatter
  <2> QED
    BY <2>1, <2>2
<1> QED
  BY <1>7, <1>10, <1>11, <1>12 DEF RedactInv

\* A chunk settles what is held back and can be settled.
LEMMA FeedKeepsRedaction ==
  ASSUME RedactInv, ~closed, NEW last \in arrived..Len(Stream), NEW final \in BOOLEAN,
         final => last = Len(Stream), FeedTo(last, final)
  PROVE  RedactInv'
<1>1. RedactTypes /\ ShownIsBare /\ HiddenIsCovered /\ CutsDoNotMatter
  BY DEF RedactInv
<1>2. PatternsHaveBytes /\ Len(Stream) \in Nat
  BY <1>1, StreamHasBytes
<1>3. PICK whole \in Nat : whole = Len(Stream)
  BY <1>2
<1>4. /\ arrived \in 0..whole /\ held \in 1..(arrived + 1) /\ shown \subseteq 1..(held - 1)
      /\ text \in Seq(Bytes) /\ DOMAIN known \subseteq SecretValues
      /\ \A v \in DOMAIN known : known[v] \in 0..arrived
  BY <1>1, <1>3 DEF RedactTypes
<1>5. last \in Nat /\ arrived <= last /\ last <= whole /\ held \in 1..(last + 1)
  BY <1>3, <1>4
<1>6. PICK x : x = Scan(held, last, final)
  OBVIOUS
<1>7. x = ScanOf(last, final)[held]
  BY <1>6, ScanIs
<1>8. ScanSays(x, held, last, final)
  BY <1>2, <1>5, <1>7, ScanSound
<1>9. /\ x.shown \in SUBSET (held..last) /\ x.held \in held..(last + 1)
      /\ final => x.held = last + 1
      /\ \A p \in x.shown : p < x.held /\ ~MustWait(p, last) /\ Full(p, last) = {}
      /\ \A p \in held..(x.held - 1) : p \in x.shown \/ Covered(p, held, last) \/ (final /\ CutShort(p, held, last))
  BY <1>8 DEF ScanSays
<1>10. /\ arrived' = last /\ held' = x.held /\ shown' = shown \cup x.shown /\ closed' = final
       /\ source' = source /\ text' = text /\ known' = known
  BY <1>6 DEF FeedTo
<1>11. Stream' = Stream /\ \A s : Wire(s)' = Wire(s)
  BY <1>10, StreamStays
<1>12. /\ \A i, l, f : Scan(i, l, f)' = Scan(i, l, f)
       /\ \A p, i, l : (Covered(p, i, l)' <=> Covered(p, i, l)) /\ (CutShort(p, i, l)' <=> CutShort(p, i, l))
       /\ \A v, i, l : Occurs(v, i, l)' <=> Occurs(v, i, l)
  BY <1>10, ScanStays
<1>13. RedactTypes'
  <2>1. \A v \in DOMAIN known : known[v] \in 0..last
    BY <1>4, <1>5
  <2>2. x.held \in 1..(last + 1) /\ shown \cup x.shown \subseteq 1..(x.held - 1)
    <3>1. ASSUME NEW p \in x.shown PROVE p \in 1..(x.held - 1)
      BY <1>5, <1>9, <3>1
    <3>2. ASSUME NEW p \in shown PROVE p \in 1..(x.held - 1)
      BY <1>4, <1>5, <1>9, <3>2
    <3>3. x.held \in 1..(last + 1)
      BY <1>4, <1>5, <1>9
    <3> QED
      BY <3>1, <3>2, <3>3
  <2>3. final => x.held = last + 1 /\ last = whole
    BY <1>3, <1>9
  <2> QED
    BY <1>3, <1>4, <1>5, <1>10, <1>11, <2>1, <2>2, <2>3 DEF RedactTypes
<1>14. ShownIsBare'
  <2>1. ASSUME NEW p \in x.shown, NEW v \in DOMAIN known, Wire(v) # <<>>
        PROVE  ~Occurs(Wire(v), p, whole)
    <3>1. p \in 1..last /\ ~MustWait(p, last) /\ Full(p, last) = {}
      BY <1>4, <1>5, <1>9
    <3>2. Full(p, whole) = {}
      BY <1>2, <1>5, <3>1, DecidedForGood
    <3>3. Wire(v) \in Patterns
      BY <2>1 DEF Patterns
    <3> QED
      BY <3>2, <3>3 DEF Full
  <2>2. ASSUME NEW p \in shown', NEW v \in DOMAIN known, known[v] < p, Wire(v) # <<>>
        PROVE  ~Occurs(Wire(v), p, whole)
    <3>1. CASE p \in shown
      BY <1>1, <1>3, <2>2, <3>1 DEF ShownIsBare
    <3>2. CASE p \in x.shown
      BY <2>1, <2>2, <3>2
    <3> QED
      BY <1>10, <3>1, <3>2
  <2> QED
    BY <1>3, <1>10, <1>11, <1>12, <2>2 DEF ShownIsBare
<1>15. HiddenIsCovered'
  <2>1. ASSUME NEW p \in 1..(x.held - 1)
        PROVE  p \in shown \cup x.shown \/ Covered(p, 1, whole) \/ (final /\ CutShort(p, 1, whole))
    <3>1. x.held \in Int
      BY <1>5, <1>9
    <3>2. CASE p < held
      <4>1. p \in 1..(held - 1)
        BY <1>4, <3>1, <3>2
      <4> QED
        BY <1>1, <1>3, <4>1 DEF HiddenIsCovered
    <3>3. CASE p >= held
      <4>1. p \in held..(x.held - 1) /\ held..p \subseteq 1..p
        BY <1>4, <1>5, <3>1, <3>3
      <4>2. \A v \in Patterns, j \in Nat : Occurs(v, j, last) => Occurs(v, j, whole)
        <5>1. ASSUME NEW v \in Patterns, NEW j \in Nat, Occurs(v, j, last) PROVE Occurs(v, j, whole)
          <6>1. Len(v) \in Nat
            BY <1>2, PatternLength
          <6> QED
            BY <1>5, <5>1, <6>1 DEF Occurs
        <5> QED
          BY <5>1
      <4>3. Covered(p, held, last) => Covered(p, 1, whole)
        BY <4>1, <4>2 DEF Covered
      <4>4. final /\ CutShort(p, held, last) => CutShort(p, 1, whole)
        BY <1>3, <4>1 DEF CutShort
      <4> QED
        BY <1>9, <4>1, <4>3, <4>4
    <3> QED
      BY <1>4, <3>1, <3>2, <3>3
  <2> QED
    BY <1>3, <1>10, <1>11, <1>12, <2>1 DEF HiddenIsCovered
<1>16. CutsDoNotMatter'
  <2> SUFFICES ASSUME \A v \in DOMAIN known : known[v] = 0
               PROVE  shown \cup x.shown \cup Scan(x.held, whole, TRUE).shown = Scan(1, whole, TRUE).shown
    BY <1>3, <1>10, <1>11, <1>12 DEF CutsDoNotMatter
  <2>1. shown \cup Scan(held, whole, TRUE).shown = Scan(1, whole, TRUE).shown
    BY <1>1, <1>3 DEF CutsDoNotMatter
  <2>2. Scan(held, whole, TRUE).shown = x.shown \cup Scan(x.held, whole, TRUE).shown
    <3>1. CASE final
      <4>1. last = whole /\ x.held = whole + 1 /\ final = TRUE
        BY <1>3, <1>9, <3>1
      <4>2. Scan(held, whole, TRUE) = x
        BY <1>6, <4>1
      <4>3. whole + 1 \in 1..(whole + 1)
        OBVIOUS
      <4>4. ScanOf(whole, TRUE)[whole + 1] = ScanAt(ScanOf(whole, TRUE), whole + 1, whole, TRUE)
        BY <1>2, <4>3, ScanSound
      <4>5. ScanAt(ScanOf(whole, TRUE), whole + 1, whole, TRUE).shown = {}
        BY DEF ScanAt
      <4>6. Scan(whole + 1, whole, TRUE).shown = {}
        BY <4>4, <4>5, ScanIs
      <4> QED
        BY <4>1, <4>2, <4>6
    <3>2. CASE ~final
      <4>1. x = ScanOf(last, FALSE)[held]
        BY <1>7, <3>2
      <4>2. \A i \in 1..(last + 1) :
              ScanOf(whole, TRUE)[i].shown
                = ScanOf(last, FALSE)[i].shown \cup ScanOf(whole, TRUE)[ScanOf(last, FALSE)[i].held].shown
        BY <1>2, <1>5, ScanJoins
      <4>3. ScanOf(whole, TRUE)[held].shown = x.shown \cup ScanOf(whole, TRUE)[x.held].shown
        BY <1>5, <4>1, <4>2
      <4> QED
        BY <4>3, ScanIs
    <3> QED
      BY <3>1, <3>2
  <2> QED
    BY <2>1, <2>2
<1> QED
  BY <1>13, <1>14, <1>15, <1>16 DEF RedactInv

\* Where a byte arrives is how many arrive up to it.
LEMMA ArrivalIs ==
  ASSUME text \in Seq(Bytes), NEW k \in 1..Len(text)
  PROVE  Arrival(k) = CountOf(text, k)
<1>1. PICK s : s = SubSeq(text, 1, k)
  OBVIOUS
<1>2. s \in Seq(Bytes) /\ Len(s) = k /\ \A j \in 1..k : s[j] = text[j]
  BY <1>1, SubSeqProperties
<1>3. StandsAfter(s, text, 0)
  BY <1>2 DEF StandsAfter
<1>4. CountOf(text, 0 + k) = CountOf(text, 0) + CountOf(s, k)
  BY <1>2, <1>3, CountShifts
<1>5. CountOf(text, 0) = 0 /\ CountOf(s, k) \in Nat
  BY <1>2, CountIs
<1>6. Arrival(k) = CountOf(s, k)
  BY <1>1, <1>2, WireIs DEF Arrival, CountOf
<1> QED
  BY <1>4, <1>5, <1>6

LEMMA BareDoesNotLeak == RedactTypes /\ ShownIsBare => NothingLeaks
<1> SUFFICES ASSUME RedactTypes, ShownIsBare, NEW v \in DOMAIN known, NEW i \in DOMAIN text,
                    IsPrinted(v, i), Arrivals(v, i) # {}, \A p \in Arrivals(v, i) : p > known[v],
                    Arrivals(v, i) \subseteq shown
             PROVE  FALSE
  BY DEF NothingLeaks
<1>1. text \in Seq(Bytes) /\ v \in Seq(Bytes)
  BY RedactionAssumption DEF RedactTypes
<1>2. PICK m \in Nat : m = Len(v)
  BY <1>1
<1>3. PICK a \in Nat : a = i - 1
  BY <1>1
<1>4. i = a + 1 /\ i \in 1..Len(text) /\ a + m <= Len(text)
  <2>1. i \in 1..Len(text) /\ Len(text) \in Nat
    BY <1>1
  <2>2. i + m - 1 <= Len(text)
    BY <1>2 DEF IsPrinted
  <2> QED
    BY <1>3, <2>1, <2>2
<1>5. \A k \in 1..m : v[k] = text[a + k]
  <2>1. SubSeq(text, i, i + m - 1) = v
    BY <1>2 DEF IsPrinted
  <2>2. \A k \in 1..m : SubSeq(text, i, i + m - 1)[k] = text[i + k - 1]
    BY <1>1, <1>4, SubSeqProperties
  <2>3. \A k \in 1..m : i + k - 1 = a + k
    BY <1>4
  <2> QED
    BY <2>1, <2>2, <2>3
<1>6. StandsAfter(v, text, a)
  BY <1>1, <1>2, <1>4, <1>5 DEF StandsAfter
<1>7. \A n \in 0..m : CountOf(text, a + n) = CountOf(text, a) + CountOf(v, n)
  BY <1>2, <1>6, CountShifts
<1>8. PICK b \in Nat : b = CountOf(text, a)
  BY <1>1, <1>4, CountIs
<1>9. PICK c \in Nat : c = CountOf(v, m)
  BY <1>1, <1>2, CountIs
<1>10. /\ \A n \in 1..m : Survives(v[n]) =>
            /\ CountOf(v, n) \in 1..c
            /\ WireOf(v)[m][CountOf(v, n)] = v[n]
       /\ \A k \in 1..c : \E n \in 1..m : Survives(v[n]) /\ CountOf(v, n) = k
  <2>1. m \in 0..Len(v)
    BY <1>2
  <2> QED
    BY <1>1, <1>9, <2>1, ArrivesAt
<1>11. c >= 1
  <2>1. PICK j \in i..(i + m - 1) : Survives(text[j])
    BY <1>2 DEF Arrivals
  <2>2. PICK n \in 1..m : j = a + n
    <3>1. j - a \in 1..m /\ j = a + (j - a)
      BY <1>4, <2>1
    <3> QED
      BY <3>1
  <2>3. Survives(v[n])
    BY <1>5, <2>1, <2>2
  <2>4. CountOf(v, n) \in 1..c
    BY <1>10, <2>3
  <2> QED
    BY <2>4
<1>12. PICK q \in Nat : q = b + 1
  OBVIOUS
<1>13. q \in Arrivals(v, i)
  <2>1. 1 \in 1..c
    BY <1>11
  <2>2. PICK n \in 1..m : Survives(v[n]) /\ CountOf(v, n) = 1
    BY <1>10, <2>1
  <2>3. a + n \in 1..Len(text) /\ a + n \in i..(i + m - 1) /\ n \in 0..m
    BY <1>4
  <2>4. CountOf(text, a + n) = q
    BY <1>7, <1>8, <1>12, <2>2, <2>3
  <2>5. Arrival(a + n) = q
    BY <1>1, <2>3, <2>4, ArrivalIs
  <2>6. Survives(text[a + n])
    BY <1>5, <2>2
  <2> QED
    BY <1>2, <2>3, <2>5, <2>6 DEF Arrivals
<1>14. q \in shown /\ known[v] < q
  <2>1. q \in shown /\ q > known[v]
    BY <1>13
  <2>2. known[v] \in Int
    BY DEF RedactTypes
  <2> QED
    BY <2>1, <2>2
<1>15. PICK w : w = Wire(v)
  OBVIOUS
<1>16. w = WireOf(v)[m] /\ w \in Seq(Bytes) /\ Len(w) = c
  <2>1. w = WireOf(v)[m]
    BY <1>2, <1>15, WireIs
  <2>2. w \in Seq(Bytes)
    BY <1>1, <1>15, WireHasBytes
  <2> QED
    BY <1>9, <2>1, <2>2 DEF CountOf
<1>17. w # <<>>
  BY <1>11, <1>16, EmptySeq
<1>18. PICK t \in Nat : t = Len(text)
  BY <1>1
<1>19. /\ Len(Stream) = CountOf(text, t) /\ Stream = WireOf(text)[t]
       /\ \A n \in 0..t : CountOf(text, n) <= CountOf(text, t)
       /\ \A n \in 1..t : Survives(text[n]) => WireOf(text)[t][CountOf(text, n)] = text[n]
  <2>1. t \in 0..Len(text)
    BY <1>18
  <2>2. Stream = WireOf(text)[t]
    BY <1>18, WireIs DEF Stream
  <2>3. Len(Stream) = CountOf(text, t)
    BY <2>2 DEF CountOf
  <2> QED
    BY <1>1, <2>1, <2>2, <2>3, ArrivesAt
<1>20. q + c - 1 <= Len(Stream)
  <2>1. m \in 0..m /\ a + m \in 0..t
    BY <1>4, <1>18
  <2>2. CountOf(text, a + m) = b + c
    BY <1>7, <1>8, <1>9, <2>1
  <2>3. CountOf(text, a + m) <= CountOf(text, t) /\ CountOf(text, t) \in Nat
    BY <1>1, <1>18, <1>19, <2>1, CountIs
  <2> QED
    BY <1>12, <1>19, <2>2, <2>3
<1>21. ASSUME NEW k \in 1..c PROVE Stream[q + k - 1] = w[k]
  <2>1. PICK n \in 1..m : Survives(v[n]) /\ CountOf(v, n) = k
    BY <1>10
  <2>2. w[k] = v[n]
    BY <1>10, <1>16, <2>1
  <2>3. a + n \in 1..t /\ n \in 0..m
    BY <1>4, <1>18
  <2>4. v[n] = text[a + n] /\ Survives(text[a + n])
    BY <1>5, <2>1
  <2>5. Stream[CountOf(text, a + n)] = text[a + n]
    BY <1>19, <2>3, <2>4
  <2>6. CountOf(text, a + n) = q + k - 1
    BY <1>7, <1>8, <1>12, <2>1, <2>3
  <2> QED
    BY <2>2, <2>4, <2>5, <2>6
<1>22. Occurs(w, q, Len(Stream))
  BY <1>16, <1>20, <1>21 DEF Occurs
<1> QED
  BY <1>14, <1>15, <1>17, <1>22 DEF ShownIsBare

\* After the last chunk nothing is held back.
LEMMA RedactInvIsExact == RedactInv => RedactionExact
<1> SUFFICES ASSUME RedactInv PROVE RedactionExact
  OBVIOUS
<1>1. RedactTypes /\ ShownIsBare /\ HiddenIsCovered /\ CutsDoNotMatter
  BY DEF RedactInv
<1>2. PatternsHaveBytes
  BY <1>1, StreamHasBytes
<1>3. PICK whole \in Nat : whole = Len(Stream)
  BY <1>1, StreamHasBytes
<1>4. closed => held = whole + 1
  BY <1>1, <1>3 DEF RedactTypes
<1>5. NothingElseHidden
  <2>1. ASSUME closed, NEW p \in 1..whole, p \notin shown
        PROVE  \E i \in 1..p : \/ \E v \in Patterns : Occurs(v, i, whole) /\ p < i + Len(v)
                               \/ MustWait(i, whole)
    <3>1. p \in 1..(held - 1)
      BY <1>4, <2>1
    <3>2. Covered(p, 1, whole) \/ CutShort(p, 1, whole)
      BY <1>1, <1>3, <2>1, <3>1 DEF HiddenIsCovered
    <3> QED
      BY <3>2 DEF Covered, CutShort
  <2> QED
    BY <1>3, <2>1 DEF NothingElseHidden
<1>6. SplitIsInvisible
  <2>1. Scan(whole + 1, whole, TRUE).shown = {}
    <3>1. whole + 1 \in 1..(whole + 1)
      OBVIOUS
    <3>2. ScanOf(whole, TRUE)[whole + 1] = ScanAt(ScanOf(whole, TRUE), whole + 1, whole, TRUE)
      BY <1>2, <3>1, ScanSound
    <3>3. ScanAt(ScanOf(whole, TRUE), whole + 1, whole, TRUE).shown = {}
      BY DEF ScanAt
    <3> QED
      BY <3>2, <3>3, ScanIs
  <2> QED
    BY <1>1, <1>3, <1>4, <2>1 DEF CutsDoNotMatter, SplitIsInvisible
<1> QED
  BY <1>1, <1>5, <1>6, BareDoesNotLeak DEF RedactionExact

\* What comes out of the redaction is exact however the stream is cut into chunks:
\* no value that was registered in time leaks, nothing else is hidden, and the cuts
\* make no difference (Redactor.feed, diagnostics.py:142-167).
THEOREM RedactionStaysExact == RedactionSpec => []RedactionExact
<1>1. RedactInv /\ [RedactionNext]_redactionVars => RedactInv'
  <2> SUFFICES ASSUME RedactInv, [RedactionNext]_redactionVars PROVE RedactInv'
    OBVIOUS
  <2>1. Len(Stream) \in Nat /\ arrived \in Nat /\ arrived <= Len(Stream)
    BY StreamHasBytes DEF RedactInv, RedactTypes
  <2>2. CASE Feed
    <3>1. PICK last \in (arrived + 1)..Len(Stream) : FeedTo(last, FALSE)
      BY <2>2 DEF Feed
    <3>2. last \in arrived..Len(Stream)
      BY <2>1
    <3> QED
      BY <2>2, <3>1, <3>2, FeedKeepsRedaction DEF Feed
  <2>3. CASE FeedFinal
    <3>1. ~closed /\ arrived = Len(Stream) /\ FeedTo(arrived, TRUE)
      BY <2>3 DEF FeedFinal
    <3>2. arrived \in arrived..Len(Stream)
      BY <2>1
    <3> QED
      BY <3>1, <3>2, FeedKeepsRedaction
  <2>4. CASE \E v \in SecretValues : Register(v)
    BY <2>4, RegisterKeepsRedaction
  <2>5. CASE UNCHANGED redactionVars
    <3>1. /\ source' = source /\ text' = text /\ known' = known /\ arrived' = arrived
          /\ held' = held /\ shown' = shown /\ closed' = closed
      BY <2>5 DEF redactionVars
    <3>2. Stream' = Stream /\ \A s : Wire(s)' = Wire(s)
      BY <3>1, StreamStays
    <3>3. /\ \A i, l, f : Scan(i, l, f)' = Scan(i, l, f)
          /\ \A p, i, l : (Covered(p, i, l)' <=> Covered(p, i, l)) /\ (CutShort(p, i, l)' <=> CutShort(p, i, l))
          /\ \A v, i, l : Occurs(v, i, l)' <=> Occurs(v, i, l)
      BY <3>1, ScanStays
    <3>4. RedactTypes' /\ ShownIsBare'
      BY <3>1, <3>2, <3>3 DEF RedactInv, RedactTypes, ShownIsBare
    <3>5. HiddenIsCovered' /\ CutsDoNotMatter'
      BY <3>1, <3>2, <3>3 DEF RedactInv, HiddenIsCovered, CutsDoNotMatter
    <3> QED
      BY <3>4, <3>5 DEF RedactInv
  <2> QED
    BY <2>2, <2>3, <2>4, <2>5 DEF RedactionNext
<1> QED
  BY <1>1, RedactionStarts, RedactInvIsExact, PTL DEF RedactionSpec

================================================================================
