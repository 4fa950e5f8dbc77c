----------------------------- MODULE SourcePackage -----------------------------
(***************************************************************************)
(* The packaging of a source directory (identity/upload.py _package), one  *)
(* system call after the other, while somebody edits the directory.  Of a  *)
(* file the model keeps what os.stat tells, as the stamp of its last       *)
(* change, and what a read returns, as the stamp of its contents; a stamp  *)
(* is never used twice.                                                    *)
(***************************************************************************)
EXTENDS Naturals

CONSTANT MaxEdits   \* bound: how often the directory is changed meanwhile

VARIABLES
  files,     \* the directory: for each name a file or NoFile
  changed,   \* the stamp of the directory's last change
  edits,     \* the last stamp
  step,      \* what the packager does next, or how it ended
  local      \* its variables

packageVars == <<files, changed, edits, step, local>>

Ignore == ".dockerignore"
Dockerfile == "Dockerfile"

\* In the order of sorted names; ".env" stands for the paths that are never included.
Order(name) ==
  CASE name = Ignore -> 1 [] name = ".env" -> 2 [] name = Dockerfile -> 3 [] name = "main" -> 4
Names == {Ignore, ".env", Dockerfile, "main"}
Mandatory == {".env"}
AlwaysIncluded == {Ignore, Dockerfile}

\* A file that is not regular, or has a second name, is unsafe.  As .dockerignore,
\* its contents exclude "main" or nothing.
NoFile == [stamp |-> 0, contents |-> 0, safe |-> FALSE, excludes |-> {}]
Files(name, stamp) ==
  [stamp : {stamp}, contents : {stamp}, safe : BOOLEAN,
   excludes : IF name = Ignore THEN {{}, {"main"}} ELSE {{}}]

PackageInit ==
  /\ \E ignore \in {NoFile} \cup {f \in Files(Ignore, 1) : f.safe} :
       files = [n \in Names |-> IF n = Ignore THEN ignore
                                ELSE CHOOSE f \in Files(n, 1) : f.safe]
  /\ changed = 1 /\ edits = 1
  /\ step = "open"
  /\ local = [rootInfo |-> 0, before |-> 0, rules |-> NoFile, todo |-> {}, name |-> Ignore,
              info |-> NoFile, handle |-> NoFile, half |-> 0, archive |-> {}]

(***************************************************************************)
(* The editor                                                              *)
(***************************************************************************)

Editing == step \notin {"packed", "rejected", "crashed"} /\ edits <= MaxEdits

\* The packager reads this file.
IsOpen(name) ==
  name = local.name /\ local.handle # NoFile /\ local.handle.stamp = files[name].stamp

\* The contents are changed in place.
Write(name) ==
  /\ Editing /\ edits' = edits + 1
  /\ \E file \in Files(name, edits') :
       /\ files[name].safe /\ file.safe
       /\ files' = [files EXCEPT ![name] = file]
       /\ local' = IF IsOpen(name) THEN [local EXCEPT !.handle = file] ELSE local
  /\ UNCHANGED <<changed, step>>

\* A file is created, replaced by another one, or removed: a file that is open keeps
\* its contents, but fstat sees that its last name is gone.
Replace(name) ==
  /\ Editing /\ edits' = edits + 1 /\ changed' = edits'
  /\ \E file \in Files(name, edits') \cup {NoFile} :
       file # files[name] /\ files' = [files EXCEPT ![name] = file]
  /\ local' = IF IsOpen(name) THEN [local EXCEPT !.handle.stamp = 0] ELSE local
  /\ UNCHANGED step

(***************************************************************************)
(* The packager                                                            *)
(***************************************************************************)

\* A step looks at the directory and changes nothing in it.
Go(to) == step' = to /\ UNCHANGED <<files, changed, edits>>
Continue(to) == Go(to) /\ UNCHANGED local

\* The packaging goes on when the check holds, and ends with UPLOAD_REJECTED if not.
Require(check, to) == Continue(IF check THEN to ELSE "rejected")

\* The directory is pinned by a handle, which must be the one at the path.
OpenRoot == step = "open" /\ Go("pin") /\ local' = [local EXCEPT !.rootInfo = changed]
CheckPin == step = "pin" /\ Require(changed = local.rootInfo, "ignore")

StatIgnore ==
  /\ step = "ignore"
  /\ \/ files[Ignore] = NoFile /\ Continue("before")
     \/ files[Ignore] # NoFile /\ ~files[Ignore].safe /\ Continue("rejected")
     \/ files[Ignore].safe /\ Go("open ignore")
        /\ local' = [local EXCEPT !.info = files[Ignore]]

\* The file that is opened must be the one that was looked at.
Opened == files[local.name].safe /\ files[local.name].stamp = local.info.stamp

OpenIgnore ==
  /\ step = "open ignore"
  /\ \/ Opened /\ Go("read ignore")
        /\ local' = [local EXCEPT !.handle = local.info]
     \/ ~Opened /\ Continue("rejected")

\* The first half of the contents; the second one is read with the check after it.
ReadHalf == local' = [local EXCEPT !.half = local.handle.contents]
ReadIgnore == step = "read ignore" /\ Go("check ignore") /\ ReadHalf

HandleUnchanged == local.handle.stamp = local.info.stamp

CheckIgnore ==
  /\ step = "check ignore"
  /\ \/ HandleUnchanged /\ Go("before")
        /\ local' = [local EXCEPT !.rules = local.handle, !.handle = NoFile]
     \/ ~HandleUnchanged /\ Continue("rejected")

StatDirectory == step = "before" /\ Go("list") /\ local' = [local EXCEPT !.before = changed]

ListDirectory ==
  /\ step = "list" /\ Go("entry")
  /\ local' = [local EXCEPT !.todo = {n \in Names : files[n] # NoFile}]

\* The next of the names that are left.
First(name) == name \in local.todo /\ \A other \in local.todo : Order(name) <= Order(other)
Skip(name) == Go("entry") /\ local' = [local EXCEPT !.todo = @ \ {name}]

Excluded(name, ignore) == name \in ignore.excludes \ AlwaysIncluded

\* A link or a special file ends it, also where it is excluded; a file with a second
\* name ends it unless its path is never included.
StatEntry ==
  /\ step = "entry"
  /\ \E name \in Names :
       /\ First(name)
       /\ \/ ~files[name].safe /\ Continue("rejected")
          \/ files[name] # NoFile /\ name \in Mandatory /\ Skip(name)
          \/ /\ files[name].safe /\ name \notin Mandatory
             /\ \/ Excluded(name, local.rules) /\ Skip(name)
                \/ ~Excluded(name, local.rules) /\ Go("open entry")
                   /\ local' = [local EXCEPT !.name = name, !.info = files[name]]

\* A faulty variant that archives whichever .dockerignore is there.
AnyIgnore == TRUE

\* The .dockerignore must still be the one whose rules apply; one that was not there
\* at first is compared with nothing, which raises an AttributeError.
SameIgnore == local.name = Ignore => local.info.stamp = local.rules.stamp

OpenEntry ==
  /\ step = "open entry"
  /\ \/ ~Opened /\ Continue("rejected")
     \/ /\ Opened /\ ~SameIgnore
        /\ Continue(IF local.rules = NoFile THEN "crashed" ELSE "rejected")
     \/ /\ Opened /\ SameIgnore /\ Go("copy")
        /\ local' = [local EXCEPT !.handle = local.info]

Copy == step = "copy" /\ Go("check") /\ ReadHalf

CopyUnchanged == HandleUnchanged /\ files[local.name].stamp = local.info.stamp

CheckEntry ==
  /\ step = "check"
  /\ \/ ~CopyUnchanged /\ Continue("rejected")
     \/ /\ CopyUnchanged /\ Go("entry")
        /\ local' = [local EXCEPT
             !.archive = @ \cup {[name |-> local.name, file |-> local.handle, half |-> local.half]},
             !.handle = NoFile, !.todo = @ \ {local.name}]

\* The directory did not change since it was listed, nor since it was pinned.
CheckDirectory ==
  step = "entry" /\ local.todo = {} /\ Require(changed = local.before, "end")

Included == {entry.name : entry \in local.archive}

FinishPackage ==
  step = "end" /\ Require(changed = local.rootInfo /\ Dockerfile \in Included, "packed")

PackageNext ==
  \/ \E n \in Names : Write(n) \/ Replace(n)
  \/ OpenRoot \/ CheckPin
  \/ StatIgnore \/ OpenIgnore \/ ReadIgnore \/ CheckIgnore
  \/ StatDirectory \/ ListDirectory
  \/ StatEntry \/ OpenEntry \/ Copy \/ CheckEntry
  \/ CheckDirectory \/ FinishPackage

PackageSpec == PackageInit /\ [][PackageNext]_packageVars

-----------------------------------------------------------------------------
(***************************************************************************)
(* Properties                                                              *)
(***************************************************************************)

\* The rules of the .dockerignore in the archive exclude this name.
ExcludedByArchive(name) ==
  \E entry \in local.archive : entry.name = Ignore /\ Excluded(name, entry.file)

\* However the directory is edited meanwhile, an archive that is uploaded has only
\* whole regular files, and all names of one moment but those that its own
\* .dockerignore or the platform excludes (upload.py:180-270).
SourceWhole ==
  step = "packed" =>
    /\ \A entry \in local.archive : entry.file.safe /\ entry.half = entry.file.contents
    /\ Included = {n \in Names \ Mandatory : files[n] # NoFile /\ ~ExcludedByArchive(n)}

=============================================================================
