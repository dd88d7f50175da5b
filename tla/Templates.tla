------------------------------ MODULE Templates ------------------------------
(***************************************************************************)
(* The template repository of one task group, while files are uploaded to  *)
(* it: UpdateTemplate of pkg/git/manager.go.  Unlike the uploads of        *)
(* attempts (Attempts) it takes no lock, so each of its operations on the  *)
(* file system is a step of its own.                                       *)
(*                                                                         *)
(* An upload makes at most one commit, which goes by its name.  A commit   *)
(* is made in a clone of the template, so its only parent is the one the   *)
(* clone began at; a push is refused unless that is where the branch is.   *)
(***************************************************************************)

CONSTANTS Upload, File,
  Missing,  \* there is no repository
  Broken,   \* a directory that is not one
  Empty     \* a repository without a commit

VARIABLES
  branch,   \* the template: one of the above, or the commit its branch is at
  files,    \* commit -> its files
  pc,       \* upload -> where it is
  base      \* upload -> where its clone began

vars == <<branch, files, pc, base>>

Init ==
  /\ branch = Missing
  /\ files = [u \in Upload |-> {}]
  /\ pc    = [u \in Upload |-> "idle"]
  /\ base  = [u \in Upload |-> Missing]

FilesAt(b) == IF b \in Upload THEN files[b] ELSE {}

Goes(u, from, to) == pc[u] = from /\ pc' = [pc EXCEPT ![u] = to]

RepoExists(u) ==
  /\ Goes(u, "idle", IF branch = Missing THEN "init" ELSE "clone")
  /\ UNCHANGED <<branch, files, base>>

\* Fails where another upload was faster.
PlainInit(u) ==
  /\ branch = Missing
  /\ Goes(u, "init", "clone")
  /\ branch' = Empty
  /\ UNCHANGED <<files, base>>

CrashInInit(u) ==
  /\ branch = Missing
  /\ Goes(u, "init", "failed")
  /\ branch' = Broken
  /\ UNCHANGED <<files, base>>

\* CommitFiles, up to the push: what was uploaded over what was cloned.
PlainClone(u) ==
  /\ branch # Broken
  /\ Goes(u, "clone", "commit")
  /\ base' = [base EXCEPT ![u] = branch]
  /\ UNCHANGED <<branch, files>>

Commit(u, F) ==
  /\ Goes(u, "commit", "push")
  /\ files' = [files EXCEPT ![u] = FilesAt(base[u]) \cup F]
  /\ UNCHANGED <<branch, base>>

\* A push compares the commit with the branch, and then sets the branch,
\* which it creates only if there is none.
PushIsFastForward(u) ==
  /\ branch = base[u]
  /\ Goes(u, "push", "set")
  /\ UNCHANGED <<branch, files, base>>

SetReference(u) ==
  /\ base[u] = Empty => branch = Empty
  /\ Goes(u, "set", "done")
  /\ branch' = u
  /\ UNCHANGED <<files, base>>

\* A step that is refused or fails, or a crash.
Fails(u) ==
  /\ pc[u] \notin {"done", "failed"}
  /\ pc' = [pc EXCEPT ![u] = "failed"]
  /\ UNCHANGED <<branch, files, base>>

Next ==
  \E u \in Upload :
    \/ RepoExists(u)
    \/ PlainInit(u)
    \/ CrashInInit(u)
    \/ PlainClone(u)
    \/ \E F \in SUBSET File : Commit(u, F)
    \/ PushIsFastForward(u)
    \/ SetReference(u)
    \/ Fails(u)

Spec == Init /\ [][Next]_vars

\* "Unlike attempt uploads, old template files are never removed - only added
\* or overwritten" (manager.go, UpdateTemplate).
TemplateFilesKept == [][FilesAt(branch) \subseteq FilesAt(branch')]_vars
==============================================================================
