------------------------------ MODULE Attempts ------------------------------
(***************************************************************************)
(* How one participant's submissions to the tasks of one task group reach  *)
(* their repository and the attempts table (internal/attempts/service.go,  *)
(* pkg/git/git.go and manager.go, pkg/middleware/ssh.go).                  *)
(*                                                                         *)
(* There are two ways in.  A web upload is checked first, then locks the   *)
(* repository, commits the files to its default branch and saves the       *)
(* attempt.  A git session over SSH locks the repository for as long as it *)
(* lasts; a push is checked, moves its refs, and then saves an attempt for *)
(* each tag it created.  The database row always follows the commit, in a  *)
(* step of its own.                                                        *)
(*                                                                         *)
(* Repositories of other participants and groups have other locks and      *)
(* share nothing with this one.                                            *)
(***************************************************************************)
EXTENDS Naturals, Sequences, FiniteSets

CONSTANTS
  Request,      \* web uploads in flight at once
  Task,         \* the published tasks of the group
  File,         \* file names
  Pattern,      \* task -> the files its patterns match
  Limit,        \* task -> its maximum of attempts
  Branch, Tag,  \* ref names
  Master,       \* the default branch of a new repository
  Session,      \* holds the lock on behalf of the SSH session
  None,
  MaxCommits,   \* bound: commits in the repository
  MaxFailures,  \* bound: attempts that fail to be saved
  MaxCrashes    \* bound: crashes of the server

ASSUME ConstantsAssumption ==
  /\ Pattern \in [Task -> SUBSET File]
  /\ Limit \in [Task -> Nat]
  /\ Master \in Branch
  /\ Session \notin Request /\ None \notin Request \cup {Session}
  /\ None \notin Task
  /\ MaxCommits \in Nat /\ MaxFailures \in Nat /\ MaxCrashes \in Nat
  /\ IsFiniteSet(Tag)

CommitId == 1..MaxCommits
NoCommit == 0

\* A commit has its ancestors, itself included, and maps each file to the
\* commit that wrote it, or to NoCommit; task is a history variable, the task
\* a web commit was made for.
Commit ==
  [past : SUBSET CommitId, tree : [File -> CommitId \cup {NoCommit}],
   task : Task \cup {None}]

VARIABLES
  repo,      \* "none", "broken" (half created) or "ready"
  commits,   \* the commits of the repository
  branches,  \* branch -> commit
  tags,      \* tag -> commit
  head,      \* the branch HEAD names
  attempts,  \* rows of the attempts table
  lock,      \* the holder of the repository's mutex
  web,       \* web upload -> how far it is
  push,      \* how far the SSH session is
  misnamed,  \* history: a push named a branch where it was not
  failures, crashes

repository == <<repo, commits, branches, tags, head>>
vars == <<repository, attempts, lock, web, push, misnamed, failures, crashes>>

WebIdle == [pc |-> "idle", task |-> None, zip |-> {}, remove |-> {}, hash |-> NoCommit]
PushIdle == [pc |-> "idle", task |-> None, commit |-> NoCommit, branches |-> {}, tags |-> {}]

Init ==
  /\ repo = "none"
  /\ commits = <<>>
  /\ branches = [b \in Branch |-> NoCommit]
  /\ tags = [t \in Tag |-> NoCommit]
  /\ head = Master
  /\ attempts = <<>>
  /\ lock = None
  /\ web = [r \in Request |-> WebIdle]
  /\ push = PushIdle
  /\ misnamed = FALSE
  /\ failures = 0 /\ crashes = 0

-----------------------------------------------------------------------------
(* Reading the repository and the table                                    *)

NextCommit == Len(commits) + 1
HasRoom    == Len(commits) < MaxCommits   \* bound

TreeOf(c) == IF c = NoCommit THEN [f \in File |-> NoCommit] ELSE commits[c].tree
PastOf(c) == IF c = NoCommit THEN {} ELSE commits[c].past
PastOfAll(C) == UNION {PastOf(c) : c \in C}
Files(tree) == {f \in File : tree[f] # NoCommit}

Tips == {branches[b] : b \in Branch} \cup {tags[t] : t \in Tag}
Reachable == UNION {PastOf(c) : c \in Tips}

\* A task without patterns accepts any files, and has none of its own.
Accepts(t, files) == Pattern[t] = {} \/ files \cap Pattern[t] # {}

Used(t) == Cardinality({i \in DOMAIN attempts : attempts[i].task = t})

-----------------------------------------------------------------------------
(* Creating the repository on first use, by whoever holds the lock         *)

\* It is empty, or a clone of the group's template.  A broken one is taken
\* for a repository, and whoever opens it fails.
EnsureRepo ==
  IF repo = "none"
  THEN /\ repo' = "ready"
       /\ \/ UNCHANGED <<commits, branches>>
          \/ \E files \in SUBSET File :
               /\ HasRoom
               /\ commits' = Append(commits,
                    [past |-> {NextCommit}, task |-> None,
                     tree |-> [f \in File |->
                       IF f \in files THEN NextCommit ELSE NoCommit]])
               /\ branches' = [branches EXCEPT ![head] = NextCommit]
       /\ UNCHANGED <<tags, head>>
  ELSE repo = "ready" /\ UNCHANGED repository

-----------------------------------------------------------------------------
(* A web upload                                                            *)

\* The task's files that an upload does not replace.
Remove(t, zip) ==
  {f \in Files(TreeOf(branches[head])) : f \notin zip /\ f \in Pattern[t]}

\* The limit and the patterns are checked before the lock is taken.
BeginAttempt(r, t, zip) ==
  /\ web[r].pc = "idle"
  /\ Used(t) + 1 <= Limit[t]
  /\ zip # {}
  /\ Accepts(t, zip)
  /\ web' = [web EXCEPT ![r] =
       [pc |-> "wait", task |-> t, zip |-> zip, remove |-> {}, hash |-> NoCommit]]
  /\ UNCHANGED <<repository, attempts, lock, push, misnamed, failures, crashes>>

\* Mutant: the mutex is not per repository but per upload.
LockOwn(r) ==
  /\ web[r].pc = "wait"
  /\ lock' = r
  /\ web' = [web EXCEPT ![r].pc = "ensure"]
  /\ UNCHANGED <<repository, attempts, push, misnamed, failures, crashes>>

LockForAttempt(r) ==
  /\ web[r].pc = "wait"
  /\ lock = None
  /\ lock' = r
  /\ web' = [web EXCEPT ![r].pc = "ensure"]
  /\ UNCHANGED <<repository, attempts, push, misnamed, failures, crashes>>

EnsureForAttempt(r) ==
  /\ web[r].pc = "ensure"
  /\ EnsureRepo
  /\ web' = [web EXCEPT ![r].pc = "list"]
  /\ UNCHANGED <<attempts, lock, push, misnamed, failures, crashes>>

ListFiles(r) ==
  /\ web[r].pc = "list"
  /\ web' = [web EXCEPT ![r].pc = "commit",
                        ![r].remove = Remove(web[r].task, web[r].zip)]
  /\ UNCHANGED <<repository, attempts, lock, push, misnamed, failures, crashes>>

\* A clone of the default branch, a commit in it and a push of that branch.
CommitFiles(r) ==
  /\ web[r].pc = "commit"
  /\ HasRoom
  /\ commits' = Append(commits,
       [past |-> PastOf(branches[head]) \cup {NextCommit},
        task |-> web[r].task,
        tree |-> [f \in File |->
          CASE f \in web[r].zip    -> NextCommit
            [] f \in web[r].remove -> NoCommit
            [] OTHER               -> TreeOf(branches[head])[f]]])
  /\ branches' = [branches EXCEPT ![head] = NextCommit]
  /\ web' = [web EXCEPT ![r].pc = "save", ![r].hash = NextCommit]
  /\ UNCHANGED <<repo, tags, head, attempts, lock, push, misnamed, failures, crashes>>

SaveAttempt(r) ==
  /\ web[r].pc = "save"
  /\ \/ /\ attempts' = Append(attempts, [task |-> web[r].task, commit |-> web[r].hash])
        /\ UNCHANGED failures
     \/ /\ failures < MaxFailures
        /\ failures' = failures + 1
        /\ UNCHANGED attempts
  /\ lock' = None
  /\ web' = [web EXCEPT ![r] = WebIdle]
  /\ UNCHANGED <<repository, push, misnamed, crashes>>

\* Mutant: an error returns without unlocking.
FailsLocked(r) ==
  /\ web[r].pc \in {"ensure", "list", "commit"}
  /\ web' = [web EXCEPT ![r] = WebIdle]
  /\ UNCHANGED <<repository, attempts, lock, push, misnamed, failures, crashes>>

\* Mutant: the error of the commit is not looked at before saving.
FailsSaving(r) ==
  /\ web[r].pc \in {"ensure", "list", "commit"}
  /\ web' = [web EXCEPT ![r].pc = "save"]
  /\ UNCHANGED <<repository, attempts, lock, push, misnamed, failures, crashes>>

\* Any error with the lock held and nothing committed yet.
AttemptFails(r) ==
  /\ web[r].pc \in {"ensure", "list", "commit"}
  /\ lock' = None
  /\ web' = [web EXCEPT ![r] = WebIdle]
  /\ UNCHANGED <<repository, attempts, push, misnamed, failures, crashes>>

-----------------------------------------------------------------------------
(* An SSH session: a clone, a fetch or a push                              *)

OpenSession ==
  /\ push.pc = "idle"
  /\ lock = None
  /\ lock' = Session
  /\ push' = [PushIdle EXCEPT !.pc = "ensure"]
  /\ UNCHANGED <<repository, attempts, web, misnamed, failures, crashes>>

EnsureForSession ==
  /\ push.pc = "ensure"
  /\ EnsureRepo
  /\ push' = [push EXCEPT !.pc = "open"]
  /\ UNCHANGED <<attempts, lock, web, misnamed, failures, crashes>>

\* A commit the client pushes: one it fetched, or a new one with any known
\* parents and any content its parents and itself explain.
ReceivedCommit(c) ==
  IF c \in DOMAIN commits THEN UNCHANGED commits
  ELSE /\ c = NextCommit /\ HasRoom
       /\ \E parents \in SUBSET DOMAIN commits :
          \E tree \in [File -> parents \cup {NoCommit, c}] :
            /\ \A f \in File : tree[f] = c \/ \E p \in parents \cup {NoCommit} :
                 tree[f] = TreeOf(p)[f]
            /\ commits' = Append(commits,
                 [past |-> PastOfAll(parents) \cup {c},
                  tree |-> tree, task |-> None])

\* Mutant: a branch may be moved anywhere.
AnyBranchMove(old, past) == TRUE

\* checkBranch: a new branch, or a move forward from where the push says it is.
ForwardMove(old, past) == old = NoCommit \/ old \in past

\* Setting a ref checks only whether it was there to be moved or is new.
Settable(b, old) == (old = NoCommit) = (branches[b] = NoCommit)

\* Mutant: the tags of one push count as one attempt.
OnceWithinLimit(t, T) == Used(t) + 1 <= Limit[t]

WithinLimit(t, T) == Used(t) + Cardinality(T) <= Limit[t]

\* A push of commit c to the branches B, which it says are at old, and the new
\* tags T, which submit task t, passes checkPush.  A refused push changes nothing.
CheckPush(c, B, T, t) ==
  /\ push.pc = "open"
  /\ B # {} \/ T # {}
  /\ ReceivedCommit(c)
  /\ \E old \in [B -> DOMAIN commits' \cup {NoCommit}] :
       /\ \A b \in B : /\ branches[b] # c
                       /\ Settable(b, old[b])
                       /\ ForwardMove(old[b], commits'[c].past)
       /\ misnamed' = (misnamed \/ \E b \in B : old[b] # branches[b])
  /\ \A g \in T : tags[g] = NoCommit
  /\ T # {} => WithinLimit(t, T) /\ Accepts(t, Files(commits'[c].tree))
  /\ push' = [pc |-> "move", task |-> t, commit |-> c, branches |-> B, tags |-> T]
  /\ UNCHANGED <<repo, branches, tags, head, attempts, lock, web, failures, crashes>>

MovedBranches(B) == [b \in Branch |-> IF b \in B THEN push.commit ELSE branches[b]]
MovedTags(T)     == [g \in Tag |-> IF g \in T THEN push.commit ELSE tags[g]]

MoveRefs ==
  /\ push.pc = "move"
  /\ branches' = MovedBranches(push.branches)
  /\ tags' = MovedTags(push.tags)
  /\ push' = [push EXCEPT !.pc = "moved"]
  /\ UNCHANGED <<repo, commits, head, attempts, lock, web, misnamed, failures, crashes>>

\* An unborn HEAD is pointed at a pushed branch.
EnsureDefaultBranch ==
  /\ push.pc = "moved"
  /\ IF branches[head] = NoCommit /\ push.branches # {}
     THEN head' \in push.branches
     ELSE UNCHANGED head
  /\ push' = [push EXCEPT !.pc = "save"]
  /\ UNCHANGED <<repo, commits, branches, tags, attempts, lock, web, misnamed, failures, crashes>>

\* Mutant: a failure that is reported after the row was committed is retried.
SaveTagTwice(g) ==
  /\ push.pc = "save"
  /\ g \in push.tags
  /\ \/ /\ push' = [push EXCEPT !.tags = @ \ {g}]
        /\ UNCHANGED failures
     \/ /\ failures < MaxFailures
        /\ failures' = failures + 1
        /\ UNCHANGED push
  /\ attempts' = Append(attempts, [task |-> push.task, commit |-> push.commit])
  /\ UNCHANGED <<repository, lock, web, misnamed, crashes>>

\* A tag that fails to be saved is reported, and the next one is saved.
SaveTag(g) ==
  /\ push.pc = "save"
  /\ g \in push.tags
  /\ push' = [push EXCEPT !.tags = @ \ {g}]
  /\ \/ /\ attempts' = Append(attempts, [task |-> push.task, commit |-> push.commit])
        /\ UNCHANGED failures
     \/ /\ failures < MaxFailures
        /\ failures' = failures + 1
        /\ UNCHANGED attempts
  /\ UNCHANGED <<repository, lock, web, misnamed, crashes>>

\* The session ends: after a push, a clone or fetch, a refused push, an
\* error, or one of its timeouts.
CloseSession ==
  /\ push.pc \in {"ensure", "open"} \/ (push.pc = "save" /\ push.tags = {})
  /\ push' = PushIdle
  /\ lock' = None
  /\ UNCHANGED <<repository, attempts, web, misnamed, failures, crashes>>

-----------------------------------------------------------------------------
(* The server crashes: locks and requests are gone, disk and database stay *)

\* Some of the refs of a push moved, or a new repository was left half made,
\* unusable or without the template's commit.
Crash ==
  /\ crashes < MaxCrashes
  /\ crashes' = crashes + 1
  /\ lock' = None
  /\ web' = [r \in Request |-> WebIdle]
  /\ push' = PushIdle
  /\ \/ UNCHANGED repository
     \/ /\ push.pc = "move"
        /\ \E B \in SUBSET push.branches, T \in SUBSET push.tags :
             /\ branches' = MovedBranches(B)
             /\ tags' = MovedTags(T)
        /\ UNCHANGED <<repo, commits, head>>
     \/ /\ repo = "none"
        /\ push.pc = "ensure" \/ \E r \in Request : web[r].pc = "ensure"
        /\ repo' \in {"broken", "ready"}
        /\ UNCHANGED <<commits, branches, tags, head>>
  /\ UNCHANGED <<attempts, misnamed, failures>>

WebStep(r) ==
  \/ EnsureForAttempt(r) \/ ListFiles(r) \/ CommitFiles(r) \/ SaveAttempt(r)
  \/ AttemptFails(r)

SessionStep ==
  \/ EnsureForSession \/ MoveRefs \/ EnsureDefaultBranch \/ CloseSession
  \/ \E g \in Tag : SaveTag(g)

Next ==
  \/ \E r \in Request, t \in Task, zip \in SUBSET File : BeginAttempt(r, t, zip)
  \/ \E r \in Request : LockForAttempt(r) \/ WebStep(r)
  \/ OpenSession \/ SessionStep
  \/ \E c \in CommitId, B \in SUBSET Branch, T \in SUBSET Tag, t \in Task :
       CheckPush(c, B, T, t)
  \/ Crash

Spec == Init /\ [][Next]_vars

\* What holds the lock goes on: HTTP handlers run to their end, and the SSH
\* server's timeouts end every session.  A Go mutex does not starve a waiter.
FairSpec ==
  /\ Spec
  /\ \A r \in Request : SF_vars(LockForAttempt(r)) /\ WF_vars(WebStep(r))
  /\ WF_vars(SessionStep)

-----------------------------------------------------------------------------
WebPc  == {"idle", "wait", "ensure", "list", "commit", "save"}
PushPc == {"idle", "ensure", "open", "move", "moved", "save"}

\* Every variable has its type (repository, attempts table, mutex).
TypeOK ==
  /\ repo \in {"none", "broken", "ready"}
  /\ commits \in Seq(Commit) /\ Len(commits) <= MaxCommits
  /\ branches \in [Branch -> DOMAIN commits \cup {NoCommit}]
  /\ tags \in [Tag -> DOMAIN commits \cup {NoCommit}]
  /\ head \in Branch
  /\ attempts \in Seq([task : Task, commit : CommitId])
  /\ lock \in Request \cup {Session, None}
  /\ web \in [Request ->
       [pc : WebPc, task : Task \cup {None}, zip : SUBSET File,
        remove : SUBSET File, hash : DOMAIN commits \cup {NoCommit}]]
  /\ push \in
       [pc : PushPc, task : Task \cup {None}, commit : DOMAIN commits \cup {NoCommit},
        branches : SUBSET Branch, tags : SUBSET Tag]
  /\ misnamed \in BOOLEAN
  /\ failures \in 0..MaxFailures
  /\ crashes \in 0..MaxCrashes

\* The commit of every attempt is reachable from a branch or a tag, so no
\* garbage collection takes it and its diff can be shown: that of a tag whatever
\* is pushed later, that of an upload as long as each push names its branches
\* where they are, as a git client does with what the session told it
\* (checkBranch, the refusal of moved tags, Manager.Lock).
AttemptsReachable ==
  \A i \in DOMAIN attempts :
    \/ attempts[i].commit \in Reachable
    \/ misnamed /\ commits[attempts[i].commit].task # None

\* A web submission leaves no file of an earlier one of its task: what the
\* task's patterns match in its commit was uploaded with it (PushAttempt lists and
\* commits under one Lock).
WebAttemptsReplace ==
  \A c \in DOMAIN commits : commits[c].task # None =>
    \A f \in Pattern[commits[c].task] : commits[c].tree[f] \in {NoCommit, c}

\* No tag and no web commit is counted as two attempts, and when nothing
\* failed each is one, once its request or session is over.
Submissions ==
  Cardinality({g \in Tag : tags[g] # NoCommit}) +
  Cardinality({c \in DOMAIN commits : commits[c].task # None})

InProgress ==
  Cardinality({r \in Request : web[r].pc = "save"}) +
  (IF push.pc \in {"moved", "save"} THEN Cardinality(push.tags) ELSE 0)

OneAttemptEach ==
  /\ Len(attempts) + InProgress <= Submissions
  /\ failures = 0 /\ crashes = 0 => Len(attempts) + InProgress = Submissions

\* No push makes an attempt beyond the limit of its task, however many tags it
\* has and whatever was uploaded meanwhile (checkPush counts under Lock).
PushWithinLimit ==
  [][\A t \in Task : lock = Session /\ Used(t)' > Used(t) => Used(t)' <= Limit[t]]_vars

\* A task takes no more attempts than its limit (tests/task_test.go).
LimitRespected == \A t \in Task : Used(t) <= Limit[t]

\* A web upload that waits for the repository gets its turn and ends, though
\* git sessions and other uploads come and go and fail.
UploadsEnd == \A r \in Request : web[r].pc = "wait" ~> web[r].pc = "idle"
=============================================================================
