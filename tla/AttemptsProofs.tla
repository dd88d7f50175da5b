--------------------------- MODULE AttemptsProofs ---------------------------
(***************************************************************************)
(* Theorems of Attempts, for any number of uploads, tasks, files, refs,    *)
(* commits, failures and crashes.                                          *)
(*                                                                         *)
(* That the commit of an attempt stays reachable needs four things.  The   *)
(* history of a commit is closed (Closed), so a ref that moves forward     *)
(* loses nothing.  What checkPush settled is still so when the refs move   *)
(* (Checked), which holds because nobody else can move one meanwhile: the  *)
(* lock has one holder (Exclusive).  The commit that is about to be saved  *)
(* is held already (Committed), so that a crash can only lose the attempt, *)
(* never leave one without its commit.  And what is held is kept by a tag  *)
(* that never moves, or is an upload's and on a branch, which loses it     *)
(* only to a push that names the branch where it is not (Held).            *)
(*                                                                         *)
(* What Attempts checks before it writes is still so when it writes,       *)
(* because it holds the repository's lock from the one to the other: the   *)
(* attempts that a push counted, and the files that an upload listed.      *)
(*                                                                         *)
(* For the count (Room): what a push was granted is used up by its own     *)
(* tags, one attempt each at most, and no upload saves one while the       *)
(* session has the lock (Exclusive).  For the files (Listed): the default  *)
(* branch an upload commits to is the one whose files it listed.           *)
(*                                                                         *)
(* With the limit and the files goes the count of attempts and submissions *)
(* (OneAttemptEach): a commit or a moved tag adds one submission and one   *)
(* attempt on its way, and saving turns that one into a row, or loses it.  *)
(***************************************************************************)
EXTENDS Attempts, TLAPS, FiniteSetTheorems

Holding == {"ensure", "list", "commit", "save"}

Exclusive ==
  /\ push.pc # "idle" => lock = Session
  /\ \A r \in Request : web[r].pc \in Holding => lock = r

Closed ==
  \A c \in DOMAIN commits :
    /\ c \in commits[c].past
    /\ commits[c].past \subseteq DOMAIN commits
    /\ \A d \in commits[c].past : commits[d].past \subseteq commits[c].past

Checked ==
  push.pc = "move" =>
    /\ push.commit \in DOMAIN commits
    /\ push.task \in Task
    /\ push.branches # {} \/ push.tags # {}
    /\ \A b \in push.branches :
         misnamed \/ ForwardMove(branches[b], commits[push.commit].past)
    /\ \A g \in push.tags : tags[g] = NoCommit

\* What no push takes away: a tag stays, and an upload is reachable until a
\* push names a branch where it is not.
Held ==
  {c \in DOMAIN commits :
     /\ misnamed \/ c \in Reachable
     /\ commits[c].task # None \/ \E g \in Tag : tags[g] = c}

AttemptsHeld == \A i \in DOMAIN attempts : attempts[i].commit \in Held

Committed ==
  /\ \A r \in Request :
       /\ web[r].pc # "idle" => web[r].task \in Task
       /\ web[r].pc = "save" => web[r].hash \in Held
  /\ push.pc \in {"moved", "save"} =>
       /\ push.tags # {} => push.commit \in Held
       /\ push.task \in Task

\* The repository is empty until it is created, which comes first.
Created ==
  /\ repo = "none" => commits = <<>>
  /\ push.pc \notin {"idle", "ensure"} => repo # "none"
  /\ \A r \in Request : web[r].pc \in {"list", "commit", "save"} => repo # "none"

IInv ==
  /\ TypeOK
  /\ Created
  /\ Exclusive
  /\ Closed
  /\ Checked
  /\ Committed
  /\ AttemptsHeld

-----------------------------------------------------------------------------
(* Appending a commit                                                      *)

LEMMA AppendedCommit ==
  ASSUME TypeOK, HasRoom, NEW e \in Commit, commits' = Append(commits, e)
  PROVE  /\ NextCommit \in CommitId
         /\ NextCommit # NoCommit
         /\ NextCommit \notin DOMAIN commits
         /\ commits' \in Seq(Commit)
         /\ Len(commits') <= MaxCommits
         /\ DOMAIN commits' = DOMAIN commits \cup {NextCommit}
         /\ commits'[NextCommit] = e
         /\ \A c \in DOMAIN commits : commits'[c] = commits[c]
  BY ConstantsAssumption, SMTT(30)
     DEF TypeOK, HasRoom, NextCommit, CommitId, NoCommit

\* The commits of a repository are numbered, and NoCommit is not one.
LEMMA CommitNumbers ==
  ASSUME TypeOK
  PROVE  /\ DOMAIN commits \subseteq CommitId
         /\ NoCommit \notin DOMAIN commits
         /\ \A c \in DOMAIN commits : commits[c] \in Commit
  BY ConstantsAssumption, SMTT(30) DEF TypeOK, CommitId, NoCommit

\* Histories stay closed when a commit is added on top of closed ones.
LEMMA AppendedClosed ==
  ASSUME TypeOK, Closed, HasRoom, NEW e \in Commit, commits' = Append(commits, e),
         NextCommit \in e.past,
         e.past \subseteq DOMAIN commits \cup {NextCommit},
         \A d \in e.past \cap DOMAIN commits : commits[d].past \subseteq e.past
  PROVE  Closed'
<1>1. /\ DOMAIN commits' = DOMAIN commits \cup {NextCommit}
      /\ NextCommit \notin DOMAIN commits
      /\ commits'[NextCommit] = e
      /\ \A c \in DOMAIN commits : commits'[c] = commits[c]
  BY AppendedCommit
<1>2. ASSUME NEW c \in DOMAIN commits
      PROVE  /\ c \in commits'[c].past
             /\ commits'[c].past \subseteq DOMAIN commits'
             /\ \A d \in commits'[c].past : commits'[d].past \subseteq commits'[c].past
  BY <1>1 DEF Closed
<1>3. ASSUME NEW d \in e.past
      PROVE  commits'[d].past \subseteq e.past
  <2>1. CASE d = NextCommit
    BY <2>1, <1>1
  <2>2. CASE d \in DOMAIN commits
    BY <2>2, <1>1
  <2> QED
    BY <2>1, <2>2
<1> QED
  BY <1>1, <1>2, <1>3 DEF Closed

\* What is reachable stays so when commits are only added and refs only move
\* forward.
LEMMA ReachableGrows ==
  ASSUME TypeOK, TypeOK', Closed',
         DOMAIN commits \subseteq DOMAIN commits',
         \A c \in DOMAIN commits : commits'[c] = commits[c],
         \A b \in Branch : \/ branches[b] = NoCommit
                            \/ /\ branches'[b] # NoCommit
                               /\ branches[b] \in commits'[branches'[b]].past,
         \A g \in Tag : tags[g] = NoCommit \/ tags[g]' = tags[g]
  PROVE  Reachable \subseteq Reachable'
<1> SUFFICES ASSUME NEW x \in Reachable
             PROVE  x \in Reachable'
  OBVIOUS
<1>1. PICK c \in Tips : x \in PastOf(c)
  BY DEF Reachable
<1>2. c # NoCommit /\ x \in commits[c].past
  BY <1>1 DEF PastOf
<1>3. c \in DOMAIN commits
  BY <1>1, <1>2 DEF Tips, TypeOK
<1>4. c \in DOMAIN commits' /\ x \in commits'[c].past
  BY <1>2, <1>3
<1>5. CASE \E b \in Branch : c = branches[b]
  <2>1. PICK b \in Branch : c = branches[b]
    BY <1>5
  <2>2. branches'[b] # NoCommit /\ c \in commits'[branches'[b]].past
    BY <2>1, <1>2
  <2>3. branches'[b] \in DOMAIN commits'
    BY <2>2 DEF TypeOK
  <2>4. x \in commits'[branches'[b]].past
    BY <2>2, <2>3, <1>4 DEF Closed
  <2>5. \E d \in Tips' : d # NoCommit /\ x \in commits'[d].past
    BY <2>2, <2>4 DEF Tips
  <2> QED
    BY <2>5 DEF Reachable, PastOf
<1>6. CASE \E g \in Tag : c = tags[g]
  <2>1. PICK g \in Tag : c = tags[g]
    BY <1>6
  <2>2. c = tags'[g]
    BY <2>1, <1>2
  <2>3. \E d \in Tips' : d # NoCommit /\ x \in commits'[d].past
    BY <2>2, <1>2, <1>4 DEF Tips
  <2> QED
    BY <2>3 DEF Reachable, PastOf
<1> QED
  BY <1>1, <1>5, <1>6 DEF Tips

WebState(D) ==
  [pc : WebPc, task : Task \cup {None}, zip : SUBSET File,
   remove : SUBSET File, hash : D \cup {NoCommit}]

PushState(D) ==
  [pc : PushPc, task : Task \cup {None}, commit : D \cup {NoCommit},
   branches : SUBSET Branch, tags : SUBSET Tag]

\* What is held stays so when what is reachable does.
LEMMA HeldGrows ==
  ASSUME TypeOK, DOMAIN commits \subseteq DOMAIN commits',
         \A c \in DOMAIN commits : commits'[c] = commits[c],
         misnamed => misnamed',
         misnamed' \/ Reachable \subseteq Reachable',
         \A g \in Tag : tags[g] = NoCommit \/ tags[g]' = tags[g]
  PROVE  Held \subseteq Held'
<1>1. NoCommit \notin DOMAIN commits
  BY CommitNumbers
<1> QED
  BY <1>1 DEF Held

\* What is typed over some commits is typed over more.
LEMMA MoreCommits ==
  ASSUME TypeOK, NEW D, DOMAIN commits \subseteq D
  PROVE  /\ branches \in [Branch -> D \cup {NoCommit}]
         /\ tags \in [Tag -> D \cup {NoCommit}]
         /\ web \in [Request -> WebState(D)]
         /\ push \in PushState(D)
  BY DEF TypeOK, WebState, PushState

LEMMA InitIInv == Init => IInv
<1> SUFFICES ASSUME Init PROVE IInv
  OBVIOUS
<1>1. commits = <<>> /\ commits \in Seq(Commit) /\ Len(commits) = 0 /\ DOMAIN commits = {}
  BY DEF Init
<1>2. attempts = <<>> /\ attempts \in Seq([task : Task, commit : CommitId])
  BY DEF Init
<1>3. web \in [Request -> WebState(DOMAIN commits)] /\ push \in PushState(DOMAIN commits)
  BY DEF Init, WebIdle, PushIdle, WebState, PushState, WebPc, PushPc
<1>4. TypeOK
  <2>1. misnamed \in BOOLEAN
    BY Zenon DEF Init
  <2> QED
    BY <1>1, <1>2, <1>3, <2>1, ConstantsAssumption
       DEF Init, TypeOK, WebState, PushState
<1>5. Created /\ Exclusive /\ Closed /\ Checked /\ Committed /\ AttemptsHeld
  BY <1>1, <1>2 DEF Init, WebIdle, PushIdle, Created, Exclusive, Closed, Checked,
                    Committed, AttemptsHeld, Holding
<1> QED
  BY <1>4, <1>5 DEF IInv

-----------------------------------------------------------------------------
(* Steps that leave the repository alone                                   *)

LEMMA SameRepository ==
  ASSUME UNCHANGED <<repository, misnamed>>
  PROVE  /\ repo' = repo /\ commits' = commits /\ branches' = branches
         /\ tags' = tags /\ head' = head
         /\ Held' = Held
         /\ Closed' <=> Closed
  BY DEF repository, Held, Reachable, Tips, PastOf, Closed

\* An upload changes its state to w, and perhaps takes or releases the lock.
LEMMA UploadMoves ==
  ASSUME IInv, NEW r \in Request, NEW w \in WebState(DOMAIN commits),
         web' = [web EXCEPT ![r] = w],
         UNCHANGED <<repository, attempts, push, misnamed, failures, crashes>>,
         w.pc # "idle" => w.task \in Task,
         w.pc = "save" => w.hash \in Held,
         w.pc \in {"list", "commit", "save"} => repo # "none",
         \/ lock' = lock /\ (w.pc \in Holding => lock = r)
         \/ lock = None /\ lock' = r
         \/ lock = r /\ lock' = None /\ w.pc \notin Holding
  PROVE  IInv'
<1>1. /\ repo' = repo /\ commits' = commits /\ branches' = branches
      /\ tags' = tags /\ head' = head
      /\ Held' = Held
      /\ Closed'
  BY SameRepository DEF IInv
<1>2. web' \in [Request -> WebState(DOMAIN commits)]
  BY DEF IInv, TypeOK, WebState
<1>3. TypeOK'
  <2>1. lock' \in Request \cup {Session, None}
    BY DEF IInv, TypeOK
  <2> QED
    BY <1>1, <1>2, <2>1 DEF IInv, TypeOK, WebState
<1>4. web'[r] = w /\ \A q \in Request \ {r} : web'[q] = web[q]
  BY DEF IInv, TypeOK
<1>5. Exclusive'
  BY <1>4, ConstantsAssumption DEF IInv, TypeOK, Exclusive
<1>6. Created'
  BY <1>1, <1>4 DEF IInv, Created
<1>7. Checked'
  BY <1>1 DEF IInv, Checked, ForwardMove
<1>8. Committed'
  BY <1>1, <1>4 DEF IInv, Committed
<1>9. AttemptsHeld'
  BY <1>1 DEF IInv, AttemptsHeld
<1> QED
  BY <1>1, <1>3, <1>5, <1>6, <1>7, <1>8, <1>9 DEF IInv

LEMMA BeginStep ==
  ASSUME IInv, NEW r \in Request, NEW t \in Task, NEW zip \in SUBSET File,
         BeginAttempt(r, t, zip)
  PROVE  IInv'
<1> DEFINE w == [pc |-> "wait", task |-> t, zip |-> zip, remove |-> {}, hash |-> NoCommit]
<1>1. w \in WebState(DOMAIN commits) /\ w.pc = "wait" /\ w.task \in Task
  BY DEF WebState, WebPc
<1>2. web' = [web EXCEPT ![r] = w] /\ lock' = lock
  BY DEF BeginAttempt
<1> QED
  BY <1>1, <1>2, UploadMoves DEF BeginAttempt, Holding

LEMMA LockStep ==
  ASSUME IInv, NEW r \in Request, LockForAttempt(r)
  PROVE  IInv'
<1> DEFINE w == [web[r] EXCEPT !.pc = "ensure"]
<1>1. /\ web[r] \in WebState(DOMAIN commits) /\ web[r].pc = "wait"
      /\ web[r].task \in Task
  BY DEF IInv, TypeOK, WebState, LockForAttempt, Committed
<1>2. w \in WebState(DOMAIN commits) /\ w.pc = "ensure" /\ w.task \in Task
  BY <1>1 DEF WebState, WebPc
<1>3. web' = [web EXCEPT ![r] = w]
  BY DEF LockForAttempt, IInv, TypeOK
<1> QED
  BY <1>2, <1>3, UploadMoves DEF LockForAttempt

LEMMA ListStep ==
  ASSUME IInv, NEW r \in Request, ListFiles(r)
  PROVE  IInv'
<1> DEFINE w == [web[r] EXCEPT !.pc = "commit", !.remove = Remove(web[r].task, web[r].zip)]
<1>1. /\ web[r] \in WebState(DOMAIN commits) /\ web[r].pc = "list"
      /\ web[r].task \in Task
      /\ lock = r /\ repo # "none"
  BY DEF IInv, TypeOK, WebState, ListFiles, Committed, Created, Exclusive, Holding
<1>2. Remove(web[r].task, web[r].zip) \subseteq File
  BY DEF Remove, Files
<1>3. w \in WebState(DOMAIN commits) /\ w.pc = "commit" /\ w.task \in Task
  BY <1>1, <1>2 DEF WebState, WebPc
<1>4. web' = [web EXCEPT ![r] = w]
  BY DEF ListFiles, IInv, TypeOK
<1> QED
  BY <1>1, <1>3, <1>4, UploadMoves DEF ListFiles

LEMMA FailsStep ==
  ASSUME IInv, NEW r \in Request, AttemptFails(r)
  PROVE  IInv'
<1>1. WebIdle \in WebState(DOMAIN commits) /\ WebIdle.pc = "idle"
  BY DEF WebIdle, WebState, WebPc
<1>2. lock = r
  BY DEF IInv, Exclusive, AttemptFails, Holding
<1> QED
  BY <1>1, <1>2, UploadMoves DEF AttemptFails, Holding

-----------------------------------------------------------------------------
(* Saving an attempt                                                       *)

LEMMA AppendedAttempt ==
  ASSUME TypeOK, AttemptsHeld, NEW t \in Task, NEW c \in CommitId, c \in Held,
         attempts' = Append(attempts, [task |-> t, commit |-> c]),
         Held' = Held
  PROVE  /\ attempts' \in Seq([task : Task, commit : CommitId])
         /\ AttemptsHeld'
<1> DEFINE a == [task |-> t, commit |-> c]
<1>1. a \in [task : Task, commit : CommitId] /\ a.commit = c
  OBVIOUS
<1>2. attempts \in Seq([task : Task, commit : CommitId]) /\ attempts' = Append(attempts, a)
  BY DEF TypeOK
<1>3. /\ attempts' \in Seq([task : Task, commit : CommitId])
      /\ DOMAIN attempts' = DOMAIN attempts \cup {Len(attempts) + 1}
      /\ attempts'[Len(attempts) + 1] = a
      /\ \A i \in DOMAIN attempts : attempts'[i] = attempts[i]
  <2> HIDE DEF a
  <2> QED
    BY <1>1, <1>2
<1> QED
  BY <1>1, <1>3 DEF AttemptsHeld

LEMMA SaveStep ==
  ASSUME IInv, NEW r \in Request, SaveAttempt(r)
  PROVE  IInv'
<1>1. /\ repo' = repo /\ commits' = commits /\ branches' = branches
      /\ tags' = tags /\ head' = head
      /\ Held' = Held
      /\ Closed'
  BY SameRepository DEF IInv, SaveAttempt
<1>2. /\ web[r].pc = "save" /\ lock = r /\ web[r].task \in Task
      /\ web[r].hash \in Held /\ web[r].hash \in CommitId
  BY CommitNumbers
     DEF SaveAttempt, Held, IInv, Exclusive, Holding, Committed
<1>3. /\ attempts' \in Seq([task : Task, commit : CommitId])
      /\ AttemptsHeld'
  <2>1. CASE attempts' = Append(attempts, [task |-> web[r].task, commit |-> web[r].hash])
    BY <2>1, <1>1, <1>2, AppendedAttempt DEF IInv
  <2>2. CASE attempts' = attempts
    BY <2>2, <1>1 DEF IInv, TypeOK, AttemptsHeld
  <2> QED
    BY <2>1, <2>2 DEF SaveAttempt
<1>4. web' \in [Request -> WebState(DOMAIN commits)]
  BY DEF SaveAttempt, IInv, TypeOK, WebState, WebIdle, WebPc
<1>5. failures' \in 0..MaxFailures
  BY ConstantsAssumption DEF SaveAttempt, IInv, TypeOK
<1>6. lock' = None /\ push' = push /\ misnamed' = misnamed /\ crashes' = crashes
  BY DEF SaveAttempt
<1>7. TypeOK'
  BY <1>1, <1>3, <1>4, <1>5, <1>6 DEF IInv, TypeOK, WebState
<1>8. web'[r] = WebIdle /\ \A q \in Request \ {r} : web'[q] = web[q]
  BY DEF SaveAttempt, IInv, TypeOK
<1>9. Exclusive'
  BY <1>2, <1>6, <1>8, ConstantsAssumption DEF IInv, Exclusive, WebIdle, Holding
<1>10. Created' /\ Checked' /\ Committed'
  BY <1>1, <1>6, <1>8 DEF IInv, Created, Checked, ForwardMove, Committed, WebIdle
<1> QED
  BY <1>1, <1>3, <1>7, <1>9, <1>10 DEF IInv

-----------------------------------------------------------------------------
(* The session                                                             *)

\* The session changes its state to p, and perhaps takes or releases the lock.
LEMMA SessionMoves ==
  ASSUME IInv, NEW p \in PushState(DOMAIN commits), push' = p,
         UNCHANGED <<repository, attempts, web, misnamed, failures, crashes>>,
         p.pc # "move",
         p.pc \notin {"idle", "ensure"} => repo # "none",
         p.pc \notin {"moved", "save"},
         \/ lock' = lock /\ (p.pc # "idle" => lock = Session)
         \/ lock = None /\ lock' = Session
         \/ lock = Session /\ lock' = None /\ p.pc = "idle"
  PROVE  IInv'
<1>1. /\ repo' = repo /\ commits' = commits /\ branches' = branches
      /\ tags' = tags /\ head' = head
      /\ Held' = Held
      /\ Closed'
  BY SameRepository DEF IInv
<1>2. lock' \in Request \cup {Session, None}
  BY DEF IInv, TypeOK
<1>3. TypeOK'
  BY <1>1, <1>2 DEF IInv, TypeOK, PushState
<1>4. Exclusive'
  BY ConstantsAssumption DEF IInv, Exclusive, Holding
<1>5. Created'
  BY <1>1 DEF IInv, Created
<1>6. Checked'
  BY DEF Checked
<1>7. Committed'
  BY <1>1 DEF IInv, Committed
<1>8. AttemptsHeld'
  BY <1>1 DEF IInv, AttemptsHeld
<1> QED
  BY <1>1, <1>3, <1>4, <1>5, <1>6, <1>7, <1>8 DEF IInv

LEMMA OpenStep ==
  ASSUME IInv, OpenSession
  PROVE  IInv'
<1> DEFINE p == [PushIdle EXCEPT !.pc = "ensure"]
<1>1. p \in PushState(DOMAIN commits) /\ p.pc = "ensure"
  BY DEF PushIdle, PushState, PushPc
<1> QED
  BY <1>1, SessionMoves DEF OpenSession

LEMMA CloseStep ==
  ASSUME IInv, CloseSession
  PROVE  IInv'
<1>1. PushIdle \in PushState(DOMAIN commits) /\ PushIdle.pc = "idle"
  BY DEF PushIdle, PushState, PushPc
<1>2. lock = Session
  BY DEF IInv, Exclusive, CloseSession
<1> QED
  BY <1>1, <1>2, SessionMoves DEF CloseSession

LEMMA SaveTagStep ==
  ASSUME IInv, NEW g \in Tag, SaveTag(g)
  PROVE  IInv'
<1>1. /\ repo' = repo /\ commits' = commits /\ branches' = branches
      /\ tags' = tags /\ head' = head
      /\ Held' = Held
      /\ Closed'
  BY SameRepository DEF IInv, SaveTag
<1>2. /\ push.pc = "save" /\ lock = Session /\ push.task \in Task
      /\ push.commit \in Held /\ push.commit \in CommitId
  BY CommitNumbers DEF SaveTag, IInv, Exclusive, Committed, Held
<1>3. /\ attempts' \in Seq([task : Task, commit : CommitId])
      /\ AttemptsHeld'
  <2>1. CASE attempts' = Append(attempts, [task |-> push.task, commit |-> push.commit])
    BY <2>1, <1>1, <1>2, AppendedAttempt DEF IInv
  <2>2. CASE attempts' = attempts
    BY <2>2, <1>1 DEF IInv, TypeOK, AttemptsHeld
  <2> QED
    BY <2>1, <2>2 DEF SaveTag
<1>4. /\ push' \in PushState(DOMAIN commits)
      /\ push'.pc = push.pc /\ push'.task = push.task /\ push'.commit = push.commit
      /\ push.tags # {}
  BY DEF SaveTag, IInv, TypeOK, PushState
<1>5. failures' \in 0..MaxFailures
  BY ConstantsAssumption DEF SaveTag, IInv, TypeOK
<1>6. lock' = lock /\ web' = web /\ misnamed' = misnamed /\ crashes' = crashes
  BY DEF SaveTag
<1>7. TypeOK'
  BY <1>1, <1>3, <1>4, <1>5, <1>6 DEF IInv, TypeOK, PushState
<1>8. Exclusive' /\ Created' /\ Checked' /\ Committed'
  BY <1>1, <1>2, <1>4, <1>6
     DEF IInv, Exclusive, Created, Checked, Committed
<1> QED
  BY <1>1, <1>3, <1>7, <1>8 DEF IInv

LEMMA DefaultBranchStep ==
  ASSUME IInv, EnsureDefaultBranch
  PROVE  IInv'
<1>1. /\ repo' = repo /\ commits' = commits /\ branches' = branches /\ tags' = tags
      /\ attempts' = attempts /\ lock' = lock /\ web' = web
      /\ misnamed' = misnamed /\ failures' = failures /\ crashes' = crashes
  BY DEF EnsureDefaultBranch
<1>2. Held' = Held /\ Closed'
  BY <1>1 DEF IInv, Held, Reachable, Tips, PastOf, Closed
<1>3. head' \in Branch
  BY DEF EnsureDefaultBranch, IInv, TypeOK
<1>4. /\ push' \in PushState(DOMAIN commits) /\ push'.pc = "save"
      /\ push'.task = push.task /\ push'.commit = push.commit /\ push'.tags = push.tags
  BY DEF EnsureDefaultBranch, IInv, TypeOK, PushState, PushPc
<1>5. TypeOK'
  BY <1>1, <1>3, <1>4 DEF IInv, TypeOK, PushState
<1>6. /\ push.pc = "moved" /\ lock = Session /\ repo # "none"
      /\ push.tags # {} => push.commit \in Held
      /\ push.task \in Task
  BY DEF EnsureDefaultBranch, IInv, Exclusive, Created, Committed
<1>7. Exclusive' /\ Created' /\ Checked' /\ Committed' /\ AttemptsHeld'
  BY <1>1, <1>2, <1>4, <1>6
     DEF IInv, Exclusive, Created, Checked, Committed, AttemptsHeld
<1> QED
  BY <1>2, <1>5, <1>7 DEF IInv

-----------------------------------------------------------------------------
(* Creating the repository                                                 *)

LEMMA EnsuredRepo ==
  ASSUME IInv, EnsureRepo, misnamed' = misnamed
  PROVE  /\ repo' = "ready"
         /\ commits' \in Seq(Commit) /\ Len(commits') <= MaxCommits
         /\ branches' \in [Branch -> DOMAIN commits' \cup {NoCommit}]
         /\ tags' = tags /\ head' = head
         /\ DOMAIN commits \subseteq DOMAIN commits'
         /\ Held \subseteq Held'
         /\ Closed'
<1>1. CASE UNCHANGED repository /\ repo = "ready"
  BY <1>1, SameRepository DEF IInv, TypeOK
<1>2. CASE /\ repo' = "ready"
           /\ UNCHANGED <<commits, branches, tags, head>>
  BY <1>2 DEF IInv, TypeOK, Closed, Held, Reachable, Tips, PastOf
<1>3. ASSUME repo = "none", repo' = "ready", HasRoom, NEW files \in SUBSET File,
             commits' = Append(commits,
               [past |-> {NextCommit}, task |-> None,
                tree |-> [f \in File |-> IF f \in files THEN NextCommit ELSE NoCommit]]),
             branches' = [branches EXCEPT ![head] = NextCommit],
             UNCHANGED <<tags, head>>
      PROVE  /\ commits' \in Seq(Commit) /\ Len(commits') <= MaxCommits
             /\ branches' \in [Branch -> DOMAIN commits' \cup {NoCommit}]
             /\ tags' = tags /\ head' = head
             /\ DOMAIN commits \subseteq DOMAIN commits'
             /\ Held \subseteq Held'
             /\ Closed'
  <2> DEFINE e == [past |-> {NextCommit}, task |-> None,
                   tree |-> [f \in File |-> IF f \in files THEN NextCommit ELSE NoCommit]]
  <2>1. TypeOK /\ Closed /\ NextCommit \in CommitId
    BY <1>3, ConstantsAssumption, SMTT(30) DEF IInv, TypeOK, NextCommit, HasRoom, CommitId
  <2>2. e \in Commit /\ commits' = Append(commits, e) /\ e.past = {NextCommit}
    BY <1>3, <2>1 DEF Commit
  <2> HIDE DEF e
  <2>3. /\ commits' \in Seq(Commit) /\ Len(commits') <= MaxCommits
        /\ NextCommit \notin DOMAIN commits
        /\ DOMAIN commits' = DOMAIN commits \cup {NextCommit}
    BY <1>3, <2>1, <2>2, AppendedCommit
  <2>4. Closed'
    BY <1>3, <2>1, <2>2, <2>3, AppendedClosed
  <2>5. branches' \in [Branch -> DOMAIN commits' \cup {NoCommit}]
    BY <1>3, <2>1, <2>3 DEF TypeOK
  <2>6. commits = <<>>
    BY <1>3 DEF IInv, Created
  <2>7. Held = {}
    BY <2>6 DEF Held
  <2> QED
    BY <1>3, <2>3, <2>4, <2>5, <2>7
<1> QED
  BY <1>1, <1>2, <1>3 DEF EnsureRepo, IInv, TypeOK

LEMMA EnsureForAttemptStep ==
  ASSUME IInv, NEW r \in Request, EnsureForAttempt(r)
  PROVE  IInv'
<1>1. /\ repo' = "ready"
      /\ commits' \in Seq(Commit) /\ Len(commits') <= MaxCommits
      /\ branches' \in [Branch -> DOMAIN commits' \cup {NoCommit}]
      /\ tags' = tags /\ head' = head
      /\ DOMAIN commits \subseteq DOMAIN commits'
      /\ Held \subseteq Held'
      /\ Closed'
  BY EnsuredRepo DEF EnsureForAttempt
<1>2. /\ attempts' = attempts /\ lock' = lock /\ push' = push
      /\ misnamed' = misnamed /\ failures' = failures /\ crashes' = crashes
      /\ web[r].pc = "ensure" /\ web[r].task \in Task /\ lock = r
  BY DEF EnsureForAttempt, IInv, Committed, Exclusive, Holding
<1>3. /\ tags' \in [Tag -> DOMAIN commits' \cup {NoCommit}]
      /\ web \in [Request -> WebState(DOMAIN commits')]
      /\ push \in PushState(DOMAIN commits')
  BY <1>1, MoreCommits DEF IInv
<1>4. web' = [web EXCEPT ![r].pc = "list"]
  BY DEF EnsureForAttempt
<1>5. /\ web' \in [Request -> WebState(DOMAIN commits')]
      /\ web'[r].pc = "list" /\ web'[r].task = web[r].task
      /\ \A q \in Request \ {r} : web'[q] = web[q]
  BY <1>3, <1>4 DEF WebState, WebPc
<1>6. TypeOK'
  BY <1>1, <1>2, <1>3, <1>5 DEF IInv, TypeOK, WebState, PushState
<1>7. push.pc = "idle"
  BY <1>2, ConstantsAssumption DEF IInv, Exclusive
<1>8. Exclusive' /\ Created' /\ Checked'
  BY <1>1, <1>2, <1>5, <1>7 DEF IInv, Exclusive, Created, Checked, Holding
<1>9. Committed' /\ AttemptsHeld'
  BY <1>1, <1>2, <1>5 DEF IInv, Committed, AttemptsHeld
<1> QED
  BY <1>1, <1>6, <1>8, <1>9 DEF IInv

LEMMA EnsureForSessionStep ==
  ASSUME IInv, EnsureForSession
  PROVE  IInv'
<1>1. /\ repo' = "ready"
      /\ commits' \in Seq(Commit) /\ Len(commits') <= MaxCommits
      /\ branches' \in [Branch -> DOMAIN commits' \cup {NoCommit}]
      /\ tags' = tags /\ head' = head
      /\ DOMAIN commits \subseteq DOMAIN commits'
      /\ Held \subseteq Held'
      /\ Closed'
  BY EnsuredRepo DEF EnsureForSession
<1>2. /\ attempts' = attempts /\ lock' = lock /\ web' = web
      /\ misnamed' = misnamed /\ failures' = failures /\ crashes' = crashes
      /\ lock = Session
  BY DEF EnsureForSession, IInv, Exclusive
<1>3. /\ tags' \in [Tag -> DOMAIN commits' \cup {NoCommit}]
      /\ web \in [Request -> WebState(DOMAIN commits')]
      /\ push \in PushState(DOMAIN commits')
  BY <1>1, MoreCommits DEF IInv
<1>4. push' = [push EXCEPT !.pc = "open"]
  BY DEF EnsureForSession
<1>5. push' \in PushState(DOMAIN commits') /\ push'.pc = "open"
  BY <1>3, <1>4 DEF PushState, PushPc
<1>6. TypeOK'
  BY <1>1, <1>2, <1>3, <1>5 DEF IInv, TypeOK, WebState, PushState
<1>7. Exclusive' /\ Created' /\ Checked'
  BY <1>1, <1>2, <1>5 DEF IInv, Exclusive, Created, Checked
<1>8. Committed' /\ AttemptsHeld'
  BY <1>1, <1>2, <1>5 DEF IInv, Committed, AttemptsHeld
<1> QED
  BY <1>1, <1>6, <1>7, <1>8 DEF IInv

-----------------------------------------------------------------------------
(* Committing an upload                                                    *)

LEMMA TreeTyped ==
  ASSUME TypeOK, NEW c \in DOMAIN commits \cup {NoCommit}
  PROVE  /\ TreeOf(c) \in [File -> CommitId \cup {NoCommit}]
         /\ PastOf(c) \subseteq CommitId
<1>1. \A d \in DOMAIN commits : commits[d] \in Commit
  BY CommitNumbers
<1> QED
  BY <1>1 DEF TreeOf, PastOf, Commit

\* The history of a commit, or of none, is closed.
LEMMA PastClosed ==
  ASSUME TypeOK, Closed, NEW c \in DOMAIN commits \cup {NoCommit}
  PROVE  /\ PastOf(c) \subseteq DOMAIN commits
         /\ \A d \in PastOf(c) : commits[d].past \subseteq PastOf(c)
  BY DEF PastOf, Closed

LEMMA CommitStep ==
  ASSUME IInv, NEW r \in Request, CommitFiles(r)
  PROVE  IInv'
<1> DEFINE e == [past |-> PastOf(branches[head]) \cup {NextCommit},
                 task |-> web[r].task,
                 tree |-> [f \in File |->
                   CASE f \in web[r].zip    -> NextCommit
                     [] f \in web[r].remove -> NoCommit
                     [] OTHER               -> TreeOf(branches[head])[f]]]
<1>1. /\ HasRoom /\ commits' = Append(commits, e)
      /\ branches' = [branches EXCEPT ![head] = NextCommit]
      /\ web' = [web EXCEPT ![r].pc = "save", ![r].hash = NextCommit]
      /\ repo' = repo /\ tags' = tags /\ head' = head /\ attempts' = attempts
      /\ lock' = lock /\ push' = push /\ misnamed' = misnamed
      /\ failures' = failures /\ crashes' = crashes
      /\ web[r].pc = "commit"
  BY DEF CommitFiles
<1>2. /\ TypeOK /\ Closed /\ head \in Branch
      /\ branches[head] \in DOMAIN commits \cup {NoCommit}
      /\ web[r].task \in Task /\ lock = r /\ repo # "none" /\ push.pc = "idle"
  BY <1>1, ConstantsAssumption
     DEF IInv, TypeOK, Committed, Exclusive, Created, Holding
<1>3. NextCommit \in CommitId
  BY <1>1, <1>2, ConstantsAssumption, SMTT(30) DEF TypeOK, NextCommit, HasRoom, CommitId
<1>4. e \in Commit
  <2>1. /\ TreeOf(branches[head]) \in [File -> CommitId \cup {NoCommit}]
        /\ PastOf(branches[head]) \subseteq CommitId
    BY <1>2, TreeTyped
  <2>2. e.tree \in [File -> CommitId \cup {NoCommit}]
    BY <2>1, <1>3
  <2>3. e.past \subseteq CommitId
    BY <2>1, <1>3
  <2> QED
    BY <2>2, <2>3, <1>2 DEF Commit
<1>5. /\ NextCommit \in e.past
      /\ PastOf(branches[head]) \subseteq e.past
      /\ e.past \subseteq DOMAIN commits \cup {NextCommit}
      /\ \A d \in e.past \cap DOMAIN commits :
           d # NextCommit => commits[d].past \subseteq e.past
  BY <1>2, PastClosed
<1> HIDE DEF e
<1>6. /\ commits' \in Seq(Commit) /\ Len(commits') <= MaxCommits
      /\ NextCommit # NoCommit
      /\ NextCommit \notin DOMAIN commits
      /\ DOMAIN commits' = DOMAIN commits \cup {NextCommit}
      /\ commits'[NextCommit] = e
      /\ \A c \in DOMAIN commits : commits'[c] = commits[c]
  BY <1>1, <1>2, <1>4, AppendedCommit
<1>7. Closed'
  BY <1>1, <1>2, <1>4, <1>5, <1>6, AppendedClosed
<1>8. /\ branches' \in [Branch -> DOMAIN commits' \cup {NoCommit}]
      /\ branches'[head] = NextCommit
      /\ \A b \in Branch \ {head} : branches'[b] = branches[b]
  BY <1>1, <1>2, <1>6 DEF TypeOK
<1>9. /\ tags' \in [Tag -> DOMAIN commits' \cup {NoCommit}]
      /\ web \in [Request -> WebState(DOMAIN commits')]
      /\ push' \in PushState(DOMAIN commits')
  BY <1>1, <1>2, <1>6, MoreCommits
<1>10. /\ web' \in [Request -> WebState(DOMAIN commits')]
       /\ web'[r].pc = "save" /\ web'[r].task = web[r].task /\ web'[r].hash = NextCommit
       /\ \A q \in Request \ {r} : web'[q] = web[q]
  <2> DEFINE w == [web[r] EXCEPT !.pc = "save", !.hash = NextCommit]
  <2>1. web[r] \in WebState(DOMAIN commits')
    BY <1>9
  <2>2. /\ w \in WebState(DOMAIN commits')
        /\ w.pc = "save" /\ w.task = web[r].task /\ w.hash = NextCommit
    BY <2>1, <1>6 DEF WebState, WebPc
  <2>3. web' = [web EXCEPT ![r] = w]
    BY <1>1, <1>9
  <2> HIDE DEF w
  <2> QED
    BY <2>2, <2>3, <1>9
<1>11. TypeOK'
  BY <1>1, <1>6, <1>8, <1>9, <1>10 DEF IInv, TypeOK, WebState, PushState
<1>12. Reachable \subseteq Reachable'
  <2>1. \A b \in Branch : \/ branches[b] = NoCommit
                          \/ /\ branches'[b] # NoCommit
                             /\ branches[b] \in commits'[branches'[b]].past
    <3>1. ASSUME branches[head] # NoCommit
          PROVE  branches[head] \in e.past
      BY <3>1, <1>2, <1>5 DEF PastOf, Closed
    <3>2. ASSUME NEW b \in Branch \ {head}, branches[b] # NoCommit
          PROVE  branches[b] \in commits'[branches[b]].past
      BY <3>2, <1>2, <1>6 DEF TypeOK, Closed
    <3> QED
      BY <3>1, <3>2, <1>6, <1>8
  <2>2. DOMAIN commits \subseteq DOMAIN commits'
    BY <1>6
  <2>3. \A g \in Tag : tags[g] = NoCommit \/ tags[g]' = tags[g]
    BY <1>1
  <2> QED
    BY <1>2, <1>6, <1>7, <1>11, <2>1, <2>2, <2>3, ReachableGrows
<1>13. NextCommit \in Held'
  <2>1. NextCommit \in Tips'
    BY <1>2, <1>8 DEF Tips
  <2>2. NextCommit \in Reachable'
    BY <2>1, <1>5, <1>6 DEF Reachable, PastOf
  <2>3. e.task # None
    BY <1>2, ConstantsAssumption DEF e
  <2> QED
    BY <2>2, <2>3, <1>6 DEF Held
<1>14. Held \subseteq Held'
  BY <1>1, <1>2, <1>6, <1>12, HeldGrows
<1>15. Exclusive' /\ Created' /\ Checked'
  BY <1>1, <1>2, <1>10 DEF IInv, Exclusive, Created, Checked, Holding
<1>16. Committed' /\ AttemptsHeld'
  BY <1>1, <1>2, <1>10, <1>13, <1>14 DEF IInv, Committed, AttemptsHeld
<1> QED
  BY <1>7, <1>11, <1>15, <1>16 DEF IInv

-----------------------------------------------------------------------------
(* A push                                                                  *)

LEMMA Received ==
  ASSUME TypeOK, Closed, NEW c \in CommitId, ReceivedCommit(c)
  PROVE  /\ commits' \in Seq(Commit) /\ Len(commits') <= MaxCommits
         /\ c \in DOMAIN commits'
         /\ DOMAIN commits \subseteq DOMAIN commits'
         /\ \A d \in DOMAIN commits : commits'[d] = commits[d]
         /\ Closed'
<1>1. CASE c \in DOMAIN commits
  <2>1. commits' = commits
    BY <1>1 DEF ReceivedCommit
  <2> QED
    BY <1>1, <2>1 DEF TypeOK, Closed
<1>2. ASSUME c = NextCommit, HasRoom, NEW parents \in SUBSET DOMAIN commits,
             NEW tree \in [File -> parents \cup {NoCommit, c}],
             commits' = Append(commits,
               [past |-> PastOfAll(parents) \cup {c}, tree |-> tree, task |-> None])
      PROVE  /\ commits' \in Seq(Commit) /\ Len(commits') <= MaxCommits
             /\ c \in DOMAIN commits'
             /\ DOMAIN commits \subseteq DOMAIN commits'
             /\ \A d \in DOMAIN commits : commits'[d] = commits[d]
             /\ Closed'
  <2> DEFINE P == PastOfAll(parents)
             e == [past |-> PastOfAll(parents) \cup {c}, tree |-> tree, task |-> None]
  <2>1. /\ P \subseteq DOMAIN commits
        /\ \A d \in P : commits[d].past \subseteq P
    BY PastClosed DEF PastOfAll
  <2>2. DOMAIN commits \subseteq CommitId
    BY CommitNumbers
  <2>3. e \in Commit
    BY <2>1, <2>2 DEF Commit
  <2>4. /\ c \in e.past /\ e.past \subseteq DOMAIN commits \cup {c}
        /\ \A d \in e.past \cap DOMAIN commits : d # c => commits[d].past \subseteq e.past
    BY <2>1
  <2>5. commits' = Append(commits, e)
    BY <1>2
  <2> HIDE DEF e
  <2>6. /\ commits' \in Seq(Commit) /\ Len(commits') <= MaxCommits
        /\ c \notin DOMAIN commits
        /\ DOMAIN commits' = DOMAIN commits \cup {c}
        /\ \A d \in DOMAIN commits : commits'[d] = commits[d]
    BY <1>2, <2>3, <2>5, AppendedCommit
  <2>7. Closed'
    BY <1>2, <2>3, <2>4, <2>5, <2>6, AppendedClosed
  <2> QED
    BY <2>6, <2>7
<1>3. CASE c \notin DOMAIN commits
  <2>1. c = NextCommit /\ HasRoom
    BY <1>3 DEF ReceivedCommit
  <2>2. PICK parents \in SUBSET DOMAIN commits :
          \E tree \in [File -> parents \cup {NoCommit, c}] :
            commits' = Append(commits,
              [past |-> PastOfAll(parents) \cup {c}, tree |-> tree, task |-> None])
    BY <1>3, Zenon DEF ReceivedCommit
  <2> QED
    BY <2>1, <2>2, <1>2
<1> QED
  BY <1>1, <1>3

LEMMA CheckPushStep ==
  ASSUME IInv, NEW c \in CommitId, NEW B \in SUBSET Branch, NEW T \in SUBSET Tag,
         NEW t \in Task, CheckPush(c, B, T, t)
  PROVE  IInv'
<1>1. TypeOK /\ Closed /\ ReceivedCommit(c)
  BY DEF IInv, CheckPush
<1>2. /\ commits' \in Seq(Commit) /\ Len(commits') <= MaxCommits
      /\ c \in DOMAIN commits'
      /\ DOMAIN commits \subseteq DOMAIN commits'
      /\ \A d \in DOMAIN commits : commits'[d] = commits[d]
      /\ Closed'
  BY <1>1, Received
<1>3. /\ push' = [pc |-> "move", task |-> t, commit |-> c, branches |-> B, tags |-> T]
      /\ repo' = repo /\ branches' = branches /\ tags' = tags /\ head' = head
      /\ attempts' = attempts /\ lock' = lock /\ web' = web
      /\ failures' = failures /\ crashes' = crashes
      /\ push.pc = "open" /\ lock = Session /\ repo # "none"
  BY DEF CheckPush, IInv, Exclusive, Created
<1>4. /\ branches' \in [Branch -> DOMAIN commits' \cup {NoCommit}]
      /\ tags' \in [Tag -> DOMAIN commits' \cup {NoCommit}]
      /\ web' \in [Request -> WebState(DOMAIN commits')]
      /\ push' \in PushState(DOMAIN commits')
  BY <1>1, <1>2, <1>3, MoreCommits DEF PushState, PushPc
<1>5. TypeOK'
  <2>1. misnamed' \in BOOLEAN
    BY Zenon DEF CheckPush
  <2> QED
    BY <1>1, <1>2, <1>3, <1>4, <2>1 DEF TypeOK, WebState, PushState
<1>6. Reachable \subseteq Reachable'
  <2>1. ASSUME NEW b \in Branch, branches[b] # NoCommit
        PROVE  branches[b] \in commits'[branches[b]].past
    BY <2>1, <1>1, <1>2 DEF TypeOK, Closed
  <2> QED
    BY <1>1, <1>2, <1>3, <1>5, <2>1, ReachableGrows
<1>7. /\ misnamed => misnamed'
      /\ \A b \in B : misnamed' \/ ForwardMove(branches[b], commits'[c].past)
      /\ \A g \in T : tags[g] = NoCommit
      /\ B # {} \/ T # {}
  BY DEF CheckPush
<1>8. Held \subseteq Held'
  BY <1>1, <1>2, <1>3, <1>6, <1>7, HeldGrows
<1>9. Checked'
  BY <1>2, <1>3, <1>7 DEF Checked, ForwardMove
<1>10. Exclusive' /\ Created' /\ Committed' /\ AttemptsHeld'
  BY <1>3, <1>8 DEF IInv, Exclusive, Created, Committed, AttemptsHeld
<1> QED
  BY <1>2, <1>5, <1>9, <1>10 DEF IInv

\* Moving any of the refs of a checked push loses nothing.
LEMMA RefsMoved ==
  ASSUME IInv, push.pc = "move",
         NEW B \in SUBSET push.branches, NEW T \in SUBSET push.tags,
         branches' = MovedBranches(B), tags' = MovedTags(T),
         UNCHANGED <<repo, commits, head, misnamed>>
  PROVE  /\ branches' \in [Branch -> DOMAIN commits \cup {NoCommit}]
         /\ tags' \in [Tag -> DOMAIN commits \cup {NoCommit}]
         /\ Closed'
         /\ Held \subseteq Held'
         /\ T # {} => push.commit \in Held'
<1>1. /\ push.commit \in DOMAIN commits
      /\ \A b \in push.branches :
           misnamed \/ ForwardMove(branches[b], commits[push.commit].past)
      /\ \A g \in push.tags : tags[g] = NoCommit
      /\ NoCommit \notin DOMAIN commits
      /\ B \subseteq Branch /\ T \subseteq Tag
  BY CommitNumbers DEF IInv, Checked, TypeOK
<1>2. /\ branches' \in [Branch -> DOMAIN commits \cup {NoCommit}]
      /\ tags' \in [Tag -> DOMAIN commits \cup {NoCommit}]
  BY <1>1 DEF IInv, TypeOK, MovedBranches, MovedTags
<1>3. Closed'
  BY DEF IInv, Closed
<1>4. ASSUME ~misnamed, NEW c \in Tips, c # NoCommit
      PROVE  \E d \in Tips' : d # NoCommit /\ commits[c].past \subseteq commits[d].past
  <2>1. CASE \E b \in Branch : c = branches[b]
    <3>1. PICK b \in Branch : c = branches[b]
      BY <2>1
    <3>2. CASE b \in B
      <4>1. branches'[b] = push.commit
        BY <3>2, <1>1 DEF MovedBranches
      <4>2. c \in commits[push.commit].past
        BY <3>1, <3>2, <1>1, <1>4 DEF ForwardMove
      <4> QED
        BY <4>1, <4>2, <1>1 DEF IInv, Closed, Tips
    <3>3. CASE b \notin B
      BY <3>1, <3>3, <1>4 DEF MovedBranches, Tips
    <3> QED
      BY <3>2, <3>3
  <2>2. CASE \E g \in Tag : c = tags[g]
    <3>1. PICK g \in Tag : c = tags[g]
      BY <2>2
    <3>2. g \notin T
      BY <3>1, <1>1, <1>4
    <3> QED
      BY <3>1, <3>2, <1>4 DEF MovedTags, Tips
  <2> QED
    BY <2>1, <2>2 DEF Tips
<1>5. misnamed \/ Reachable \subseteq Reachable'
  <2> SUFFICES ASSUME ~misnamed, NEW x \in Reachable PROVE x \in Reachable'
    OBVIOUS
  <2>1. PICK c \in Tips : c # NoCommit /\ x \in commits[c].past
    BY DEF Reachable, PastOf
  <2>2. \E d \in Tips' : d # NoCommit /\ x \in commits[d].past
    BY <1>4, <2>1
  <2> QED
    BY <2>2 DEF Reachable, PastOf
<1>6. \A g \in Tag : tags[g] = NoCommit \/ tags'[g] = tags[g]
  BY <1>1 DEF MovedTags
<1>7. Held \subseteq Held'
  BY <1>5, <1>6, HeldGrows DEF IInv
<1>8. ASSUME T # {}
      PROVE  push.commit \in Held'
  <2>1. PICK g \in T : tags'[g] = push.commit
    BY <1>1, <1>8 DEF MovedTags
  <2>2. push.commit \in Tips'
    BY <1>1, <2>1 DEF Tips
  <2>3. push.commit # NoCommit /\ push.commit \in commits[push.commit].past
    BY <1>1 DEF IInv, Closed
  <2>4. push.commit \in Reachable'
    BY <2>2, <2>3 DEF Reachable, PastOf
  <2> QED
    BY <1>1, <2>1, <2>4 DEF Held
<1> QED
  BY <1>2, <1>3, <1>7, <1>8

LEMMA MoveRefsStep ==
  ASSUME IInv, MoveRefs
  PROVE  IInv'
<1>1. /\ push.pc = "move" /\ push.branches \cup push.tags # {}
      /\ push.task \in Task /\ lock = Session /\ repo # "none"
  BY DEF MoveRefs, IInv, Checked, Exclusive, Created
<1>2. /\ branches' \in [Branch -> DOMAIN commits \cup {NoCommit}]
      /\ tags' \in [Tag -> DOMAIN commits \cup {NoCommit}]
      /\ Closed'
      /\ Held \subseteq Held'
      /\ push.tags # {} => push.commit \in Held'
  BY <1>1, RefsMoved DEF MoveRefs
<1>3. /\ push' \in PushState(DOMAIN commits) /\ push'.pc = "moved"
      /\ push'.task = push.task /\ push'.commit = push.commit /\ push'.tags = push.tags
  BY DEF MoveRefs, IInv, TypeOK, PushState, PushPc
<1>4. /\ repo' = repo /\ commits' = commits /\ head' = head
      /\ attempts' = attempts /\ lock' = lock /\ web' = web
      /\ misnamed' = misnamed /\ failures' = failures /\ crashes' = crashes
  BY DEF MoveRefs
<1>5. TypeOK'
  BY <1>2, <1>3, <1>4 DEF IInv, TypeOK, PushState
<1>6. Exclusive' /\ Created' /\ Checked' /\ Committed' /\ AttemptsHeld'
  BY <1>1, <1>2, <1>3, <1>4
     DEF IInv, Exclusive, Created, Checked, Committed, AttemptsHeld
<1> QED
  BY <1>2, <1>5, <1>6 DEF IInv

-----------------------------------------------------------------------------
(* A crash                                                                 *)

LEMMA CrashStep ==
  ASSUME IInv, Crash
  PROVE  IInv'
<1>1. /\ repo' \in {"none", "broken", "ready"}
      /\ commits' = commits /\ head' = head
      /\ branches' \in [Branch -> DOMAIN commits \cup {NoCommit}]
      /\ tags' \in [Tag -> DOMAIN commits \cup {NoCommit}]
      /\ repo' = "none" => repo = "none"
      /\ Closed'
      /\ Held \subseteq Held'
  <2> misnamed' = misnamed
    BY DEF Crash
  <2>1. CASE UNCHANGED repository
    BY <2>1, SameRepository DEF IInv, TypeOK
  <2>2. ASSUME push.pc = "move",
               NEW B \in SUBSET push.branches, NEW T \in SUBSET push.tags,
               branches' = MovedBranches(B), tags' = MovedTags(T),
               UNCHANGED <<repo, commits, head, misnamed>>
        PROVE  /\ repo' \in {"none", "broken", "ready"}
               /\ commits' = commits /\ head' = head
               /\ branches' \in [Branch -> DOMAIN commits \cup {NoCommit}]
               /\ tags' \in [Tag -> DOMAIN commits \cup {NoCommit}]
               /\ repo' = "none" => repo = "none"
               /\ Closed'
               /\ Held \subseteq Held'
    BY <2>2, RefsMoved DEF IInv, TypeOK
  <2>3. CASE /\ repo' \in {"broken", "ready"}
             /\ UNCHANGED <<commits, branches, tags, head>>
    BY <2>3 DEF IInv, TypeOK, Closed, Held, Reachable, Tips, PastOf
  <2> QED
    BY <2>1, <2>2, <2>3 DEF Crash
<1>2. /\ lock' = None /\ push' = PushIdle /\ attempts' = attempts
      /\ misnamed' = misnamed /\ failures' = failures /\ crashes' \in 0..MaxCrashes
      /\ web' = [r \in Request |-> WebIdle]
  BY ConstantsAssumption DEF Crash, IInv, TypeOK
<1>3. /\ web' \in [Request -> WebState(DOMAIN commits)]
      /\ push' \in PushState(DOMAIN commits)
  BY <1>2 DEF WebIdle, PushIdle, WebState, PushState, WebPc, PushPc
<1>4. TypeOK'
  BY <1>1, <1>2, <1>3 DEF IInv, TypeOK, WebState, PushState
<1>5. Exclusive' /\ Created' /\ Checked' /\ Committed' /\ AttemptsHeld'
  BY <1>1, <1>2 DEF IInv, Exclusive, Created, Checked, Committed,
                    AttemptsHeld, WebIdle, PushIdle, Holding
<1> QED
  BY <1>1, <1>4, <1>5 DEF IInv

LEMMA StutterStep ==
  ASSUME IInv, UNCHANGED vars
  PROVE  IInv'
<1>1. /\ UNCHANGED repository
      /\ UNCHANGED <<attempts, lock, web, push, misnamed, failures, crashes>>
  BY DEF vars
<1>2. Closed' /\ Held' = Held
  BY <1>1, SameRepository DEF IInv
<1>3. TypeOK'
  BY <1>1 DEF IInv, TypeOK, repository
<1>4. Exclusive' /\ Created' /\ Checked' /\ Committed' /\ AttemptsHeld'
  BY <1>1, <1>2 DEF IInv, Exclusive, Created, Checked, ForwardMove, Committed,
                    AttemptsHeld, repository
<1> QED
  BY <1>2, <1>3, <1>4 DEF IInv

LEMMA NextIInv == IInv /\ [Next]_vars => IInv'
<1> SUFFICES ASSUME IInv, [Next]_vars PROVE IInv'
  OBVIOUS
<1>1. ASSUME NEW r \in Request, NEW t \in Task, NEW zip \in SUBSET File,
             BeginAttempt(r, t, zip)
      PROVE  IInv'
  BY <1>1, BeginStep
<1>2. ASSUME NEW r \in Request, LockForAttempt(r) \/ WebStep(r)
      PROVE  IInv'
  BY <1>2, LockStep, EnsureForAttemptStep, ListStep, CommitStep, SaveStep, FailsStep
     DEF WebStep
<1>3. CASE OpenSession \/ SessionStep
  BY <1>3, OpenStep, EnsureForSessionStep, MoveRefsStep, DefaultBranchStep,
     CloseStep, SaveTagStep DEF SessionStep
<1>4. ASSUME NEW c \in CommitId, NEW B \in SUBSET Branch, NEW T \in SUBSET Tag,
             NEW t \in Task, CheckPush(c, B, T, t)
      PROVE  IInv'
  BY <1>4, CheckPushStep
<1>5. CASE Crash
  BY <1>5, CrashStep
<1>6. CASE UNCHANGED vars
  BY <1>6, StutterStep
<1> QED
  BY <1>1, <1>2, <1>3, <1>4, <1>5, <1>6 DEF Next

\* The inductive invariant: one holder of the lock, closed histories, a
\* checked push that is still good, and commits that are held before their
\* attempts are saved.
THEOREM Invariance == Spec => []IInv
  BY InitIInv, NextIInv, PTL DEF Spec

\* Every variable keeps its type (repository, attempts table, mutex).
THEOREM TypeCorrect == Spec => []TypeOK
<1>1. IInv => TypeOK
  BY DEF IInv
<1> QED
  BY <1>1, Invariance, PTL

\* No push, upload, failure or crash leaves the attempt of a tag with a commit
\* that is not reachable from a branch or a tag, nor that of an upload as long as
\* each push names its branches where they are (checkBranch, checkPush,
\* PushAttempt).
THEOREM AttemptsStayReachable == Spec => []AttemptsReachable
<1>1. IInv => AttemptsReachable
  <2> SUFFICES ASSUME IInv, NEW i \in DOMAIN attempts
               PROVE  \/ attempts[i].commit \in Reachable
                      \/ misnamed /\ commits[attempts[i].commit].task # None
    BY DEF AttemptsReachable
  <2>1. PICK c \in Held : c = attempts[i].commit
    BY DEF IInv, AttemptsHeld
  <2>2. ASSUME NEW g \in Tag, tags[g] = c
        PROVE  c \in Reachable
    <3>1. c \in Tips /\ c # NoCommit /\ c \in commits[c].past
      BY <2>2, CommitNumbers DEF Tips, Held, IInv, Closed
    <3> QED
      BY <3>1 DEF Reachable, PastOf
  <2> QED
    BY <2>1, <2>2 DEF Held
<1> QED
  BY <1>1, Invariance, PTL

\* The repository has one user at a time: a session, or one upload
\* (Manager.Lock in PushAttempt and SSHMiddleware).
THEOREM OneUser ==
  Spec => [](/\ \A q, r \in Request :
                  web[q].pc \in Holding /\ web[r].pc \in Holding => q = r
             /\ \A r \in Request : web[r].pc \in Holding => push.pc = "idle")
<1>1. IInv => /\ \A q, r \in Request :
                   web[q].pc \in Holding /\ web[r].pc \in Holding => q = r
              /\ \A r \in Request : web[r].pc \in Holding => push.pc = "idle"
  BY ConstantsAssumption DEF IInv, Exclusive
<1> QED
  BY <1>1, Invariance, PTL

-----------------------------------------------------------------------------
(* What the lock is held for                                              *)

Row == [task : Task, commit : CommitId]

\* A push that was admitted has room for the tags it has left.
Room ==
  push.pc \in {"move", "moved", "save"} /\ push.tags # {} =>
    /\ push.task \in Task
    /\ Used(push.task) + Cardinality(push.tags) <= Limit[push.task]

-----------------------------------------------------------------------------
(* Counting attempts                                                       *)

RowsOf(s, t) == {i \in DOMAIN s : s[i].task = t}

\* A row adds one to the attempts of its task and nothing to the others'.
LEMMA AppendedRow ==
  ASSUME NEW s \in Seq(Row), NEW a \in Row, NEW t \in Task
  PROVE  /\ Cardinality(RowsOf(s, t)) \in Nat
         /\ Cardinality(RowsOf(Append(s, a), t)) =
              Cardinality(RowsOf(s, t)) + (IF a.task = t THEN 1 ELSE 0)
<1> DEFINE n == Len(s)
<1>1. n \in Nat /\ DOMAIN s = 1..n
  OBVIOUS
<1>2. IsFiniteSet(1..n)
  BY <1>1, FS_Interval
<1>3. RowsOf(s, t) \subseteq 1..n
  BY <1>1 DEF RowsOf
<1>4. IsFiniteSet(RowsOf(s, t)) /\ Cardinality(RowsOf(s, t)) \in Nat
  BY <1>2, <1>3, FS_Subset, FS_CardinalityType
<1>5. /\ DOMAIN Append(s, a) = DOMAIN s \cup {n + 1}
      /\ Append(s, a)[n + 1] = a
      /\ \A i \in DOMAIN s : Append(s, a)[i] = s[i]
  OBVIOUS
<1>6. n + 1 \notin RowsOf(s, t)
  BY <1>1, <1>3
<1>7. CASE a.task = t
  <2>1. RowsOf(Append(s, a), t) = RowsOf(s, t) \cup {n + 1}
    BY <1>5, <1>7 DEF RowsOf
  <2> QED
    BY <2>1, <1>4, <1>6, <1>7, FS_AddElement
<1>8. CASE a.task # t
  <2>1. RowsOf(Append(s, a), t) = RowsOf(s, t)
    BY <1>5, <1>8 DEF RowsOf
  <2> QED
    BY <2>1, <1>4, <1>8
<1> QED
  BY <1>7, <1>8

LEMMA UsedGrows ==
  ASSUME TypeOK, NEW a \in Row, attempts' = Append(attempts, a), NEW t \in Task
  PROVE  /\ Used(t) \in Nat
         /\ Used(t)' = Used(t) + (IF a.task = t THEN 1 ELSE 0)
<1>1. attempts \in Seq(Row)
  BY DEF TypeOK, Row
<1>2. Used(t) = Cardinality(RowsOf(attempts, t))
  BY DEF Used, RowsOf
<1>3. Used(t)' = Cardinality(RowsOf(Append(attempts, a), t))
  BY DEF Used, RowsOf
<1> QED
  BY <1>1, <1>2, <1>3, AppendedRow

LEMMA UsedType == ASSUME TypeOK, NEW t \in Task PROVE Used(t) \in Nat
<1>1. attempts \in Seq(Row)
  BY DEF TypeOK, Row
<1>2. IsFiniteSet(DOMAIN attempts)
  BY <1>1, FS_Interval
<1>3. {i \in DOMAIN attempts : attempts[i].task = t} \subseteq DOMAIN attempts
  OBVIOUS
<1> QED
  BY <1>2, <1>3, FS_Subset, FS_CardinalityType DEF Used

-----------------------------------------------------------------------------
(* The limit                                                               *)

\* One tag less to save, for one attempt more at most.
LEMMA SaveTagRoom ==
  ASSUME IInv, Room, NEW g \in Tag, SaveTag(g)
  PROVE  /\ Room'
         /\ \A t \in Task : Used(t)' > Used(t) => Used(t)' <= Limit[t]
<1>1. /\ TypeOK /\ push.pc = "save" /\ g \in push.tags /\ push.task \in Task
      /\ push.commit \in CommitId
  BY CommitNumbers DEF SaveTag, IInv, Committed, Held
<1>2. PICK u \in Task : u = push.task
  BY <1>1
<1>3. PICK a \in Row : a = [task |-> push.task, commit |-> push.commit]
  BY <1>1 DEF Row
<1>4. /\ push'.pc = "save" /\ push'.task = u /\ push'.tags = push.tags \ {g}
      /\ push.tags \subseteq Tag
  BY <1>1, <1>2 DEF SaveTag, TypeOK
<1>5. IsFiniteSet(push.tags)
  BY <1>4, ConstantsAssumption, FS_Subset
<1>6. /\ Cardinality(push.tags) \in Nat
      /\ Cardinality(push'.tags) = Cardinality(push.tags) - 1
  BY <1>1, <1>4, <1>5, FS_CardinalityType, FS_RemoveElement
<1>7. Cardinality(push.tags) > 0
  BY <1>1, <1>5, <1>6, FS_EmptySet
<1>8. Limit[u] \in Nat /\ Used(u) \in Nat /\ Used(u) + Cardinality(push.tags) <= Limit[u]
  BY <1>1, <1>2, ConstantsAssumption, UsedType DEF Room
<1>9. \A t \in Task : Used(t) \in Nat
  BY <1>1, UsedType
<1>10. CASE attempts' = Append(attempts, a)
  <2>1. a.task = u
    BY <1>2, <1>3
  <2>2. \A t \in Task : Used(t)' = Used(t) + (IF a.task = t THEN 1 ELSE 0)
    BY <1>1, <1>10, UsedGrows
  <2>3. Used(u)' = Used(u) + 1
    BY <2>1, <2>2
  <2>4. Used(u)' + Cardinality(push'.tags) <= Limit[u] /\ Used(u)' <= Limit[u]
    BY <2>3, <1>6, <1>7, <1>8
  <2>5. Room'
    BY <1>4, <2>4 DEF Room
  <2>6. \A t \in Task \ {u} : Used(t)' = Used(t)
    BY <1>9, <2>1, <2>2
  <2> QED
    BY <1>9, <2>4, <2>5, <2>6
<1>11. CASE attempts' = attempts
  <2>1. \A t \in Task : Used(t)' = Used(t)
    BY <1>11 DEF Used
  <2>2. Used(u)' + Cardinality(push'.tags) <= Limit[u]
    BY <2>1, <1>6, <1>8
  <2>3. Room'
    BY <1>4, <2>2 DEF Room
  <2> QED
    BY <1>9, <2>1, <2>3
<1> QED
  BY <1>3, <1>10, <1>11 DEF SaveTag

\* A push is admitted if its tags fit.
LEMMA CheckPushRoom ==
  ASSUME IInv, NEW c \in CommitId, NEW B \in SUBSET Branch, NEW T \in SUBSET Tag,
         NEW t \in Task, CheckPush(c, B, T, t)
  PROVE  Room' /\ attempts' = attempts
<1>1. push'.task = t /\ push'.tags = T /\ attempts' = attempts
  BY DEF CheckPush
<1>2. T # {} => Used(t) + Cardinality(T) <= Limit[t]
  BY DEF CheckPush, WithinLimit
<1> QED
  BY <1>1, <1>2 DEF Room, Used

\* The tags wait for the session's next statement, or the session is over.
LEMMA SessionRoom ==
  ASSUME Room, attempts' = attempts,
         \/ push' = push
         \/ /\ push'.pc \in {"moved", "save"} /\ push.pc \in {"move", "moved"}
            /\ push'.task = push.task /\ push'.tags = push.tags
         \/ push'.pc \in {"idle", "ensure", "open"}
  PROVE  Room'
BY DEF Room, Used

LEMMA StepRoom ==
  ASSUME IInv, Room, [Next]_vars
  PROVE  /\ Room'
         /\ \A t \in Task : lock = Session /\ Used(t)' > Used(t) => Used(t)' <= Limit[t]
<1> DEFINE Within ==
      \A t \in Task : lock = Session /\ Used(t)' > Used(t) => Used(t)' <= Limit[t]
<1>1. attempts' = attempts => Within
  <2>1. \A t \in Task : Used(t) \in Nat
    BY UsedType DEF IInv
  <2> QED
    BY <2>1 DEF Used
<1>2. ASSUME NEW r \in Request, SaveAttempt(r)
      PROVE  Room' /\ Within
  <2>1. lock = r /\ lock # Session /\ push' = push /\ push.pc = "idle"
    BY <1>2, ConstantsAssumption DEF SaveAttempt, IInv, Exclusive, Holding
  <2> QED
    BY <2>1 DEF Room
<1>3. ASSUME NEW r \in Request,
             \/ \E t \in Task, zip \in SUBSET File : BeginAttempt(r, t, zip)
             \/ LockForAttempt(r) \/ EnsureForAttempt(r) \/ ListFiles(r)
             \/ CommitFiles(r) \/ AttemptFails(r)
      PROVE  Room' /\ attempts' = attempts
  <2>1. push' = push /\ attempts' = attempts
    BY <1>3 DEF BeginAttempt, LockForAttempt, EnsureForAttempt, ListFiles,
                CommitFiles, AttemptFails
  <2> QED
    BY <2>1, SessionRoom
<1>4. ASSUME OpenSession \/ EnsureForSession \/ CloseSession \/ Crash
      PROVE  Room'
  <2>1. push'.pc \in {"idle", "ensure", "open"} /\ attempts' = attempts
    BY <1>4 DEF OpenSession, EnsureForSession, CloseSession, Crash, PushIdle, IInv, TypeOK
  <2> QED
    BY <2>1, SessionRoom
<1>5. ASSUME MoveRefs \/ EnsureDefaultBranch
      PROVE  Room'
  <2>1. /\ push'.pc \in {"moved", "save"} /\ push.pc \in {"move", "moved"}
        /\ push'.task = push.task /\ push'.tags = push.tags
        /\ attempts' = attempts
    BY <1>5 DEF MoveRefs, EnsureDefaultBranch, IInv, TypeOK
  <2> QED
    BY <2>1, SessionRoom
<1>6. ASSUME UNCHANGED vars
      PROVE  Room'
  BY <1>6, SessionRoom DEF vars
<1>7. ASSUME NEW g \in Tag, SaveTag(g)
      PROVE  Room' /\ Within
  BY <1>7, SaveTagRoom
<1>8. ASSUME NEW c \in CommitId, NEW B \in SUBSET Branch, NEW T \in SUBSET Tag,
             NEW t \in Task, CheckPush(c, B, T, t)
      PROVE  Room' /\ attempts' = attempts
  BY <1>8, CheckPushRoom
<1>9. CASE UNCHANGED vars \/ OpenSession \/ EnsureForSession \/ CloseSession \/ Crash
           \/ MoveRefs \/ EnsureDefaultBranch
  <2>1. attempts' = attempts
    BY <1>9 DEF vars, OpenSession, EnsureForSession, CloseSession, Crash, MoveRefs,
                EnsureDefaultBranch
  <2> QED
    BY <2>1, <1>1, <1>4, <1>5, <1>6, <1>9
<1> QED
  BY <1>1, <1>2, <1>3, <1>7, <1>8, <1>9 DEF Next, WebStep, SessionStep

\* No push makes an attempt beyond the limit of its task, however many tags it
\* has and whatever was uploaded meanwhile (checkPush counts under Lock).
THEOREM PushesKeepLimit == Spec => PushWithinLimit
<1> DEFINE Within ==
      \A t \in Task : lock = Session /\ Used(t)' > Used(t) => Used(t)' <= Limit[t]
<1>1. Init => Room
  BY DEF Init, PushIdle, Room
<1>2. IInv /\ Room /\ [Next]_vars => Room'
  BY StepRoom
<1>3. IInv /\ Room /\ [Next]_vars => [Within]_vars
  BY StepRoom
<1> QED
  BY <1>1, <1>2, <1>3, Invariance, PTL DEF Spec, PushWithinLimit

-----------------------------------------------------------------------------
(* The files                                                               *)

\* An upload about to commit replaces or removes each file of its task that
\* is in the branch it commits to.
Listed ==
  \A r \in Request : web[r].pc = "commit" =>
    \A f \in Pattern[web[r].task] :
      \/ f \in web[r].zip \cup web[r].remove
      \/ TreeOf(branches[head])[f] = NoCommit

Replaces == WebAttemptsReplace /\ Listed

\* What another does while the repository stays as it is.
LEMMA SameListed ==
  ASSUME Replaces, UNCHANGED repository,
         \A q \in Request : web'[q] = web[q] \/ web'[q].pc # "commit"
  PROVE  Replaces'
<1>1. commits' = commits /\ branches' = branches /\ head' = head
  BY DEF repository
<1>2. WebAttemptsReplace'
  BY <1>1 DEF Replaces, WebAttemptsReplace
<1>3. Listed'
  <2> SUFFICES ASSUME NEW r \in Request, web'[r].pc = "commit",
                      NEW f \in Pattern[web'[r].task]
               PROVE  \/ f \in web'[r].zip \cup web'[r].remove
                      \/ (TreeOf(branches[head])[f] = NoCommit)'
    BY DEF Listed
  <2>1. web'[r] = web[r]
    OBVIOUS
  <2> QED
    BY <1>1, <2>1 DEF Replaces, Listed, TreeOf
<1> QED
  BY <1>2, <1>3 DEF Replaces

\* A commit of no upload, or one that replaces its task's files.
LEMMA AppendedReplaces ==
  ASSUME TypeOK, HasRoom, WebAttemptsReplace, NEW e \in Commit,
         commits' = Append(commits, e),
         e.task # None => \A f \in Pattern[e.task] : e.tree[f] \in {NoCommit, NextCommit}
  PROVE  WebAttemptsReplace'
<1>1. /\ DOMAIN commits' = DOMAIN commits \cup {NextCommit}
      /\ commits'[NextCommit] = e
      /\ \A c \in DOMAIN commits : commits'[c] = commits[c]
  BY AppendedCommit
<1> QED
  BY <1>1 DEF WebAttemptsReplace

\* The repository gets no commit, or one that no upload made.
NoUpload ==
  \/ commits' = commits
  \/ HasRoom /\ \E e \in Commit : e.task = None /\ commits' = Append(commits, e)

LEMMA NoUploadReplaces ==
  ASSUME TypeOK, WebAttemptsReplace, NoUpload
  PROVE  WebAttemptsReplace'
<1>1. CASE commits' = commits
  BY <1>1 DEF WebAttemptsReplace
<1>2. ASSUME HasRoom, NEW e \in Commit, e.task = None, commits' = Append(commits, e)
      PROVE  WebAttemptsReplace'
  BY <1>2, AppendedReplaces
<1> QED
  BY <1>1, <1>2 DEF NoUpload

\* The commits of a push are of no upload.
LEMMA ReceivedNoUpload ==
  ASSUME TypeOK, Closed, NEW c \in CommitId, ReceivedCommit(c)
  PROVE  NoUpload
<1>1. CASE commits' = commits
  BY <1>1 DEF NoUpload
<1>2. ASSUME c = NextCommit, HasRoom, NEW parents \in SUBSET DOMAIN commits,
             NEW tree \in [File -> parents \cup {NoCommit, c}],
             commits' = Append(commits,
               [past |-> PastOfAll(parents) \cup {c}, tree |-> tree, task |-> None])
      PROVE  NoUpload
  <2> DEFINE e == [past |-> PastOfAll(parents) \cup {c}, tree |-> tree, task |-> None]
  <2>1. PastOfAll(parents) \subseteq DOMAIN commits /\ DOMAIN commits \subseteq CommitId
    BY PastClosed, CommitNumbers DEF PastOfAll
  <2>2. e \in Commit /\ e.task = None
    BY <2>1 DEF Commit
  <2>3. commits' = Append(commits, e)
    BY <1>2
  <2> HIDE DEF e
  <2> QED
    BY <1>2, <2>2, <2>3 DEF NoUpload
<1>3. CASE c \notin DOMAIN commits
  <2>1. c = NextCommit /\ HasRoom
    BY <1>3 DEF ReceivedCommit
  <2>2. PICK parents \in SUBSET DOMAIN commits :
          \E tree \in [File -> parents \cup {NoCommit, c}] :
            commits' = Append(commits,
              [past |-> PastOfAll(parents) \cup {c}, tree |-> tree, task |-> None])
    BY <1>3, Zenon DEF ReceivedCommit
  <2> QED
    BY <2>1, <2>2, <1>2
<1> QED
  BY <1>1, <1>3 DEF ReceivedCommit

\* Nor is the template's.
LEMMA EnsuredNoUpload ==
  ASSUME TypeOK, EnsureRepo
  PROVE  NoUpload
<1>1. CASE commits' = commits
  BY <1>1 DEF NoUpload
<1>2. ASSUME HasRoom, NEW files \in SUBSET File,
             commits' = Append(commits,
               [past |-> {NextCommit}, task |-> None,
                tree |-> [f \in File |-> IF f \in files THEN NextCommit ELSE NoCommit]])
      PROVE  NoUpload
  <2> DEFINE e == [past |-> {NextCommit}, task |-> None,
                   tree |-> [f \in File |-> IF f \in files THEN NextCommit ELSE NoCommit]]
  <2>1. NextCommit \in CommitId
    BY <1>2, ConstantsAssumption, SMTT(30) DEF TypeOK, NextCommit, HasRoom, CommitId
  <2>2. e \in Commit /\ e.task = None /\ commits' = Append(commits, e)
    BY <1>2, <2>1 DEF Commit
  <2> HIDE DEF e
  <2> QED
    BY <1>2, <2>2 DEF NoUpload
<1> QED
  BY <1>1, <1>2 DEF EnsureRepo, repository

\* An upload commits on top of the files it listed.
LEMMA CommitReplaces ==
  ASSUME IInv, Replaces, NEW r \in Request, CommitFiles(r)
  PROVE  WebAttemptsReplace'
<1> DEFINE e == [past |-> PastOf(branches[head]) \cup {NextCommit},
                 task |-> web[r].task,
                 tree |-> [f \in File |->
                   CASE f \in web[r].zip    -> NextCommit
                     [] f \in web[r].remove -> NoCommit
                     [] OTHER               -> TreeOf(branches[head])[f]]]
<1>1. /\ HasRoom /\ commits' = Append(commits, e) /\ web[r].pc = "commit"
  BY DEF CommitFiles
<1>2. /\ TypeOK /\ head \in Branch /\ web[r].task \in Task
      /\ branches[head] \in DOMAIN commits \cup {NoCommit}
  BY <1>1 DEF IInv, TypeOK, Committed
<1>3. NextCommit \in CommitId
  BY <1>1, <1>2, ConstantsAssumption, SMTT(30) DEF TypeOK, NextCommit, HasRoom, CommitId
<1>4. /\ TreeOf(branches[head]) \in [File -> CommitId \cup {NoCommit}]
      /\ PastOf(branches[head]) \subseteq CommitId
  BY <1>2, TreeTyped
<1>5. e.tree \in [File -> CommitId \cup {NoCommit}] /\ e.past \subseteq CommitId
  BY <1>3, <1>4
<1>6. e \in Commit /\ e.task = web[r].task
  BY <1>2, <1>5 DEF Commit
<1>7. ASSUME NEW f \in Pattern[web[r].task]
      PROVE  e.tree[f] \in {NoCommit, NextCommit}
  <2>1. f \in File
    BY <1>2, ConstantsAssumption
  <2>2. \/ f \in web[r].zip \cup web[r].remove
        \/ TreeOf(branches[head])[f] = NoCommit
    BY <1>1 DEF Replaces, Listed
  <2> QED
    BY <2>1, <2>2
<1> HIDE DEF e
<1> QED
  BY <1>1, <1>2, <1>6, <1>7, AppendedReplaces DEF Replaces

\* An upload lists the files to remove from the default branch there is.
LEMMA ListReplaces ==
  ASSUME IInv, Replaces, NEW r \in Request, ListFiles(r)
  PROVE  Replaces'
<1>1. /\ web[r].pc = "list" /\ web[r].task \in Task /\ lock = r
      /\ TypeOK /\ UNCHANGED repository
  BY DEF ListFiles, IInv, Exclusive, Holding, Committed
<1>2. commits' = commits /\ branches' = branches /\ head' = head
  BY <1>1 DEF repository
<1>3. WebAttemptsReplace'
  BY <1>2 DEF Replaces, WebAttemptsReplace
<1>4. /\ web'[r].task = web[r].task /\ web'[r].zip = web[r].zip
      /\ web'[r].remove = Remove(web[r].task, web[r].zip)
      /\ \A q \in Request \ {r} : web'[q] = web[q]
  BY <1>1 DEF ListFiles, TypeOK
<1>5. \A q \in Request \ {r} : web'[q].pc # "commit"
  BY <1>1, <1>4 DEF IInv, Exclusive, Holding
<1>6. ASSUME NEW f \in Pattern[web[r].task]
      PROVE  \/ f \in web[r].zip \cup Remove(web[r].task, web[r].zip)
             \/ TreeOf(branches[head])[f] = NoCommit
  BY <1>1, ConstantsAssumption DEF Remove, Files
<1>7. TreeOf(branches[head])' = TreeOf(branches[head])
  BY <1>2 DEF TreeOf
<1>8. Listed'
  BY <1>4, <1>5, <1>6, <1>7 DEF Listed
<1> QED
  BY <1>3, <1>8 DEF Replaces

\* Whoever changes the repository has the lock, so nobody is about to commit.
LEMMA StepReplaces == IInv /\ Replaces /\ [Next]_vars => Replaces'
<1> SUFFICES ASSUME IInv, Replaces, [Next]_vars PROVE Replaces'
  OBVIOUS
<1> DEFINE Quiet == \A q \in Request : web'[q] = web[q] \/ web'[q].pc # "commit"
           NoneCommits == \A q \in Request : web'[q].pc # "commit"
<1>0. /\ TypeOK /\ Closed /\ WebAttemptsReplace
      /\ NoneCommits => Listed'
  BY DEF IInv, Replaces, Listed
<1>1. ASSUME NEW r \in Request,
             \/ \E t \in Task, zip \in SUBSET File : BeginAttempt(r, t, zip)
             \/ LockForAttempt(r) \/ SaveAttempt(r) \/ AttemptFails(r)
      PROVE  Replaces'
  <2>1. Quiet /\ UNCHANGED repository
    BY <1>0, <1>1 DEF BeginAttempt, LockForAttempt, SaveAttempt, AttemptFails, TypeOK, WebIdle
  <2> QED
    BY <2>1, SameListed
<1>2. ASSUME NEW r \in Request, EnsureForAttempt(r)
      PROVE  Replaces'
  <2>1. lock = r /\ EnsureRepo /\ web'[r].pc = "list" /\ \A q \in Request \ {r} : web'[q] = web[q]
    BY <1>0, <1>2 DEF EnsureForAttempt, IInv, Exclusive, Holding, TypeOK
  <2>2. NoneCommits
    BY <2>1 DEF IInv, Exclusive, Holding
  <2> QED
    BY <1>0, <2>1, <2>2, EnsuredNoUpload, NoUploadReplaces DEF Replaces
<1>3. ASSUME NEW r \in Request, ListFiles(r)
      PROVE  Replaces'
  BY <1>3, ListReplaces
<1>4. ASSUME NEW r \in Request, CommitFiles(r)
      PROVE  Replaces'
  <2>1. lock = r /\ web'[r].pc = "save" /\ \A q \in Request \ {r} : web'[q] = web[q]
    BY <1>0, <1>4 DEF CommitFiles, IInv, Exclusive, Holding, TypeOK
  <2>2. NoneCommits
    BY <2>1 DEF IInv, Exclusive, Holding
  <2> QED
    BY <1>0, <1>4, <2>2, CommitReplaces DEF Replaces
<1>5. ASSUME OpenSession \/ CloseSession \/ (\E g \in Tag : SaveTag(g)) \/ UNCHANGED vars
      PROVE  Replaces'
  BY <1>5, SameListed DEF OpenSession, CloseSession, SaveTag, vars
<1>6. ASSUME push.pc # "idle", web' = web
      PROVE  NoneCommits
  BY <1>6, ConstantsAssumption DEF IInv, Exclusive, Holding
<1>7. CASE EnsureForSession
  <2>1. push.pc # "idle" /\ web' = web /\ EnsureRepo
    BY <1>7 DEF EnsureForSession
  <2> QED
    BY <1>0, <1>6, <2>1, EnsuredNoUpload, NoUploadReplaces DEF Replaces
<1>8. ASSUME NEW c \in CommitId, NEW B \in SUBSET Branch, NEW T \in SUBSET Tag,
             NEW t \in Task, CheckPush(c, B, T, t)
      PROVE  Replaces'
  <2>1. push.pc # "idle" /\ web' = web /\ ReceivedCommit(c)
    BY <1>8 DEF CheckPush
  <2> QED
    BY <1>0, <1>6, <2>1, ReceivedNoUpload, NoUploadReplaces DEF Replaces
<1>9. ASSUME MoveRefs \/ EnsureDefaultBranch
      PROVE  Replaces'
  <2>1. push.pc # "idle" /\ web' = web /\ commits' = commits
    BY <1>9 DEF MoveRefs, EnsureDefaultBranch
  <2> QED
    BY <1>0, <1>6, <2>1 DEF Replaces, WebAttemptsReplace
<1>10. CASE Crash
  <2>1. NoneCommits /\ commits' = commits
    BY <1>10 DEF Crash, WebIdle, repository
  <2> QED
    BY <1>0, <2>1 DEF Replaces, WebAttemptsReplace
<1> QED
  BY <1>1, <1>2, <1>3, <1>4, <1>5, <1>7, <1>8, <1>9, <1>10 DEF Next, WebStep, SessionStep

\* A web submission leaves no file of an earlier one of its task: what the
\* task's patterns match in its commit was uploaded with it (PushAttempt lists
\* and commits under one Lock).
THEOREM SubmissionsReplace == Spec => []WebAttemptsReplace
<1>1. Init => Replaces
  BY DEF Init, WebIdle, Replaces, WebAttemptsReplace, Listed
<1>2. Replaces => WebAttemptsReplace
  BY DEF Replaces
<1> QED
  BY <1>1, <1>2, StepReplaces, Invariance, PTL DEF Spec

-----------------------------------------------------------------------------
(* One attempt for each submission                                         *)

Saving     == {r \in Request : web[r].pc = "save"}
TagsLeft   == IF push.pc \in {"moved", "save"} THEN push.tags ELSE {}
TagsMade   == {g \in Tag : tags[g] # NoCommit}
WebCommits == {c \in DOMAIN commits : commits[c].task # None}

\* The sums of OneAttemptEach are sums of numbers.
Sums ==
  /\ Len(attempts) \in Nat
  /\ IsFiniteSet(Saving) /\ Cardinality(Saving) \in Nat
  /\ IsFiniteSet(TagsLeft) /\ Cardinality(TagsLeft) \in Nat
  /\ IsFiniteSet(TagsMade) /\ Cardinality(TagsMade) \in Nat
  /\ IsFiniteSet(WebCommits) /\ Cardinality(WebCommits) \in Nat
  /\ InProgress = Cardinality(Saving) + Cardinality(TagsLeft)
  /\ Submissions = Cardinality(TagsMade) + Cardinality(WebCommits)

LEMMA Counted == IInv => Sums
<1> SUFFICES ASSUME IInv PROVE Sums
  OBVIOUS
<1>1. Len(attempts) \in Nat /\ IsFiniteSet(DOMAIN commits)
  <2>1. attempts \in Seq([task : Task, commit : CommitId]) /\ commits \in Seq(Commit)
    BY DEF IInv, TypeOK
  <2> QED
    BY <2>1, FS_Interval
<1>2. IsFiniteSet(WebCommits)
  BY <1>1, FS_Subset DEF WebCommits
<1>3. IsFiniteSet(TagsMade) /\ IsFiniteSet(TagsLeft)
  BY ConstantsAssumption, FS_Subset, FS_EmptySet DEF TagsMade, TagsLeft, IInv, TypeOK
<1>4. IsFiniteSet(Saving)
  <2>1. Saving \subseteq {lock}
    BY DEF Saving, IInv, Exclusive, Holding
  <2> QED
    BY <2>1, FS_Singleton, FS_Subset
<1>5. InProgress = Cardinality(Saving) + Cardinality(TagsLeft)
  BY FS_EmptySet DEF InProgress, Saving, TagsLeft
<1>6. Submissions = Cardinality(TagsMade) + Cardinality(WebCommits)
  BY DEF Submissions, TagsMade, WebCommits
<1> QED
  BY <1>1, <1>2, <1>3, <1>4, <1>5, <1>6, FS_CardinalityType DEF Sums

LEMMA CountedThen == IInv' => Sums'
BY Counted, PTL

\* The sums change as their parts do.
LEMMA InProgressMoves ==
  ASSUME IInv, IInv', NEW i \in Int,
         Cardinality(Saving') + Cardinality(TagsLeft') =
           Cardinality(Saving) + Cardinality(TagsLeft) + i
  PROVE  /\ InProgress \in Nat /\ InProgress' \in Nat
         /\ InProgress' = InProgress + i
<1>1. /\ Cardinality(Saving) \in Nat /\ Cardinality(TagsLeft) \in Nat
      /\ InProgress = Cardinality(Saving) + Cardinality(TagsLeft)
  BY Counted DEF Sums
<1>2. /\ Cardinality(Saving') \in Nat /\ Cardinality(TagsLeft') \in Nat
      /\ InProgress' = Cardinality(Saving') + Cardinality(TagsLeft')
  BY CountedThen DEF Sums
<1> QED
  BY <1>1, <1>2

LEMMA SubmissionsMove ==
  ASSUME IInv, IInv', NEW k \in Int,
         Cardinality(TagsMade') + Cardinality(WebCommits') =
           Cardinality(TagsMade) + Cardinality(WebCommits) + k
  PROVE  /\ Submissions \in Nat /\ Submissions' \in Nat
         /\ Submissions' = Submissions + k
<1>1. /\ Cardinality(TagsMade) \in Nat /\ Cardinality(WebCommits) \in Nat
      /\ Submissions = Cardinality(TagsMade) + Cardinality(WebCommits)
  BY Counted DEF Sums
<1>2. /\ Cardinality(TagsMade') \in Nat /\ Cardinality(WebCommits') \in Nat
      /\ Submissions' = Cardinality(TagsMade') + Cardinality(WebCommits')
  BY CountedThen DEF Sums
<1> QED
  BY <1>1, <1>2

\* A step that makes no submission and saves no attempt.
LEMMA SameCounts ==
  ASSUME IInv, IInv', OneAttemptEach, attempts' = attempts,
         failures' = failures, crashes' = crashes,
         Saving' = Saving, TagsLeft' = TagsLeft, TagsMade' = TagsMade,
         WebCommits' = WebCommits
  PROVE  OneAttemptEach'
<1>1. Len(attempts) \in Nat /\ Len(attempts') = Len(attempts) + 0
  BY Counted DEF Sums
<1>2. /\ Cardinality(Saving) \in Nat /\ Cardinality(TagsLeft) \in Nat
      /\ Cardinality(TagsMade) \in Nat /\ Cardinality(WebCommits) \in Nat
  BY Counted DEF Sums
<1>3. InProgress \in Nat /\ InProgress' = InProgress
  BY <1>2, Counted, CountedThen DEF Sums
<1>4. Submissions \in Nat /\ Submissions' = Submissions
  BY <1>2, Counted, CountedThen DEF Sums
<1> QED
  BY <1>1, <1>3, <1>4 DEF OneAttemptEach

\* A commit that is not an upload's is no submission.
LEMMA SameWebCommits ==
  ASSUME IInv, NoUpload
  PROVE  WebCommits' = WebCommits
<1>1. CASE commits' = commits
  BY <1>1 DEF WebCommits
<1>2. ASSUME HasRoom, NEW e \in Commit, e.task = None, commits' = Append(commits, e)
      PROVE  WebCommits' = WebCommits
  <2>1. /\ DOMAIN commits' = DOMAIN commits \cup {NextCommit}
        /\ NextCommit \notin DOMAIN commits
        /\ commits'[NextCommit] = e
        /\ \A c \in DOMAIN commits : commits'[c] = commits[c]
    BY <1>2, AppendedCommit DEF IInv
  <2> QED
    BY <1>2, <2>1 DEF WebCommits
<1> QED
  BY <1>1, <1>2 DEF NoUpload

\* A step of an upload that neither commits nor saves.
LEMMA UploadCounts ==
  ASSUME IInv, IInv', OneAttemptEach, NEW r \in Request,
         web[r].pc # "save", web'[r].pc # "save",
         \A q \in Request \ {r} : web'[q] = web[q],
         WebCommits' = WebCommits,
         UNCHANGED <<tags, attempts, push, failures, crashes>>
  PROVE  OneAttemptEach'
<1>1. Saving' = Saving
  BY DEF Saving
<1>2. TagsLeft' = TagsLeft /\ TagsMade' = TagsMade
  BY DEF TagsLeft, TagsMade
<1> QED
  BY <1>1, <1>2, SameCounts

\* A step of the session that moves no tag and saves none.
LEMMA SessionCounts ==
  ASSUME IInv, IInv', OneAttemptEach, WebCommits' = WebCommits, TagsLeft' = TagsLeft,
         UNCHANGED <<tags, attempts, web, failures, crashes>>
  PROVE  OneAttemptEach'
<1>1. Saving' = Saving /\ TagsMade' = TagsMade
  BY DEF Saving, TagsMade
<1> QED
  BY <1>1, SameCounts

\* The commit of an upload is a submission whose attempt is on its way.
LEMMA CommitCounts ==
  ASSUME IInv, IInv', OneAttemptEach, NEW r \in Request, CommitFiles(r)
  PROVE  OneAttemptEach'
<1>1. /\ web[r].pc = "commit" /\ web[r].task \in Task /\ web[r].task # None /\ HasRoom
      /\ \A q \in Request : web[q].pc \in Holding => q = r
  BY ConstantsAssumption DEF CommitFiles, IInv, Committed, Exclusive, Holding
<1>2. /\ web'[r].pc = "save" /\ \A q \in Request \ {r} : web'[q] = web[q]
  BY DEF CommitFiles, IInv, TypeOK
<1>3. Saving = {} /\ Saving' = {r}
  BY <1>1, <1>2 DEF Saving, Holding
<1>4. /\ TagsLeft' = TagsLeft /\ TagsMade' = TagsMade
      /\ attempts' = attempts /\ failures' = failures /\ crashes' = crashes
  BY DEF CommitFiles, TagsLeft, TagsMade
<1>5. WebCommits' = WebCommits \cup {NextCommit} /\ NextCommit \notin WebCommits
  <2>1. /\ commits' \in Seq(Commit)
        /\ DOMAIN commits' = DOMAIN commits \cup {NextCommit}
        /\ NextCommit \notin DOMAIN commits
        /\ commits'[NextCommit].task = web[r].task
        /\ \A c \in DOMAIN commits : commits'[c] = commits[c]
    BY <1>1 DEF CommitFiles, NextCommit, IInv, TypeOK
  <2> QED
    BY <1>1, <2>1 DEF WebCommits
<1>6. Cardinality(Saving') = Cardinality(Saving) + 1
  <2>1. Cardinality(Saving) = 0 /\ Cardinality(Saving') = 1
    BY <1>3, FS_EmptySet, FS_Singleton, Zenon
  <2> QED
    BY <2>1
<1>7. Cardinality(WebCommits') = Cardinality(WebCommits) + 1
  <2>1. IsFiniteSet(WebCommits)
    BY Counted DEF Sums
  <2> QED
    BY <1>5, <2>1, FS_AddElement
<1>8. /\ Cardinality(Saving) \in Nat /\ Cardinality(TagsLeft) \in Nat
      /\ Cardinality(TagsMade) \in Nat /\ Cardinality(WebCommits) \in Nat
      /\ Len(attempts) \in Nat
  BY Counted DEF Sums
<1>9. InProgress \in Nat /\ InProgress' \in Nat /\ InProgress' = InProgress + 1
  BY <1>4, <1>6, <1>8, InProgressMoves
<1>10. Submissions \in Nat /\ Submissions' \in Nat /\ Submissions' = Submissions + 1
  BY <1>4, <1>7, <1>8, SubmissionsMove
<1> QED
  BY <1>4, <1>8, <1>9, <1>10 DEF OneAttemptEach

\* One on its way less, for a row at most; a failure explains the missing row.
LEMMA Saves ==
  ASSUME IInv, IInv', OneAttemptEach, Submissions' = Submissions,
         InProgress \in Nat, InProgress' \in Nat, InProgress' = InProgress - 1,
         crashes' = crashes,
         \/ /\ \E a \in Row : attempts' = Append(attempts, a)
            /\ failures' = failures
         \/ attempts' = attempts /\ failures' = failures + 1
  PROVE  OneAttemptEach'
<1>1. Len(attempts) \in Nat /\ Submissions \in Nat /\ failures \in Nat
  <2>1. /\ Cardinality(TagsMade) \in Nat /\ Cardinality(WebCommits) \in Nat
        /\ Submissions = Cardinality(TagsMade) + Cardinality(WebCommits)
        /\ Len(attempts) \in Nat
    BY Counted DEF Sums
  <2> QED
    BY <2>1 DEF IInv, TypeOK
<1>2. CASE attempts' = attempts /\ failures' = failures + 1
  <2>1. failures' # 0
    BY <1>1, <1>2
  <2> QED
    BY <1>1, <1>2, <2>1 DEF OneAttemptEach
<1>3. CASE (\E a \in Row : attempts' = Append(attempts, a)) /\ failures' = failures
  <2>1. Len(attempts') = Len(attempts) + 1
    BY <1>3 DEF IInv, TypeOK, Row
  <2> QED
    BY <1>1, <1>3, <2>1 DEF OneAttemptEach
<1> QED
  BY <1>2, <1>3

\* The row of an upload.
LEMMA SaveCounts ==
  ASSUME IInv, IInv', OneAttemptEach, NEW r \in Request, SaveAttempt(r)
  PROVE  OneAttemptEach'
<1>1. /\ web[r].pc = "save" /\ web[r].task \in Task /\ web[r].hash \in CommitId
      /\ \A q \in Request : web[q].pc \in Holding => q = r
  BY CommitNumbers
     DEF SaveAttempt, IInv, Committed, Held, Exclusive, Holding
<1>2. /\ web'[r].pc = "idle" /\ \A q \in Request \ {r} : web'[q] = web[q]
  BY DEF SaveAttempt, IInv, TypeOK, WebIdle
<1>3. Saving = {r} /\ Saving' = {}
  BY <1>1, <1>2 DEF Saving, Holding
<1>4. /\ TagsLeft' = TagsLeft /\ TagsMade' = TagsMade /\ WebCommits' = WebCommits
      /\ crashes' = crashes
  BY DEF SaveAttempt, TagsLeft, TagsMade, WebCommits, repository
<1>5. /\ Cardinality(TagsLeft) \in Nat
      /\ Cardinality(TagsMade) \in Nat /\ Cardinality(WebCommits) \in Nat
  BY Counted DEF Sums
<1>6. Cardinality(Saving) = 1 /\ Cardinality(Saving') = 0
  BY <1>3, FS_EmptySet, FS_Singleton, Zenon
<1>7. InProgress \in Nat /\ InProgress' \in Nat /\ InProgress' = InProgress - 1
  <2>1. Cardinality(Saving') + Cardinality(TagsLeft') =
          Cardinality(Saving) + Cardinality(TagsLeft) + (-1)
    BY <1>4, <1>5, <1>6
  <2>2. -1 \in Int
    OBVIOUS
  <2>3. InProgress \in Nat /\ InProgress' \in Nat /\ InProgress' = InProgress + (-1)
    BY <2>1, <2>2, InProgressMoves
  <2> QED
    BY <2>3
<1>8. Submissions' = Submissions
  BY <1>4, Counted, CountedThen DEF Sums
<1>9. PICK a \in Row : a = [task |-> web[r].task, commit |-> web[r].hash]
  BY <1>1 DEF Row
<1>10. \/ attempts' = Append(attempts, a) /\ failures' = failures
       \/ attempts' = attempts /\ failures' = failures + 1
  BY <1>9 DEF SaveAttempt
<1> QED
  BY <1>4, <1>7, <1>8, <1>10, Saves

\* The row of a tag.
LEMMA SaveTagCounts ==
  ASSUME IInv, IInv', OneAttemptEach, NEW g \in Tag, SaveTag(g)
  PROVE  OneAttemptEach'
<1>1. /\ push.pc = "save" /\ g \in push.tags /\ push.task \in Task
      /\ push.commit \in CommitId
  BY CommitNumbers DEF SaveTag, IInv, Committed, Held
<1>2. push'.pc = "save" /\ push'.tags = push.tags \ {g}
  BY <1>1 DEF SaveTag, IInv, TypeOK
<1>3. TagsLeft' = TagsLeft \ {g} /\ g \in TagsLeft
  BY <1>1, <1>2 DEF TagsLeft
<1>4. /\ Saving' = Saving /\ TagsMade' = TagsMade /\ WebCommits' = WebCommits
      /\ crashes' = crashes
  BY DEF SaveTag, Saving, TagsMade, WebCommits, repository
<1>5. /\ Cardinality(Saving) \in Nat
      /\ IsFiniteSet(TagsLeft) /\ Cardinality(TagsLeft) \in Nat
  BY Counted DEF Sums
<1>6. Cardinality(TagsLeft') = Cardinality(TagsLeft) - 1
  BY <1>3, <1>5, FS_RemoveElement
<1>7. InProgress \in Nat /\ InProgress' \in Nat /\ InProgress' = InProgress - 1
  <2>1. Cardinality(Saving') + Cardinality(TagsLeft') =
          Cardinality(Saving) + Cardinality(TagsLeft) + (-1)
    BY <1>4, <1>5, <1>6
  <2>2. -1 \in Int
    OBVIOUS
  <2>3. InProgress \in Nat /\ InProgress' \in Nat /\ InProgress' = InProgress + (-1)
    BY <2>1, <2>2, InProgressMoves
  <2> QED
    BY <2>3
<1>8. Submissions' = Submissions
  BY <1>4, Counted, CountedThen DEF Sums
<1>9. PICK a \in Row : a = [task |-> push.task, commit |-> push.commit]
  BY <1>1 DEF Row
<1>10. \/ attempts' = Append(attempts, a) /\ failures' = failures
       \/ attempts' = attempts /\ failures' = failures + 1
  BY <1>9 DEF SaveTag
<1> QED
  BY <1>4, <1>7, <1>8, <1>10, Saves

\* A push makes new tags, and each is one whose attempt is on its way.
LEMMA MoveCounts ==
  ASSUME IInv, IInv', OneAttemptEach, MoveRefs
  PROVE  OneAttemptEach'
<1>1. /\ push.pc = "move" /\ push.tags \subseteq Tag /\ push.commit # NoCommit
      /\ \A g \in push.tags : tags[g] = NoCommit
      /\ push'.pc = "moved" /\ push'.tags = push.tags
  BY CommitNumbers DEF MoveRefs, IInv, TypeOK, Checked
<1>2. TagsLeft = {} /\ TagsLeft' = push.tags
  BY <1>1 DEF TagsLeft
<1>3. /\ TagsMade' = TagsMade \cup push.tags
      /\ TagsMade \cap push.tags = {}
  BY <1>1 DEF TagsMade, MoveRefs, MovedTags
<1>4. /\ Saving' = Saving /\ WebCommits' = WebCommits
      /\ attempts' = attempts /\ failures' = failures /\ crashes' = crashes
  BY DEF MoveRefs, Saving, WebCommits
<1>5. PICK n \in Nat : n = Cardinality(push.tags) /\ IsFiniteSet(push.tags)
  BY <1>1, ConstantsAssumption, FS_Subset, FS_CardinalityType
<1>6. /\ Cardinality(Saving) \in Nat /\ Cardinality(WebCommits) \in Nat
      /\ IsFiniteSet(TagsMade) /\ Cardinality(TagsMade) \in Nat
      /\ Len(attempts) \in Nat
  BY Counted DEF Sums
<1>7. Cardinality(TagsLeft) = 0 /\ Cardinality(TagsLeft') = n
  BY <1>2, <1>5, FS_EmptySet, Zenon
<1>8. Cardinality(TagsMade') = Cardinality(TagsMade) + n
  <2>1. Cardinality(TagsMade \cup push.tags) =
          Cardinality(TagsMade) + n - Cardinality(TagsMade \cap push.tags)
    BY <1>5, <1>6, FS_Union
  <2>2. Cardinality(TagsMade \cap push.tags) = 0
    BY <1>3, FS_EmptySet, Zenon
  <2> QED
    BY <1>3, <1>5, <1>6, <2>1, <2>2
<1>9. InProgress \in Nat /\ InProgress' \in Nat /\ InProgress' = InProgress + n
  BY <1>4, <1>5, <1>6, <1>7, InProgressMoves
<1>10. Submissions \in Nat /\ Submissions' \in Nat /\ Submissions' = Submissions + n
  BY <1>4, <1>5, <1>6, <1>8, SubmissionsMove
<1> QED
  BY <1>4, <1>5, <1>6, <1>9, <1>10 DEF OneAttemptEach

\* A crash forgets what was on its way, and may leave tags without a row.
LEMMA CrashCounts ==
  ASSUME IInv, IInv', OneAttemptEach, Crash
  PROVE  OneAttemptEach'
<1>1. Saving' = {} /\ TagsLeft' = {}
  BY DEF Crash, Saving, TagsLeft, WebIdle, PushIdle
<1>2. /\ commits' = commits /\ attempts' = attempts /\ crashes' = crashes + 1
      /\ WebCommits' = WebCommits
  BY DEF Crash, WebCommits, repository
<1>3. TagsMade \subseteq TagsMade'
  <2>1. \/ tags' = tags
        \/ /\ push.pc = "move"
           /\ \E T \in SUBSET push.tags : tags' = MovedTags(T)
    BY DEF Crash, repository
  <2>2. ASSUME push.pc = "move", NEW T \in SUBSET push.tags, tags' = MovedTags(T)
        PROVE  TagsMade \subseteq TagsMade'
    <3>1. push.commit # NoCommit
      BY <2>2, CommitNumbers DEF IInv, Checked
    <3> QED
      BY <2>2, <3>1 DEF TagsMade, MovedTags
  <2> QED
    BY <2>1, <2>2 DEF TagsMade
<1>4. PICK n \in Nat : Submissions \in Nat /\ Submissions' = Submissions + n
  <2>1. /\ Cardinality(TagsMade) \in Nat /\ Cardinality(WebCommits) \in Nat
        /\ Submissions = Cardinality(TagsMade) + Cardinality(WebCommits)
    BY Counted DEF Sums
  <2>2. /\ IsFiniteSet(TagsMade') /\ Cardinality(TagsMade') \in Nat
        /\ Submissions' = Cardinality(TagsMade') + Cardinality(WebCommits')
    BY CountedThen DEF Sums
  <2>3. Cardinality(TagsMade) <= Cardinality(TagsMade')
    BY <1>3, <2>2, FS_Subset
  <2>4. /\ Cardinality(TagsMade') - Cardinality(TagsMade) \in Nat
        /\ Submissions \in Nat
        /\ Submissions' = Submissions + (Cardinality(TagsMade') - Cardinality(TagsMade))
    BY <1>2, <2>1, <2>2, <2>3
  <2> QED
    BY <2>4
<1>5. InProgress' = 0 /\ InProgress \in Nat /\ Len(attempts) \in Nat
  <2>1. Cardinality(Saving') = 0 /\ Cardinality(TagsLeft') = 0
    BY <1>1, FS_EmptySet, Zenon
  <2>2. InProgress' = 0
    BY <2>1, CountedThen DEF Sums
  <2>3. /\ Cardinality(Saving) \in Nat /\ Cardinality(TagsLeft) \in Nat
        /\ InProgress = Cardinality(Saving) + Cardinality(TagsLeft)
        /\ Len(attempts) \in Nat
    BY Counted DEF Sums
  <2> QED
    BY <2>2, <2>3
<1>6. crashes' # 0
  BY <1>2 DEF IInv, TypeOK
<1> QED
  BY <1>2, <1>4, <1>5, <1>6 DEF OneAttemptEach

LEMMA StepCounts == IInv /\ IInv' /\ OneAttemptEach /\ [Next]_vars => OneAttemptEach'
<1> SUFFICES ASSUME IInv, IInv', OneAttemptEach, [Next]_vars PROVE OneAttemptEach'
  OBVIOUS
<1>1. ASSUME NEW r \in Request,
             \/ \E t \in Task, zip \in SUBSET File : BeginAttempt(r, t, zip)
             \/ LockForAttempt(r) \/ ListFiles(r) \/ AttemptFails(r)
      PROVE  OneAttemptEach'
  <2>1. /\ web[r].pc # "save" /\ web'[r].pc # "save"
        /\ \A q \in Request \ {r} : web'[q] = web[q]
        /\ UNCHANGED <<commits, tags, attempts, push, failures, crashes>>
    BY <1>1 DEF BeginAttempt, LockForAttempt, ListFiles, AttemptFails, IInv, TypeOK,
                WebIdle, repository
  <2> QED
    BY <2>1, UploadCounts DEF WebCommits
<1>2. ASSUME NEW r \in Request, EnsureForAttempt(r)
      PROVE  OneAttemptEach'
  <2>1. /\ EnsureRepo /\ web[r].pc # "save" /\ web'[r].pc # "save"
        /\ \A q \in Request \ {r} : web'[q] = web[q]
        /\ UNCHANGED <<attempts, push, misnamed, failures, crashes>>
    BY <1>2 DEF EnsureForAttempt, IInv, TypeOK
  <2>2. tags' = tags
    BY <2>1, EnsuredRepo
  <2>3. WebCommits' = WebCommits
    BY <2>1, EnsuredNoUpload, SameWebCommits DEF IInv
  <2> QED
    BY <2>1, <2>2, <2>3, UploadCounts
<1>3. ASSUME NEW r \in Request, CommitFiles(r) \/ SaveAttempt(r)
      PROVE  OneAttemptEach'
  BY <1>3, CommitCounts, SaveCounts
<1>4. CASE OpenSession \/ EnsureDefaultBranch \/ CloseSession \/ UNCHANGED vars
  <2>1. UNCHANGED <<commits, tags, attempts, web, failures, crashes>>
    BY <1>4 DEF OpenSession, EnsureDefaultBranch, CloseSession, vars, repository
  <2>2. TagsLeft' = TagsLeft
    <3>1. CASE OpenSession
      BY <3>1 DEF OpenSession, TagsLeft, PushIdle
    <3>2. CASE EnsureDefaultBranch
      <4>1. push.pc = "moved" /\ push'.pc = "save" /\ push'.tags = push.tags
        BY <3>2 DEF EnsureDefaultBranch, IInv, TypeOK
      <4> QED
        BY <4>1 DEF TagsLeft
    <3>3. CASE CloseSession
      <4>1. TagsLeft = {} /\ TagsLeft' = {}
        BY <3>3 DEF CloseSession, TagsLeft, PushIdle
      <4> QED
        BY <4>1
    <3> QED
      BY <1>4, <3>1, <3>2, <3>3 DEF vars, TagsLeft
  <2> QED
    BY <2>1, <2>2, SessionCounts DEF WebCommits
<1>5. CASE EnsureForSession
  <2>1. /\ EnsureRepo /\ push.pc = "ensure" /\ push'.pc = "open"
        /\ UNCHANGED <<attempts, web, misnamed, failures, crashes>>
    BY <1>5 DEF EnsureForSession, IInv, TypeOK
  <2>2. tags' = tags /\ TagsLeft' = TagsLeft
    BY <2>1, EnsuredRepo DEF TagsLeft
  <2>3. WebCommits' = WebCommits
    BY <2>1, EnsuredNoUpload, SameWebCommits DEF IInv
  <2> QED
    BY <2>1, <2>2, <2>3, SessionCounts
<1>6. ASSUME NEW c \in CommitId, NEW B \in SUBSET Branch, NEW T \in SUBSET Tag,
             NEW t \in Task, CheckPush(c, B, T, t)
      PROVE  OneAttemptEach'
  <2>1. /\ ReceivedCommit(c) /\ push.pc = "open" /\ push'.pc = "move"
        /\ UNCHANGED <<tags, attempts, web, failures, crashes>>
    BY <1>6 DEF CheckPush
  <2>2. TagsLeft' = TagsLeft
    BY <2>1 DEF TagsLeft
  <2>3. WebCommits' = WebCommits
    BY <2>1, ReceivedNoUpload, SameWebCommits DEF IInv
  <2> QED
    BY <2>1, <2>2, <2>3, SessionCounts
<1>7. ASSUME MoveRefs \/ Crash \/ \E g \in Tag : SaveTag(g)
      PROVE  OneAttemptEach'
  BY <1>7, MoveCounts, CrashCounts, SaveTagCounts
<1> QED
  BY <1>1, <1>2, <1>3, <1>4, <1>5, <1>6, <1>7 DEF Next, WebStep, SessionStep

\* No tag and no web commit is counted as two attempts, and when nothing failed
\* and nothing crashed each is one, once its request or session is over
\* (PushAttempt and the SSH middleware save after the commit, and once).
THEOREM SubmissionsCountOnce == Spec => []OneAttemptEach
<1>1. Init => OneAttemptEach
  <2> SUFFICES ASSUME Init PROVE OneAttemptEach
    OBVIOUS
  <2>1. IInv
    BY InitIInv
  <2>2. Saving = {} /\ TagsLeft = {} /\ TagsMade = {} /\ WebCommits = {}
    BY DEF Init, WebIdle, PushIdle, Saving, TagsLeft, TagsMade, WebCommits
  <2>3. /\ Cardinality(Saving) = 0 /\ Cardinality(TagsLeft) = 0
        /\ Cardinality(TagsMade) = 0 /\ Cardinality(WebCommits) = 0
    BY <2>2, FS_EmptySet, Zenon
  <2>4. InProgress = 0 /\ Submissions = 0
    BY <2>1, <2>3, Counted DEF Sums
  <2>5. Len(attempts) = 0
    BY DEF Init
  <2> QED
    BY <2>4, <2>5 DEF OneAttemptEach
<1> QED
  BY <1>1, StepCounts, Invariance, PTL DEF Spec
=============================================================================
