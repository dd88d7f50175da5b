# MergeMinds backend: TLA+ models and proofs

The backend keeps courses that several teachers edit at once, and accepts the
attempts students submit over git or as an archive. This directory holds TLA+
models of the parts of it whose correctness depends on the order in which
things happen, TLC configurations that check them, and proofs that hold for
every size of the system.

## The system

| Part | State | Operations | Talks to |
|---|---|---|---|
| block store (`internal/pg/blocks.go`, `checkpoints.go`) | table `blocks`: a stack of versions per block; `checkpoints`, `checkpoint_blocks` | create, patch, move, delete (in a private draft), publish, discard, restore, rebalance | task store, in the same transactions |
| task store (`internal/pg/taskgroups.go`) | `task_groups`, `tasks`, `task_blocks` | create with a block, update settings, rename a group, soft-delete and undelete | block store |
| block service (`internal/blocks/service.go`) | none | authorization, midpoint positions | block store, rebalance worker |
| rebalance worker (`internal/blocks/rebalance_worker.go`) | a bounded queue and a set of pending courses | enqueue, run | block store |
| course service (`internal/courses`, `internal/pg/courses.go`) | `courses` | create, update, soft-delete, publish, cancel, restore | block store |
| membership (`internal/courses/membership`, `internal/pg/membership.go`) | `invites`, `course_members`, `students`, `teachers` | create an invite, join | courses |
| task service (`internal/tasks`) | none | upload a template, read and update tasks | task store, git repositories |
| attempts (`internal/attempts`, `internal/pg/git.go`) | `attempts`, `attempt_transitions` | submit an archive, read a diff, count attempts | git repositories, task store |
| git repositories (`pkg/git`) | a bare repository per student and task group, a mutex per repository | create from a template, commit files, accept a push | attempts |
| middleware (`pkg/middleware`) | none | authenticate an HTTP request or an SSH session | users, sessions |
| users, sessions, keys (`internal/auth`) | users and keys in Postgres, sessions in Redis | login, logout, add a key | |
| disciplines, startup, configuration, routing | `disciplines` | single-statement CRUD; wiring | |

What makes each part hard, and what has to hold:

- **Block store.** Several teachers draft one block from different versions
  and publish in any order. A publish merges field by field with the head.
  No work is lost or resurrected silently, published versions never change,
  a checkpoint is exactly the published course at its commit, and can be
  restored for ever.
- **Task store.** A task's life follows the blocks that link it through
  drafts, deletions and restores; a published task block needs its task.
- **Rebalance worker.** A bounded queue that drops requests, deduplicated by
  a set cleared after the work: a request can be lost.
- **Attempts.** Two ways in (web and SSH) share a repository and an attempt
  limit; the database row is written after the push is in the repository.
- **Git repositories.** Created on first use, under a lock, from a template;
  a crash can leave a repository half made.
- **Transactions.** Edits of one course run side by side under READ COMMITTED;
  row locks of two strengths and an advisory lock must leave nothing to see of it.
- **Membership.** A role is read in one statement and relied on in a later
  transaction; joins race for one primary key; lists are paged while they change.

Every hazard is listed with its line and the properties about it in
`PROJECT.json`.

## The modules

### `BlockVersions`

The block store of one course with the tasks of its blocks. The state is the
tables: `blocks` maps a block id to its stack (`[Version -> row or Absent]`),
`tasks` a task block to its task (its soft-delete flag is `live`), `groups` a
group id to `none`, `live` or `deleted`, `checkpoints` is the sequence of
`checkpoint_blocks` maps in commit order, and `courseDeleted` the course row.

One action is one committed transaction: `CreateBlock`, `PatchBlock`,
`MoveBlock`, `DeleteBlockByID`, `PublishDrafts`, `DiscardDrafts`,
`UpdateTask`, `RestoreCheckpoint`, `RebalanceBlockPositions` (all of
`internal/pg`, under the names of the Go methods) and `DeleteCourseByID`. The
transaction is the unit of atomicity of the tables because of the locks it
takes: publish, restore, rebalance and task updates lock the course row FOR
UPDATE, every edit locks it FOR SHARE, and edits of one block are ordered by
an advisory lock held to commit. A refused or failed transaction rolls back
and is a stuttering step. `CourseTransactions` (below) takes the transactions apart;
what it shows to be lost by taking them whole is the life of task groups, of which
`BlockVersions` therefore claims nothing.

The client's version (`seen`) is any version of the block, so every stale tab
is covered; the guards of `CanDraft` are the checks of `ensureDraft`.

Abstractions: block data and task settings are one value `Data`; block types
are "task" or not; authorization (`requireTeacher`) is the set `Teacher`;
positions are numbers that stand for the order of position strings, and
`CreateBlock` and `MoveBlock` may pick any of them, which includes what the
midpoint computation picks; the block to insert after is left out, since it
only selects the position and "first" is always allowed. `RebalanceBlockPositions`
takes any renumbering that keeps the order and the equality of the positions
in use, which includes the evenly spread one. Names of task groups are left
out: a group is new, live or deleted. `UpdateTask` writes freshly encoded JSON,
which never equals the text Postgres prints for a `jsonb`, so its merge always
takes the data as changed (`mine = TRUE`).

| Run | Instance | Shows |
|---|---|---|
| `block_versions` | 2 teachers, 1 task block, 4 versions, 3 checkpoints, 2 positions, 2 data | drafts unique and mergeable; the newest checkpoint is the published course; all checkpoints restorable; published versions kept and only added on top; no lost update, no blind delete, no resurrection; a restore yields the checkpoint; a rebalance decides nothing; the versions implement `Course` (below) |
| `task_names` | 2 task blocks, 1 group, 1 name | **violated**: two live tasks of one name in one group |

The bounds: a merge needs a base, a head published since and a draft above
both, which is three versions, and the fourth lets the merged version be
edited again. Two positions distinguish moved from not moved. Three
checkpoints allow a restore of one that is neither the first nor the last
state. The first run explores nothing after the third checkpoint, but checks
the step to it (constraint `BeforeLastCheckpoint`), and a merge is the third
publish. All blocks of these runs are task blocks, which have every operation of
the others (`UpdateTask` writes data as `PatchBlock` does) and more; a block
without a task is in the runs `transactions` and `block_order`. Two teachers suffice for every pairwise conflict; nothing relates three.
Deadlock is not checked: a deleted course accepts nothing, and the bounds stop
a full one.

The violated run is a disagreement between the schema's comment on `tasks` and
the code: the name check sees the published course and the creator's own
drafts only, and publishing does not repeat it.

### `Course` and `BlockVersionsCourse`

`Course` is what the editor promises, without versions, rows or locks: one
published course, a history that is only added to, and private drafts, each
with the content it started from. A publish merges by value, three ways
(`Merged`), all of a teacher's drafts or none. `BlockVersionsCourse` is the
refinement mapping: the content of a draft's base version, of the head, and of
the versions the checkpoints name. `ImplementsCourse` is `Course!Spec` under
it. It fails if a version number is compared where it should not be, if a
checkpoint's rows change after the fact, if a restore or a merge yields
anything but the contents say, or if an edit shows to anyone but its author.

### `BlockVersionsProofs`

Theorems of `BlockVersions` for every number of teachers, blocks, versions,
positions and checkpoints, from `ConstantsAssumption` alone (bounds are
naturals, task blocks are blocks, `Absent` is not a row).

The invariants are not inductive one by one. That a publish puts its version
above all others needs every draft to be anchored to a published version below
it; that the draft is still anchored after another teacher's publish needs
published versions to be kept; that a restored version can be copied needs the
checkpoints to name live published versions. The inductive invariant `IInv` is
`TypeOK`, a per-stack invariant `SoundStack` (the stack is typed, has a head if
anything is published, its drafts are anchored and unique per author), and the
two checkpoint invariants. The proof goes in three layers: one lemma per
operation on a stack (`DraftedSound`, `RewriteSound`, `WithoutSound`,
`InPlaceSound`, `PublishDraftSound`, `RepublishSound`, `RemapSound`,
`DiscardSound`), one lemma per action that lifts it to the table, and
`StepShape`: every step either publishes nothing, or renumbers, or publishes
and records a checkpoint. The theorems follow from these three cases.

### `BlockVersionsStepProofs`

The other properties of `BlockVersions`, again for every value of the constants and from
`IInv`: with these and the refinement below, every property that `block_versions` checks
is proved, and two that the run `transactions` checks statement by statement
(`OthersDraftsKept`, `PublishAllOrNothing`) are proved of transactions one at a time.

*Heads.* `DraftPublished` says what publishing one draft may do to a stack: nothing to
its published versions, or the draft's data, or its merge with the head, becomes the
head (`BecameHead`). `StepOfBlock` then says that a step other than a restore leaves
a block's published versions alone, or publishes one draft of it that is not in
conflict, and `HeadStep` reads off what a head of other data, or a head deleted, says
of that draft: `NoLostUpdate`, `NoBlindDelete` and `DeletedUntilRestored`. A restore
is `RestoredBlock` (`RestoreYieldsCheckpoint`), and a rebalance keeps equal positions
equal and others apart (`SamePosition`, `RebalanceKeepsConflicts`).

*Drafts.* Every step works for one teacher: the versions it changes are new or drafts
of that teacher, what it publishes is that teacher's (`Touches`, `ActsFor`), and
no draft becomes published except by `PublishDrafts` (`DraftsStay`). Hence
`OthersDraftsKept` and, as a publish leaves no draft of its author
(`PublishTakesAll`), `PublishAllOrNothing`.

*Tasks.* `StepFollows` is the part of one step in what `CourseTransactionsProofs` proves
of tasks when transactions overlap. A live draft does not imply a live task: a block whose
deletion is published loses its task, and a stale tab may still edit it. What
does imply one is a live head, or never having been published (`Alive`). A step keeps
every alive stack with a live task (`TasksFollow`): a dead stack comes alive only by
a new block, a restore or an update of its live task (`Revives`), which make or keep the
task, and `deleteUnlinkedTasks` spares what an alive stack links (`AliveLinks`). Where
groups and tasks agree before such a step they agree after it (`GroupsFollowTasks`).

### `BlockVersionsCourseProofs`

`CourseImplemented`: `Spec => ImplementsCourse`, the refinement of `Course`, for every
value of the constants, given that `Absent` is neither a content nor a draft
(`AbsentAssumption`). `StepMaps` takes the actions one by one, each with a lemma that
names its step of `Course`: an edit is `Edit` or `Drop` (`EditMaps`), and so on to a
rebalance, which is `Renumber` as all that shows is at positions in use (`ShownUsed`).

Two things are hard. The store decides by version and `Course` by content: that a
draft is outdated, or in conflict, is not the same as that the contents differ, since
another version may have the same content. `MergedByContent` shows that the outcome is
the same all the same, by cases over who changed what. And a draft may start from
any published version not deleted, however old the tab, while in `Course` it starts
from a content in the history: these agree by one more invariant, that every
published version not deleted is in some checkpoint (`Recorded`), which holds as each
publish, restore and task update records the heads it made (`NewIsHead`).

### `CourseTransactions`

`BlockVersions` takes a transaction for one step. `CourseTransactions` does not:
its connections run the statements of `blocks.go`, `checkpoints.go` and
`taskgroups.go` one at a time, and Postgres interleaves them under READ
COMMITTED. The variables of `BlockVersions` are the committed tables; `txn` holds
for each connection where it is (`pc`), its arguments, its advisory locks and the
rows it wrote (`rows`, `taskRows`, `groupRows`), which only it sees (`Sees`) until
`Commit` copies them. `CourseFree` is the lock on the course row, FOR SHARE for
`SharedOp` and FOR UPDATE for `ExclusiveOp`; `BlockFree` the advisory lock of
`ensureDraft`; `RowFree` the lock on a written row. `Rollback` may end any
transaction at any statement: a check that fails, a lost connection and a crash
look the same to the others.

The run `transactions` (2 connections, 2 teachers, a task block and another, 3
versions, 3 checkpoints) shows that this is indeed like one transaction at a time:
`CommitsImplementCourse` says that every commit is one step of `Course`, by one
teacher, on the course as it is at the commit. There is one exception, and it is
stated: a discard deletes the drafts it finds when its statement runs, and a
draft that the same teacher starts meanwhile in another tab stays
(`DiscardFoundDrafts`). `ExclusiveUndisturbed` says that nobody else commits
while a publish, restore, rebalance or task update is between its first statement and
its commit, and `OneDraftPerAuthor` and `LatestCheckpointIsPublished` hold as they
do in `BlockVersions`. `ExclusiveAtomic` says more of what
has the course to itself: its commit is one action of `BlockVersions`, tasks and groups
included. Without the lock on the course, or on the block, each of
them fails. `PublishedHasTask`: a block students see has its task, although
`deleteUnlinkedTasks` decides on what is committed when it runs and others that share
the course commit before it does.

The scopes (`Explored`): one block alone through three versions, or through two
with moves, or the two together; a lock conflict is between two transactions, so
two connections meet every pair. Deadlock is not checked, since the bounds stop
everything; a wait never turns into one that lasts, because a transaction may
always roll back, as Postgres makes one of a cycle do.

`OthersDraftsKept` and `PublishAllOrNothing` say that a commit touches one teacher's
drafts only, and that a publish takes all of its author's: a conflict in the
second of two drafts must undo the first.

The run `group_skew` (two task blocks, one group) is **violated**. A comment in
`blocks.go` says that a task group without live tasks is deleted with its last one
(`GroupsFollowTasks`). `deleteUnlinkedTasksSQL` decides on the rows committed when it
runs, a new task only reads that its group is live, and a create, a delete and a discard
hold the course FOR SHARE, so they overlap: a teacher discards the only task of a group
while another adds one to it, and the group is deleted with a live task in it; or two
delete its last two tasks, and it outlives them. What does hold is that this
happens to such edits only: a publish, a restore or a task update, over all its
statements, never sets groups and tasks apart (`ExclusiveKeepsGroups`), and the task
itself of a block students see is never taken (`PublishedHasTask`).

### `CourseTransactionsProofs`

What the run `transactions` checks, but for `OthersDraftsKept` and `PublishAllOrNothing`,
for any number of connections, teachers, blocks and versions, given that `Kept` is not a row and `None` nobody
(`KeptAssumption`), and what the modules below assume.

`LockInv` is inductive by itself: two transactions that hold the course row are both of
the sharing kind (`Apart`), and one that waits for it is a task update (`Shaped`), so
that the lock is asked for in the right strength before it writes. `LocksExclude` and
`ExclusiveUndisturbed` (`Undisturbed`) need no more.

The others need the content of every half-done transaction. The inductive invariant
`TxInv` (`TransactionsFit`) is that of the tables (`IInv` and `Recorded`), `LockInv`,
that no block is locked and no row written by two (`LocksApart`, `RowsApart`), and
`Fits`: for each stage of an operation, what the transaction has written and what it
still relies on, as a relation to the tables as they are committed *now*. A publish that
has done some of its drafts shows these published on the stacks as they are (`PublishesAll`);
a draft that was found may be gone, but if it is there it is a draft (`WritesNext`).
A statement takes a transaction from one stage to the next (a lemma each, as
`PublishNextInv`), which is where the code of the statements meets the operators of
`BlockVersions`. A commit must keep what the *others* rely on (`OthersFit`). If it
had the course to itself there are none. If not, it changed each stack in one of a few
ways (`EditsStack`): a new block, an edit under the advisory lock, or a draft
less; so a block another has locked keeps its published versions and at most loses a
draft (`EditedStack`), and the next version number, the base and the authorship that
the other relies on are as before.

What commits is then read off `Fits`: for an exclusive operation the action itself
(`ExclusiveCommits`, hence `ExclusiveAtomic`), so that its step of `Course` is that of
`StepMaps`; for a shared one an edit of drafts (`SharedStep`) that shows as
`Edit`, `Drop` or `DiscardFoundDrafts`. Together these are `CommitsImplementCourse`
(`CommitsMap`). The lemmas of the `BlockVersions` proofs are reused for both, and are
stated about an edit of a stack rather than about an action for that reason.

`PublishedHasTask` (`PublishedTasksStay`) needs `TaskInv` on top of `TxInv`: `TasksFollow`,
as in `BlockVersionsStepProofs`, and for each open transaction `TaskFits`, what it has
written of tasks. A transaction that creates a block is the only one that can give
it a task. One that is about to delete a task does so rightly, not when it looked but now:
its block would be dead if it committed. That this survives the commit of another is
`StaysDead`. What another commits under a shared lock publishes nothing, so a head stays as it
is; and a stack that was never published gets new rows only from its own creation
(`NewRows`), while its task is still absent. So the draft that is not seen in time
can only be the draft of a block whose published version is deleted already, which is
not alive with it either. An exclusive commit is a step of `BlockVersions` with nobody
else on the course, where `StepFollows` says all. It says the same of groups:
`ExclusiveKeepsGroups` (`ExclusiveKeepsFollow`) needs in addition that the commit is
that step (`ExclusiveCommits`). Nothing of the kind holds for the shared operations.

### `FractionalIndex` and `BlockOrder`

`FractionalIndex` has the position strings: `CalculateMiddlePosition` with its
four cases and `IndexToPosition`, a long division. A string is a sequence of digits of the
alphabet, `Base` its length (62 in the code). The loop of the fourth case is in
closed form: the place where it stops is the first with different digits, or
the first after it with room (`Differ`, `Opens`), and there it writes the middle
(`Split`). `Less` is the order of the column's collation.

`BlockOrder` is the part of the block store that moves positions, with these
strings: each teacher's view, the neighbours of an insertion in it
(`getPositionsForMoveTx`), drafts with the position they started from, publish,
restore, and the rebalance over the distinct positions of all versions, those
in old checkpoints included. Conflicts over data and versions older than the
published one are left to `BlockVersions`.

The run `block_order` (2 teachers, 3 blocks, 4 edits, 2 checkpoints, 1 rebalance,
`Base` 4, `Digits` 2) shows that a block put after another comes right after it
in its teacher's view (`PutsRightAfter`) and that a rebalance keeps all order
(`RebalanceKeepsOrder`). A small alphabet reaches within four insertions what
takes dozens with 62 characters: both ends of the alphabet, prefixes, growth,
cut fractions. `Base^Digits` exceeds the number of positions, as 62^4 does: the
theorems about them assume no more.

`PutsRightAfter` assumes room (`~Crowded`): two blocks can have one position,
when two teachers insert at the same place or a restore brings back what a
draft stands in for, and then nothing fits between them and a rebalance keeps
them equal; the loop also finds nothing between a position and the same
with zeros after it, which needs a cut fraction that ends in a zero.

`BlockOrderProofs` proves for every base of at least 3 and strings of any
length that, given room, the loop stops and the position it finds is strictly
between its neighbours and does not end in a zero (`MiddleLies`). The argument:
the digits differ somewhere since the virtual digits beyond both ends do
(`Differs`, by the least-number principle); where they first differ the next
position's is greater (`DiffersBelow`), and a digit with room exists at the end
of the previous position at the latest (`OpensSomewhere`).

It then proves the three properties of the run for any numbers of teachers, blocks,
checkpoints and rebalances. `TypeOK` holds always. The other two hold as long as there
are fewer edits than rebalanced positions there can be (`MaxEdits < Power[Digits]`,
`Power[Digits]` being Base^Digits, 62^4 in the code): beyond that, two positions would
get one fraction cut short, or the first one only zeros, below which nothing fits.
The inductive invariant `IInv` counts: each edit makes at most one position, and a
publish, a restore and a rebalance make none that was not there or is not the image of
one (`FewPositions`); that published positions are those of a checkpoint
(`PublishedUsed`) is what lets a rebalance of the versions reach all that shows.
`RebalanceKeepsOrder` is about long division: as long as two fractions have the
same digits, what the division has left of them goes apart by a factor of `Base` per
digit (`FractionsDiffer`), so within `Digits` digits they differ, and the first digit
that does orders them. `PutsRightAfter` puts `MiddleLies` into a view: the view
orders blocks linearly (`PrecedesLinear`), has a first block after any
(`FirstBlock`), and no position of it is all zeros (`RoomBefore`).

### `RebalanceWorker`

The queue, the pending map and the loop of `rebalance_worker.go`, with the
requests that trigger it. A create or move is two steps, its commit and its call
of `Enqueue`, and the worker's round is three: take a course, rebalance it in
one transaction, clear its mark. The send to the full channel drops the
trigger, a failing rebalance is only logged, and a restart loses everything but
the database. `long` abstracts the database to the courses with a position
over the threshold.

Fairness: the worker's goroutine runs while the process does, and a request
that committed goes on to `Enqueue` (`WF` of `Run` and `Enqueue`); a transaction
returns. Nothing is assumed of edits, failures or restarts.

| Run | Instance | Shows |
|---|---|---|
| `rebalance_worker` | 3 courses, queue of 2, 4 edits, 1 failure, 1 restart | the marks are exactly the courses queued or in progress, each once; none stays marked for ever; a queued course gets its rebalance unless something fails |
| `rebalance_lost_trigger` | 1 course, 2 edits, nothing fails | **violated**: an edit that commits between the rebalance and the clearing of the mark is not rebalanced, against what the rebalancing test says |

Three courses overflow a queue of two. `RebalanceWorkerProofs` proves `TypeOK`
(with the queue's capacity) and `PendingExact` for any number of courses and any
capacity; `PendingExact` with the types is inductive as it stands.

### `Attempts`

One participant's submissions to one task group: the bare repository (commits
with their ancestors and trees, branches, tags, `HEAD`), its mutex, the rows of
`attempts`, uploads over the web and one SSH session. The mutex is per
repository, so participants and groups share nothing and one is enough.

A web upload checks the limit and the patterns (`BeginAttempt`), waits for the
lock, creates the repository if need be, lists the files to remove, commits and
saves the attempt. A session locks first and keeps the lock to its end; a push
is checked (`CheckPush`, the hook before refs move), its refs move, an unborn
`HEAD` is pointed at a pushed branch, and an attempt is saved per tag. The row
always follows the commit, in a step of its own. A crash may hit any step: some
refs of a push have moved, or a new repository is left half made (`broken`), or
without its template.

What a push says of a branch is its own word: `checkBranch` (`git.go:331`) looks
whether the new commit descends from the *old one named by the push*, and nothing under
`src/` compares that one with the branch as stored; go-git, when it sets the branch,
looks only whether it exists (`Settable`). So `CheckPush` lets a push name any commit as
the old one, and `misnamed` records that one named a branch where it was not. The
comment above `checkBranch` says that saved attempts stay reachable.
`AttemptsReachable` says it of tagged attempts whatever is pushed, since a
tag never moves, and of uploaded ones only while `misnamed` is false: after a push
that names an ancestor which the branch has left, and a commit on top of that, the
uploads since are on no branch. A git client does name what the server advertised, and the
session holds the lock from the advertisement to the update (`ssh.go:55`), so no client
gets there by being slow.

Abstractions: a push carries one commit with any parents, with the commits below it in
the repository already; outside a crash the refs of a push move together (that one
of them cannot be set while the hook after it still runs is left out); a tree maps a file to the commit that wrote it; a
task without a limit has one the bounds do not reach; the published tasks do
not change meanwhile. Not modelled: diffs and listings, which change nothing.
Who may submit is in `Membership`, the group's template in `Templates`.

Fairness (`FairSpec`, only for `UploadsEnd`): HTTP handlers run to their end and
the SSH server ends every session, after 2 idle or 30 total minutes
(`cmd/server/main.go`), so whoever holds the lock goes on (`WF`); a Go mutex
hands itself to a starving waiter, so a waiting upload gets it if it is free
again and again (`SF`).

| Run | Instance | Shows |
|---|---|---|
| `attempts` | 2 uploads, 1 file, 1 branch, 2 tags, 3 commits, 1 failed save, 1 crash | commits of attempts stay reachable, as far as said above; each submission is one attempt; a push stays within the limit |
| `attempts_end` | 2 uploads, 2 files, 1 branch, 1 tag, 2 commits, 1 crash | an upload replaces its task's files whole; every upload ends |
| `attempt_limit` | limit 1, nothing fails | **violated**: an upload is counted before the lock, so one attempt too many is recorded, against what the task test says |

Two uploads and a session are every pairing of ways in. Three commits let a
branch move past a submitted commit and be pushed back; a second tag makes one
push two attempts. One branch is enough for these: uploads go to the default one, and a
branch of its own is only one more ref to be held by. That a session may create several, and point an
unborn `HEAD` at any, is left to the proofs. A lost save in `attempts_end` would only
end an upload earlier, as an error does.

`AttemptsProofs` proves, for any numbers of uploads, tasks, refs and commits,
`TypeOK`, that one upload or session at a time works on the repository, and
`AttemptsReachable`. The inductive invariant `IInv`
adds to the types and the goal: the lock names who is between locking and
unlocking (`Exclusive`); whoever works has a repository (`Created`); the ancestors of
a commit include those of its ancestors (`Closed`); a checked push is still good
when its refs move, which holds since nothing else moves refs under the lock
(`Checked`); and the commit of every attempt, and of every one about to be saved
(`Committed`), is held (`Held`): by a tag, which stays, or by a branch until a push
names it where it is not. `Held` only grows (`HeldGrows`).

The second part proves what the lock is held for.
`PushWithinLimit`: a push that passed its check has room for the tags it has left
(`Room`), and nobody else adds attempts before it is done. `WebAttemptsReplace`: what
an upload is about to remove is what its task has on the default branch now
(`Listed`). `OneAttemptEach`: each commit of an upload and each moved tag adds one to
both sides of the sum, each save moves one within it or is a failure, and a crash only
takes away. `UploadsEnd` is liveness and stays with TLC.

### `Membership`

Who is in a course, who let them in, and what they may do. The state is the
tables `courses`, `course_members` (`members`), `students`, `teachers` and `invites`;
`expired` stands for the clock; `authors` and `repos` record whose blocks and
repositories there are in a course; `calls` are the requests in progress, which
read a role in one statement and act in another, and `walk` is a client that lists
its courses page by page.

`RequireTeacher`, `AssertMember`, `GetInviteByID` and `NotYetMember` are the checks
that let a call go on; `EditCourse`, `UpdateCourseByID`, `DeleteCourseByID`,
`CreateInvite`, `EnrollUserByInvite` and `EnsureRepo` are what it then does, with
the conditions the database repeats (a live course, a free name, the primary key
of `course_members`), and `CallEnds` is a refusal, a failure or a crash. What an
edit does inside the course is in `BlockVersions`. Left out: `is_active` and
`is_revoked`, which nothing ever sets, the owner and display names, and reading.

The run `membership` (3 users, 3 courses, 2 names, 2 disciplines, 2 invites, 2 calls,
pages of 1) shows that the rows of a member agree however joins race
(`RolesAgree`); that everyone in a course created it or was invited by one of its
teachers in their role (`InvitersTeach`); that a role read before is still held
when it is used, and of all who ever wrote or submitted (`ActorsEntitled`); and that
a client which pages to the end saw every course that did not change exactly once,
whatever was created, renamed or deleted meanwhile (`PagesGapless`). Its two scopes
are joins into at most two courses, and lists of up to three courses while one at a
time changes: pages of one course in three make two cursors, and equal names in
two disciplines need the id to tell courses apart. Deadlock is not checked: when
all invites and courses are used up and the client is done nothing is left to do.

`MembershipProofs` proves all of it for any numbers of everything.
All but the lists rests on `Stays`: no step changes or removes a row of `course_members`
or `invites`, which is proved with the inductive invariant `IInv`. `IInv` adds to
the types and the goals that a course is there before its members
(`CoursesFirst`), that invites are by teachers of their course
(`InvitesByTeachers`), that members and joins in progress have an invite
(`MembersInvited`, `JoinsInvited`). A way to leave or to be removed from a course
would break `Stays`, and with it the habit of checking the role outside the
transaction.

`PagesGapless` (`PagesComplete`) needs two arguments. A page is the first `PageSize` of
the courses after the cursor: since names, then ids, order courses linearly and there
are only finitely many, each course left to list has a rank, every rank up to their
number is taken (`RankTaken`), and a course is on the page exactly if its rank fits
(`PageLists`). The invariant `WalkInv` then says that a course which did not change is
listed once if the cursor has passed it, and not at all otherwise, and that a
finished client has passed them all. The only assumption about ids is that no course
has the nil UUID, which the first page takes for its cursor (`OrderedIds`).

### `Templates`

The template repository of one task group while files are uploaded to it:
`UpdateTemplate` and the part of `CommitFiles` that matters without files to
remove. Unlike `Attempts` nothing holds a lock, so each operation on the file
system is an action: the check for the directory, its creation, the clone, the
commit, and the two halves of a push (go-git compares with the branch, then sets
it; this part is external and modelled as go-git behaves).

The run `template_race` (3 uploads, 2 files) is **violated**: of two uploads cloned
at one commit, both can find their push a fast-forward, and the second to set
the branch drops the files of the first, against the comment that files are only
added or overwritten. A participant's repository created meanwhile is a clone of
whatever the branch is then (`EnsureRepo` in `Attempts`).

## Limits of the proofs

Liveness under fairness is TLC's: the proof system handles neither `ENABLED` nor
fairness. It has no induction over natural numbers that takes a predicate, and does
not know `^`; where either is needed, the proofs take the least counterexample of a set
(`LeastNatural`), and iterate a step (`Iterates`).

What is model-checked only, in one place: liveness, that is `UploadsEnd` and the two
liveness properties of `rebalance_worker`. Every invariant and action
property of a passing run is proved, `OthersDraftsKept` and `PublishAllOrNothing` of
`BlockVersions` only, not of overlapping transactions.

## Not modelled

- **Users, sessions and keys.** Single statements on one table or one Redis key; no
  other call can come between two steps, and the other parts see only the user
  a call was authenticated as, which is where `Membership` begins.
- **Disciplines.** Single statements on one table that nothing else depends on.
- **Startup, configuration, routing, HTTP decoding, validation of block data.** No
  state; what they refuse never reaches a transaction.
- **Names of task groups and renaming them.** One guarded UPDATE; the partial unique
  index keeps the names of live groups apart. One hazard about it is listed.
- **Timestamps of checkpoints.** The models order checkpoints by commit; the listing
  orders them by the time their transaction began.
- **Reading**: views, diffs, listings of attempts and invites. It changes nothing.
  The list of courses is modelled, since it takes several calls.
- **Archives and file patterns.** Pure functions over file names.

Worth doing next: the names of task groups, with their partial unique index, on which
one of the listed hazards turns.
