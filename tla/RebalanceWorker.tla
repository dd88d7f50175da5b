--------------------------- MODULE RebalanceWorker ---------------------------
(***************************************************************************)
(* The background worker that shortens the positions of a course's blocks  *)
(* (internal/blocks/rebalance_worker.go) and the requests that trigger it. *)
(*                                                                         *)
(* A create or move commits its transaction first and calls Enqueue after  *)
(* it: two steps, with anything between them.  The worker takes a course   *)
(* from the queue, rebalances it in one transaction, and only then clears  *)
(* the course's pending mark: three steps.                                 *)
(***************************************************************************)
EXTENDS Naturals, Sequences

CONSTANTS
  Course,       \* course ids
  QueueSize,    \* capacity of the queue
  MaxEdits,     \* bound: edits that make a position too long
  MaxFailures,  \* bound: rebalances that fail
  MaxRestarts,  \* bound: restarts of the process
  None          \* the worker has no course

ASSUME ConstantsAssumption ==
  /\ QueueSize \in Nat \ {0}
  /\ MaxEdits \in Nat /\ MaxFailures \in Nat /\ MaxRestarts \in Nat
  /\ None \notin Course

VARIABLES
  long,      \* courses with a position over the threshold (in the database)
  triggers,  \* course -> requests that committed and have yet to call Enqueue
  queue,     \* the channel
  pending,   \* the pending map
  course,    \* the course the worker has taken, or None
  done,      \* the worker's rebalance of it has returned
  edits, failures, restarts

vars == <<long, triggers, queue, pending, course, done, edits, failures, restarts>>
bounds == <<edits, failures, restarts>>

Queued == {queue[i] : i \in DOMAIN queue}

Init ==
  /\ long = {}
  /\ triggers = [c \in Course |-> 0]
  /\ queue = <<>>
  /\ pending = {}
  /\ course = None
  /\ done = FALSE
  /\ edits = 0 /\ failures = 0 /\ restarts = 0

-----------------------------------------------------------------------------
\* A create or a move that commits a position over the threshold.
CommitEdit(c) ==
  /\ edits < MaxEdits
  /\ edits' = edits + 1
  /\ long' = long \cup {c}
  /\ triggers' = [triggers EXCEPT ![c] = @ + 1]
  /\ UNCHANGED <<queue, pending, course, done, failures, restarts>>

\* Mutant: the send waits for room instead of dropping the trigger.
EnqueueUnbounded(c) ==
  /\ triggers[c] > 0
  /\ triggers' = [triggers EXCEPT ![c] = @ - 1]
  /\ IF c \notin pending
     THEN /\ queue' = Append(queue, c)
          /\ pending' = pending \cup {c}
     ELSE UNCHANGED <<queue, pending>>
  /\ UNCHANGED <<long, course, done, bounds>>

\* A full queue drops the trigger, and so does a pending course.
Enqueue(c) ==
  /\ triggers[c] > 0
  /\ triggers' = [triggers EXCEPT ![c] = @ - 1]
  /\ IF c \notin pending /\ Len(queue) < QueueSize
     THEN /\ queue' = Append(queue, c)
          /\ pending' = pending \cup {c}
     ELSE UNCHANGED <<queue, pending>>
  /\ UNCHANGED <<long, course, done, bounds>>

-----------------------------------------------------------------------------
(* The worker's loop                                                       *)

\* Mutant: the pending mark is cleared when the course is taken.
TakeAndClear ==
  /\ course = None
  /\ queue # <<>>
  /\ course' = Head(queue)
  /\ queue' = Tail(queue)
  /\ pending' = pending \ {Head(queue)}
  /\ done' = FALSE
  /\ UNCHANGED <<long, triggers, bounds>>

Take ==
  /\ course = None
  /\ queue # <<>>
  /\ course' = Head(queue)
  /\ queue' = Tail(queue)
  /\ done' = FALSE
  /\ UNCHANGED <<long, triggers, pending, bounds>>

\* Mutant: the rebalance gives up when the course row is locked.
RebalanceNoWait ==
  /\ course # None
  /\ ~done
  /\ long' = IF triggers[course] > 0 THEN long ELSE long \ {course}
  /\ done' = TRUE
  /\ UNCHANGED <<triggers, queue, pending, course, bounds>>

\* The transaction commits, and no position of the course is long any more.
Rebalance ==
  /\ course # None
  /\ ~done
  /\ long' = long \ {course}
  /\ done' = TRUE
  /\ UNCHANGED <<triggers, queue, pending, course, bounds>>

\* The error is logged, and that is all.
RebalanceFails ==
  /\ course # None
  /\ ~done
  /\ failures < MaxFailures
  /\ failures' = failures + 1
  /\ done' = TRUE
  /\ UNCHANGED <<long, triggers, queue, pending, course, edits, restarts>>

\* Mutant: a rebalance that ends leaves its course marked.
KeepPending ==
  /\ course # None
  /\ done
  /\ course' = None
  /\ done' = FALSE
  /\ UNCHANGED <<long, triggers, queue, pending, bounds>>

ClearPending ==
  /\ course # None
  /\ done
  /\ pending' = pending \ {course}
  /\ course' = None
  /\ done' = FALSE
  /\ UNCHANGED <<long, triggers, queue, bounds>>

\* The process stops and starts again: everything but the database is lost.
Restart ==
  /\ restarts < MaxRestarts
  /\ restarts' = restarts + 1
  /\ triggers' = [c \in Course |-> 0]
  /\ queue' = <<>>
  /\ pending' = {}
  /\ course' = None
  /\ done' = FALSE
  /\ UNCHANGED <<long, edits, failures>>

Run == Take \/ Rebalance \/ ClearPending

Next ==
  \/ \E c \in Course : CommitEdit(c) \/ Enqueue(c)
  \/ Run
  \/ RebalanceFails
  \/ Restart

\* The worker's goroutine is never stopped while the process runs, and a
\* request that committed goes on to call Enqueue.
Fairness == WF_vars(Run) /\ \A c \in Course : WF_vars(Enqueue(c))

Spec == Init /\ [][Next]_vars /\ Fairness

-----------------------------------------------------------------------------
TypeOK ==
  /\ long \subseteq Course
  /\ triggers \in [Course -> Nat]
  /\ queue \in Seq(Course)
  /\ Len(queue) <= QueueSize
  /\ pending \subseteq Course
  /\ course \in Course \cup {None}
  /\ done \in BOOLEAN
  /\ edits \in Nat /\ failures \in Nat /\ restarts \in Nat

\* The pending map is exactly what is queued or in progress, each once: no
\* course is marked with nobody to clear the mark, which would silence its
\* triggers for ever, and none is queued twice.
PendingExact ==
  /\ pending = Queued \cup ({course} \ {None})
  /\ \A i, j \in DOMAIN queue : queue[i] = queue[j] => i = j
  /\ \A i \in DOMAIN queue : queue[i] # course

\* A queued course with a long position gets its rebalance, also when the
\* trigger of its last edit was dropped because the course was queued already
\* (unless a rebalance fails or the process restarts).
QueuedIsServed ==
  \A c \in Course :
    (c \in Queued /\ c \in long)
      ~> (c \notin long \/ failures > 0 \/ restarts > 0)

\* No course stays pending for ever, whatever fails.
PendingEnds == \A c \in Course : (c \in pending) ~> (c \notin pending)

\* What the rebalancing test says of the worker: once a position grows past
\* the threshold, the worker eventually shrinks it back.
EventuallyShrunk == \A c \in Course : (c \in long) ~> (c \notin long)
==============================================================================
