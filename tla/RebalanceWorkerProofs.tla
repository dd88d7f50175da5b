------------------------ MODULE RebalanceWorkerProofs ------------------------
(***************************************************************************)
(* The pending marks of the rebalance worker are exact, for every number   *)
(* of courses, queue size and bounds.                                      *)
(***************************************************************************)
EXTENDS RebalanceWorker, TLAPS

IInv == TypeOK /\ PendingExact

LEMMA InitIInv == Init => IInv
<1> SUFFICES ASSUME Init PROVE IInv
  OBVIOUS
<1>1. queue = <<>> /\ queue \in Seq(Course)
  BY DEF Init
<1>2. Len(queue) <= QueueSize
  BY <1>1, ConstantsAssumption
<1>3. triggers \in [Course -> Nat]
  BY DEF Init
<1>4. TypeOK
  BY <1>1, <1>2, <1>3 DEF Init, TypeOK
<1>5. PendingExact
  BY <1>1 DEF Init, PendingExact, Queued
<1> QED
  BY <1>4, <1>5 DEF IInv

\* Sending to the queue adds one course to what is queued.
LEMMA AppendQueue ==
  ASSUME NEW q \in Seq(Course), NEW c \in Course
  PROVE  /\ Append(q, c) \in Seq(Course)
         /\ Len(Append(q, c)) = Len(q) + 1
         /\ DOMAIN Append(q, c) = DOMAIN q \cup {Len(q) + 1}
         /\ Append(q, c)[Len(q) + 1] = c
         /\ \A i \in DOMAIN q : Append(q, c)[i] = q[i] /\ i # Len(q) + 1
OBVIOUS

\* Receiving from it takes the first one away.
LEMMA TailQueue ==
  ASSUME NEW q \in Seq(Course), q # <<>>
  PROVE  /\ Head(q) = q[1] /\ Head(q) \in Course /\ 1 \in DOMAIN q
         /\ Tail(q) \in Seq(Course) /\ Len(Tail(q)) = Len(q) - 1
         /\ \A i \in DOMAIN Tail(q) : /\ i + 1 \in DOMAIN q /\ i + 1 # 1
                                      /\ Tail(q)[i] = q[i + 1]
         /\ \A i \in DOMAIN q : i # 1 => /\ i - 1 \in DOMAIN Tail(q)
                                         /\ Tail(q)[i - 1] = q[i]
         /\ \A i, j \in DOMAIN Tail(q) : i + 1 = j + 1 => i = j
OBVIOUS

LEMMA EnqueueStep ==
  ASSUME IInv, NEW c \in Course, Enqueue(c)
  PROVE  IInv'
<1>1. CASE c \notin pending /\ Len(queue) < QueueSize
  <2>1. queue \in Seq(Course) /\ queue' = Append(queue, c) /\ pending' = pending \cup {c}
    BY <1>1 DEF Enqueue, IInv, TypeOK
  <2>2. /\ queue' \in Seq(Course) /\ Len(queue') = Len(queue) + 1
        /\ DOMAIN queue' = DOMAIN queue \cup {Len(queue) + 1}
        /\ queue'[Len(queue) + 1] = c
        /\ \A i \in DOMAIN queue : queue'[i] = queue[i] /\ i # Len(queue) + 1
    BY <2>1, AppendQueue
  <2>3. Queued' = Queued \cup {c}
    BY <2>2 DEF Queued
  <2>4. UNCHANGED <<long, course, done, edits, failures, restarts>>
        /\ triggers' = [triggers EXCEPT ![c] = @ - 1] /\ triggers[c] > 0
    BY DEF Enqueue, bounds
  <2>5. triggers' \in [Course -> Nat]
    BY <2>4 DEF IInv, TypeOK
  <2>6. Len(queue') <= QueueSize
    BY <1>1, <2>1, <2>2, ConstantsAssumption
  <2>7. TypeOK'
    BY <2>1, <2>2, <2>4, <2>5, <2>6 DEF IInv, TypeOK
  <2>8. c \notin Queued /\ c # course /\ pending = Queued \cup ({course} \ {None})
    BY <1>1, ConstantsAssumption DEF IInv, PendingExact
  <2>9. \A i, j \in DOMAIN queue' : queue'[i] = queue'[j] => i = j
    BY <2>2, <2>8 DEF IInv, PendingExact, Queued
  <2>10. \A i \in DOMAIN queue' : queue'[i] # course
    BY <2>2, <2>8 DEF IInv, PendingExact
  <2> QED
    BY <2>1, <2>3, <2>4, <2>7, <2>8, <2>9, <2>10 DEF IInv, PendingExact
<1>2. CASE ~(c \notin pending /\ Len(queue) < QueueSize)
  <2>1. UNCHANGED <<long, queue, pending, course, done, edits, failures, restarts>>
        /\ triggers' = [triggers EXCEPT ![c] = @ - 1] /\ triggers[c] > 0
    BY <1>2 DEF Enqueue, bounds
  <2>2. triggers' \in [Course -> Nat]
    BY <2>1 DEF IInv, TypeOK
  <2> QED
    BY <2>1, <2>2 DEF IInv, TypeOK, PendingExact, Queued
<1> QED
  BY <1>1, <1>2

LEMMA TakeStep ==
  ASSUME IInv, Take
  PROVE  IInv'
<1>1. /\ queue \in Seq(Course) /\ queue # <<>> /\ course = None
      /\ queue' = Tail(queue) /\ course' = Head(queue) /\ done' = FALSE
      /\ UNCHANGED <<long, triggers, pending, edits, failures, restarts>>
  BY DEF Take, IInv, TypeOK, bounds
<1>2. /\ course' = queue[1] /\ course' \in Course /\ 1 \in DOMAIN queue
      /\ queue' \in Seq(Course) /\ Len(queue') = Len(queue) - 1
      /\ \A i \in DOMAIN queue' : /\ i + 1 \in DOMAIN queue /\ i + 1 # 1
                                  /\ queue'[i] = queue[i + 1]
      /\ \A i \in DOMAIN queue : i # 1 => /\ i - 1 \in DOMAIN queue'
                                          /\ queue'[i - 1] = queue[i]
      /\ \A i, j \in DOMAIN queue' : i + 1 = j + 1 => i = j
  BY <1>1, TailQueue
<1>3. TypeOK'
  <2>1. Len(queue') <= QueueSize
    BY <1>1, <1>2, ConstantsAssumption DEF IInv, TypeOK
  <2> QED
    BY <1>1, <1>2, <2>1 DEF IInv, TypeOK
<1>4. Queued = Queued' \cup {course'}
  <2>1. ASSUME NEW i \in DOMAIN queue
        PROVE  queue[i] \in Queued' \cup {course'}
    <3>1. CASE i = 1
      BY <1>2, <3>1
    <3>2. CASE i # 1
      BY <1>2, <3>2 DEF Queued
    <3> QED
      BY <3>1, <3>2
  <2>2. \A i \in DOMAIN queue' : queue'[i] \in Queued
    BY <1>2 DEF Queued
  <2>3. course' \in Queued
    BY <1>2 DEF Queued
  <2>4. \A x \in Queued : x \in Queued' \cup {course'}
    BY <2>1 DEF Queued
  <2>5. \A x \in Queued' : x \in Queued
    BY <2>2 DEF Queued
  <2> QED
    BY <2>3, <2>4, <2>5
<1>5. \A i, j \in DOMAIN queue' : queue'[i] = queue'[j] => i = j
  BY <1>2 DEF IInv, PendingExact
<1>6. \A i \in DOMAIN queue' : queue'[i] # course'
  BY <1>2 DEF IInv, PendingExact
<1>7. pending' = Queued' \cup ({course'} \ {None})
  BY <1>1, <1>2, <1>4, ConstantsAssumption DEF IInv, PendingExact
<1> QED
  BY <1>3, <1>5, <1>6, <1>7 DEF IInv, PendingExact

LEMMA ClearPendingStep ==
  ASSUME IInv, ClearPending
  PROVE  IInv'
<1>1. /\ pending' = pending \ {course} /\ course' = None /\ done' = FALSE
      /\ UNCHANGED <<long, triggers, queue, edits, failures, restarts>>
  BY DEF ClearPending, bounds
<1>2. TypeOK'
  BY <1>1 DEF IInv, TypeOK
<1>3. course \notin Queued /\ None \notin Queued
  BY ConstantsAssumption DEF IInv, PendingExact, TypeOK, Queued
<1>4. Queued' = Queued
  BY <1>1 DEF Queued
<1>5. pending' = Queued' \cup ({course'} \ {None})
  BY <1>1, <1>3, <1>4 DEF IInv, PendingExact
<1>6. \A i \in DOMAIN queue' : queue'[i] # course'
  BY <1>1, <1>3 DEF Queued
<1> QED
  BY <1>1, <1>2, <1>5, <1>6 DEF IInv, PendingExact

LEMMA RestartStep ==
  ASSUME IInv, Restart
  PROVE  IInv'
<1>1. /\ queue' = <<>> /\ pending' = {} /\ course' = None
      /\ triggers' = [c \in Course |-> 0]
  BY DEF Restart
<1>2. queue' \in Seq(Course) /\ Len(queue') = 0 /\ DOMAIN queue' = {}
  BY <1>1
<1>3. triggers' \in [Course -> Nat] /\ Len(queue') <= QueueSize
  BY <1>1, <1>2, ConstantsAssumption
<1>4. TypeOK'
  <2>1. /\ UNCHANGED <<long, edits, failures>>
        /\ restarts' = restarts + 1 /\ done' = FALSE
    BY DEF Restart
  <2>2. pending' \subseteq Course /\ course' \in Course \cup {None}
    BY <1>1
  <2>3. long' \subseteq Course /\ edits' \in Nat /\ failures' \in Nat
    BY <2>1 DEF IInv, TypeOK
  <2>4. restarts' \in Nat
    BY <2>1 DEF IInv, TypeOK
  <2>5. done' \in BOOLEAN
    BY <2>1
  <2> QED
    BY <1>2, <1>3, <2>2, <2>3, <2>4, <2>5 DEF TypeOK
<1> QED
  BY <1>1, <1>2, <1>4 DEF IInv, PendingExact, Queued

\* The steps that touch neither the queue nor the marks.
LEMMA OtherSteps ==
  ASSUME IInv,
         \/ \E c \in Course : CommitEdit(c)
         \/ Rebalance \/ RebalanceFails \/ UNCHANGED vars
  PROVE  IInv'
<1>1. UNCHANGED <<queue, pending, course>>
  BY DEF CommitEdit, Rebalance, RebalanceFails, vars
<1>2. TypeOK'
  <2>1. CASE \E c \in Course : CommitEdit(c)
    BY <2>1 DEF CommitEdit, IInv, TypeOK
  <2>2. CASE Rebalance
    BY <2>2 DEF Rebalance, IInv, TypeOK, bounds
  <2>3. CASE RebalanceFails
    BY <2>3 DEF RebalanceFails, IInv, TypeOK
  <2>4. CASE UNCHANGED vars
    BY <2>4 DEF vars, IInv, TypeOK
  <2> QED
    BY <2>1, <2>2, <2>3, <2>4
<1> QED
  BY <1>1, <1>2 DEF IInv, PendingExact, Queued

LEMMA NextIInv == IInv /\ [Next]_vars => IInv'
BY EnqueueStep, TakeStep, ClearPendingStep, RestartStep, OtherSteps
DEF Next, Run

\* The types, the bound of the queue and the pending marks hold in every
\* reachable state.
THEOREM Invariance == Spec => []IInv
BY InitIInv, NextIInv, PTL DEF Spec

\* Every variable keeps its type and the queue its capacity.
THEOREM TypeCorrect == Spec => []TypeOK
<1>1. IInv => TypeOK
  BY DEF IInv
<1> QED
  BY <1>1, Invariance, PTL

\* A course is marked pending exactly while it is queued or in progress.
THEOREM PendingIsExact == Spec => []PendingExact
<1>1. IInv => PendingExact
  BY DEF IInv
<1> QED
  BY <1>1, Invariance, PTL
==============================================================================
