------------------------------ MODULE Membership ------------------------------
(***************************************************************************)
(* Courses, their members and the invites that make them: the tables       *)
(* courses, course_members, students, teachers and invites, and the calls  *)
(* that read a member's role in one statement and act on it in another     *)
(* (internal/courses, internal/courses/membership, internal/pg/courses.go, *)
(* internal/pg/membership.go).  What the calls do inside a course is in    *)
(* BlockVersions and Attempts: here it is only who did it.                 *)
(*                                                                         *)
(* A call is what one HTTP request or git session does after it was        *)
(* authenticated as a user.  Every check has an action that lets the call  *)
(* through; a call that is refused, fails or crashes ends by CallEnds.     *)
(* Rows are never inactive: nothing clears is_active.  No operation        *)
(* revokes an invite.                                                      *)
(***************************************************************************)
EXTENDS Naturals, Sequences, FiniteSets

CONSTANTS
  User,        \* registered users
  Course,      \* course ids, which are ordered
  Name,        \* course names, which are ordered
  Discipline,
  Invite,      \* invite ids
  Call,        \* calls in progress
  PageSize,    \* the limit a client lists courses with
  None

\* 0 is the nil UUID, the cursor of the first page, which no course has.
ASSUME OrderedIds == Course \subseteq Nat \ {0} /\ Name \subseteq Nat
ASSUME PageSizeAssumption == PageSize \in Nat \ {0}

Role == {"STUDENT", "TEACHER"}

\* What a call still has to do once its caller was found to be a teacher.
TeacherOp == {"edit", "update", "delete", "invite"}
Op == TeacherOp \cup {"attempt", "join", "enroll"}

CourseRow == [discipline : Discipline, name : Name, deleted : BOOLEAN]
MemberRow == [role : Role, by : Invite \cup {None}]
InviteRow == [course : Course, role : Role, by : User]
CallRow   == [user : User, course : Course, op : Op, invite : Invite \cup {None}]

\* A client that lists its courses of some roles: the cursor, what it was sent,
\* and the courses that were there when it began and did not change since.
Walk ==
  [user : User, roles : SUBSET Role, lastName : Nat, lastID : Nat,
   listed : Seq(Course), settled : SUBSET Course, done : BOOLEAN]

ASSUME NoneAssumption ==
  /\ None \notin User \cup Invite \cup CourseRow \cup MemberRow \cup InviteRow \cup CallRow
  /\ None \notin Walk

VARIABLES
  courses,   \* course -> its row
  members,   \* course -> user -> row of course_members
  students,  \* rows of students
  teachers,  \* course -> user -> promoted_by in teachers
  invites,   \* invite -> its row
  expired,   \* invites whose expires_at has passed
  calls,     \* call -> what it was let through to do
  authors,   \* created_by of the blocks and checkpoints of a course
  repos,     \* whose repositories there are in a course
  walk       \* a client that lists courses page by page

access == <<members, students, teachers>>
vars == <<courses, access, invites, expired, calls, authors, repos, walk>>

Init ==
  /\ courses  = [c \in Course |-> None]
  /\ members  = [c \in Course |-> [u \in User |-> None]]
  /\ students = {}
  /\ teachers = [c \in Course |-> [u \in User |-> None]]
  /\ invites  = [i \in Invite |-> None]
  /\ expired  = {}
  /\ calls    = [k \in Call |-> None]
  /\ authors  = {}
  /\ repos    = {}
  /\ walk     = None

-----------------------------------------------------------------------------
(* Helpers                                                                 *)

Live(c) == courses[c] # None /\ ~courses[c].deleted

IsMember(c, u)  == members[c][u] # None
IsTeacher(c, u) == IsMember(c, u) /\ members[c][u].role = "TEACHER"

\* UNIQUE (discipline_id, name): deleted courses keep their names.
NameFree(c, d, n) ==
  \A o \in Course \ {c} :
    courses[o] # None => <<courses[o].discipline, courses[o].name>> # <<d, n>>

Starts(k, u, c, op, i) ==
  calls' = [calls EXCEPT ![k] = [user |-> u, course |-> c, op |-> op, invite |-> i]]

Ends(k) == calls' = [calls EXCEPT ![k] = None]

Does(k, op) == calls[k] # None /\ calls[k].op = op

\* A course that changed is not one the client can rely on to be listed.
Unsettled(c) ==
  walk' = IF walk = None THEN None ELSE [walk EXCEPT !.settled = @ \ {c}]

-----------------------------------------------------------------------------
(* Courses                                                                 *)

\* One transaction inserts the course, its member and its teacher.
CreateCourse(u, c, d, n) ==
  /\ courses[c] = None
  /\ NameFree(c, d, n)
  /\ courses' = [courses EXCEPT ![c] =
       [discipline |-> d, name |-> n, deleted |-> FALSE]]
  /\ members' = [members EXCEPT ![c][u] = [role |-> "TEACHER", by |-> None]]
  /\ teachers' = [teachers EXCEPT ![c][u] = u]
  /\ UNCHANGED <<students, invites, expired, calls, authors, repos, walk>>

\* Mutant: any member is let through.
RequireMember(k, u, c, op) ==
  /\ calls[k] = None
  /\ IsMember(c, u)
  /\ Starts(k, u, c, op, None)
  /\ UNCHANGED <<courses, access, invites, expired, authors, repos, walk>>

\* The role is read before, and not in the transaction of, what it allows.
RequireTeacher(k, u, c, op) ==
  /\ calls[k] = None
  /\ IsTeacher(c, u)
  /\ Starts(k, u, c, op, None)
  /\ UNCHANGED <<courses, access, invites, expired, authors, repos, walk>>

\* Anything that writes blocks or checkpoints.  (Renaming a task group and
\* uploading a template pass the same check, but name no author.)
EditCourse(k) ==
  /\ Does(k, "edit")
  /\ Live(calls[k].course)
  /\ authors' = authors \cup {<<calls[k].course, calls[k].user>>}
  /\ Ends(k)
  /\ UNCHANGED <<courses, access, invites, expired, repos, walk>>

\* The owner can be changed as well, to anyone; nothing depends on it.
UpdateCourseByID(k, n) ==
  LET c == calls[k].course
  IN  /\ Does(k, "update")
      /\ Live(c)
      /\ NameFree(c, courses[c].discipline, n)
      /\ courses' = [courses EXCEPT ![c].name = n]
      /\ Unsettled(c)
      /\ Ends(k)
      /\ UNCHANGED <<access, invites, expired, authors, repos>>

DeleteCourseByID(k) ==
  LET c == calls[k].course
  IN  /\ Does(k, "delete")
      /\ Live(c)
      /\ courses' = [courses EXCEPT ![c].deleted = TRUE]
      /\ Unsettled(c)
      /\ Ends(k)
      /\ UNCHANGED <<access, invites, expired, authors, repos>>

-----------------------------------------------------------------------------
(* Invites and joins                                                       *)

CreateInvite(k, i, role) ==
  /\ Does(k, "invite")
  /\ invites[i] = None
  /\ invites' = [invites EXCEPT ![i] =
       [course |-> calls[k].course, role |-> role, by |-> calls[k].user]]
  /\ Ends(k)
  /\ UNCHANGED <<courses, access, expired, authors, repos, walk>>

ExpireInvite(i) ==
  /\ invites[i] # None
  /\ expired' = expired \cup {i}
  /\ UNCHANGED <<courses, access, invites, calls, authors, repos, walk>>

\* The course of the invite may have been deleted.
GetInviteByID(k, u, i) ==
  /\ calls[k] = None
  /\ invites[i] # None /\ i \notin expired
  /\ Starts(k, u, invites[i].course, "join", i)
  /\ UNCHANGED <<courses, access, invites, expired, authors, repos, walk>>

NotYetMember(k) ==
  /\ Does(k, "join")
  /\ ~IsMember(calls[k].course, calls[k].user)
  /\ calls' = [calls EXCEPT ![k].op = "enroll"]
  /\ UNCHANGED <<courses, access, invites, expired, authors, repos, walk>>

\* The rows an enrolment inserts.
InsertsMember(c, u, i) ==
  members' = [members EXCEPT ![c][u] = [role |-> invites[i].role, by |-> i]]

InsertsRole(c, u, i) ==
  IF invites[i].role = "STUDENT"
  THEN students' = students \cup {<<c, u>>} /\ UNCHANGED teachers
  ELSE teachers' = [teachers EXCEPT ![c][u] = invites[i].by] /\ UNCHANGED students

\* Mutant: the enrolment replaces the row of course_members it meets.
EnrollAgain(k) ==
  LET c == calls[k].course
      u == calls[k].user
  IN  /\ Does(k, "enroll")
      /\ InsertsMember(c, u, calls[k].invite)
      /\ InsertsRole(c, u, calls[k].invite)
      /\ Ends(k)
      /\ UNCHANGED <<courses, invites, expired, authors, repos, walk>>

\* Mutant: the enrolment keeps the row of course_members it meets.
EnrollOnConflictDoNothing(k) ==
  LET c == calls[k].course
      u == calls[k].user
  IN  /\ Does(k, "enroll")
      /\ IF IsMember(c, u) THEN UNCHANGED members ELSE InsertsMember(c, u, calls[k].invite)
      /\ InsertsRole(c, u, calls[k].invite)
      /\ Ends(k)
      /\ UNCHANGED <<courses, invites, expired, authors, repos, walk>>

\* One transaction; the primary key of course_members refuses a second row.
EnrollUserByInvite(k) ==
  LET c == calls[k].course
      u == calls[k].user
  IN  /\ Does(k, "enroll")
      /\ ~IsMember(c, u)
      /\ InsertsMember(c, u, calls[k].invite)
      /\ InsertsRole(c, u, calls[k].invite)
      /\ Ends(k)
      /\ UNCHANGED <<courses, invites, expired, authors, repos, walk>>

-----------------------------------------------------------------------------
(* Attempts                                                                *)

\* An upload or a git session: the repository is resolved in a live course,
\* then the membership is checked.
AssertMember(k, u, c) ==
  /\ calls[k] = None
  /\ Live(c)
  /\ IsMember(c, u)
  /\ Starts(k, u, c, "attempt", None)
  /\ UNCHANGED <<courses, access, invites, expired, authors, repos, walk>>

EnsureRepo(k) ==
  /\ Does(k, "attempt")
  /\ repos' = repos \cup {<<calls[k].course, calls[k].user>>}
  /\ Ends(k)
  /\ UNCHANGED <<courses, access, invites, expired, authors, walk>>

CallEnds(k) ==
  /\ calls[k] # None
  /\ Ends(k)
  /\ UNCHANGED <<courses, access, invites, expired, authors, repos, walk>>

-----------------------------------------------------------------------------
(* Listing courses page by page                                            *)

\* Courses are listed by name, then id.
Before(b, c) ==
  courses[b].name < courses[c].name \/ (courses[b].name = courses[c].name /\ b < c)

Listable(u, roles) ==
  {c \in Course : Live(c) /\ IsMember(c, u) /\ members[c][u].role \in roles}

StartWalk(u, roles) ==
  /\ walk = None
  /\ roles # {}
  /\ walk' = [user |-> u, roles |-> roles, lastName |-> 0, lastID |-> 0,
              listed |-> <<>>, settled |-> Listable(u, roles), done |-> FALSE]
  /\ UNCHANGED <<courses, access, invites, expired, calls, authors, repos>>

\* Mutant: pages are ordered by name and cut by id.
AfterID(c) == c > walk.lastID

\* Mutant: pages are cut by name.
AfterName(c) == courses[c].name > walk.lastName

AfterCursor(c) ==
  \/ courses[c].name > walk.lastName
  \/ courses[c].name = walk.lastName /\ c > walk.lastID

Rank(rest, c) == Cardinality({b \in rest : Before(b, c)}) + 1

\* The first of the courses left to list, as many as fit on a page.
Page(rest) ==
  LET size == IF Cardinality(rest) < PageSize THEN Cardinality(rest) ELSE PageSize
  IN  [n \in 1..size |-> CHOOSE c \in rest : Rank(rest, c) = n]

\* The next page; the cursor is the last course of it, under the name the
\* page has it with.  A short page is the last.
GetPaginatedCourses ==
  LET page == Page({c \in Listable(walk.user, walk.roles) : AfterCursor(c)})
      last == page[Len(page)]
  IN  /\ walk # None /\ ~walk.done
      /\ walk' = [walk EXCEPT
           !.listed = @ \o page,
           !.lastName = IF page = <<>> THEN @ ELSE courses[last].name,
           !.lastID = IF page = <<>> THEN @ ELSE last,
           !.done = Len(page) < PageSize]
      /\ UNCHANGED <<courses, access, invites, expired, calls, authors, repos>>

-----------------------------------------------------------------------------
Next ==
  \/ \E u \in User, c \in Course, d \in Discipline, n \in Name : CreateCourse(u, c, d, n)
  \/ \E k \in Call :
       \/ \E u \in User, c \in Course :
            \/ \E op \in TeacherOp : RequireTeacher(k, u, c, op)
            \/ AssertMember(k, u, c)
       \/ \E u \in User, i \in Invite : GetInviteByID(k, u, i)
       \/ EditCourse(k)
       \/ \E n \in Name : UpdateCourseByID(k, n)
       \/ DeleteCourseByID(k)
       \/ \E i \in Invite, role \in Role : CreateInvite(k, i, role)
       \/ NotYetMember(k)
       \/ EnrollUserByInvite(k)
       \/ EnsureRepo(k)
       \/ CallEnds(k)
  \/ \E i \in Invite : ExpireInvite(i)
  \/ \E u \in User, roles \in SUBSET Role : StartWalk(u, roles)
  \/ GetPaginatedCourses

Spec == Init /\ [][Next]_vars

-----------------------------------------------------------------------------
(* Properties                                                              *)

\* A member of a course has the row of exactly the role they have there, and
\* nobody else has one, although joins through several invites race
\* (EnrollUserByInvite, createCourseTx).
RolesAgree ==
  \A c \in Course, u \in User :
    /\ IsTeacher(c, u) <=> teachers[c][u] # None
    /\ IsMember(c, u) /\ members[c][u].role = "STUDENT" <=> <<c, u>> \in students

\* Whoever is in a course created it, or was invited to that course, in that
\* role, by one of its teachers, whom the teachers row names as the promoter
\* (CreateInvite, JoinCourseByInvite).
InvitersTeach ==
  \A c \in Course, u \in User : IsMember(c, u) =>
    LET i == members[c][u].by
    IN  IF i = None THEN teachers[c][u] = u
        ELSE /\ invites[i].course = c
             /\ invites[i].role = members[c][u].role
             /\ IsTeacher(c, invites[i].by)
             /\ teachers[c][u] \in {None, invites[i].by}

\* What a call was let through for is still so when it acts and ever after:
\* courses are written by their teachers, and repositories belong to members
\* (requireTeacher and IsCourseMember are read before what they allow).
ActorsEntitled ==
  /\ \A k \in Call : calls[k] # None =>
       /\ calls[k].op \in TeacherOp => IsTeacher(calls[k].course, calls[k].user)
       /\ calls[k].op = "attempt" => IsMember(calls[k].course, calls[k].user)
  /\ \A c \in Course, u \in User :
       /\ <<c, u>> \in authors => IsTeacher(c, u)
       /\ <<c, u>> \in repos => IsMember(c, u)

\* A client that pages to the end has seen each course that was there when it
\* began and did not change once, whatever was created, renamed or deleted in
\* between (GetPaginatedCourses: "stable, gapless order").
PagesGapless ==
  walk # None /\ walk.done =>
    \A c \in walk.settled :
      Cardinality({n \in DOMAIN walk.listed : walk.listed[n] = c}) = 1
===============================================================================
