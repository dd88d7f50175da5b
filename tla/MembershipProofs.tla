--------------------------- MODULE MembershipProofs ---------------------------
(* Theorems of Membership for any numbers of users, courses, invites and     *)
(* calls.  All rests on one fact (Stays): no step changes or removes a row   *)
(* of course_members, so a role read once can be relied on.                  *)
EXTENDS Membership, FiniteSetTheorems, SequenceTheorems, TLAPS

USE NoneAssumption

Typed ==
  /\ courses  \in [Course -> CourseRow \cup {None}]
  /\ members  \in [Course -> [User -> MemberRow \cup {None}]]
  /\ teachers \in [Course -> [User -> User \cup {None}]]
  /\ students \subseteq Course \X User
  /\ invites  \in [Invite -> InviteRow \cup {None}]
  /\ calls    \in [Call -> CallRow \cup {None}]
  /\ authors  \subseteq Course \X User
  /\ repos    \subseteq Course \X User

\* A course is there before its members.
CoursesFirst == \A c \in Course, u \in User : IsMember(c, u) => courses[c] # None

InvitesByTeachers ==
  \A i \in Invite : invites[i] # None => IsTeacher(invites[i].course, invites[i].by)

\* A member who joined did so by an invite to that course, in its role.
MembersInvited ==
  \A c \in Course, u \in User : IsMember(c, u) =>
    LET i == members[c][u].by
    IN  IF i = None THEN teachers[c][u] = u
        ELSE /\ invites[i] # None
             /\ invites[i].course = c
             /\ invites[i].role = members[c][u].role
             /\ teachers[c][u] \in {None, invites[i].by}

JoinsInvited ==
  \A k \in Call : calls[k] # None /\ calls[k].op \in {"join", "enroll"} =>
    /\ calls[k].invite \in Invite
    /\ invites[calls[k].invite] # None
    /\ invites[calls[k].invite].course = calls[k].course

IInv ==
  /\ Typed
  /\ CoursesFirst
  /\ InvitesByTeachers
  /\ MembersInvited
  /\ JoinsInvited
  /\ RolesAgree
  /\ ActorsEntitled

\* Rows of course_members and invites stay as they are.
Stays ==
  /\ \A c \in Course, u \in User : members[c][u] # None => members'[c][u] = members[c][u]
  /\ \A i \in Invite : invites[i] # None => invites'[i] = invites[i]

LEMMA InitIInv == Init => IInv
BY DEF Init, IInv, Typed, CoursesFirst, InvitesByTeachers, MembersInvited,
       JoinsInvited, RolesAgree, ActorsEntitled, IsMember, IsTeacher

\* Creating a course gives it its first member.
LEMMA CreateCourseIInv ==
  ASSUME IInv, NEW u \in User, NEW c \in Course, NEW d \in Discipline, NEW n \in Name,
         CreateCourse(u, c, d, n)
  PROVE  IInv' /\ Stays
<1>1. \A v \in User : members[c][v] = None /\ teachers[c][v] = None /\ <<c, v>> \notin students
  BY DEF IInv, Typed, CoursesFirst, RolesAgree, CreateCourse, IsMember, IsTeacher,
         MemberRow, Role
<1>2. \A i \in Invite : invites[i] # None => invites[i].course # c
  <2> SUFFICES ASSUME NEW i \in Invite, invites[i] # None, invites[i].course = c
               PROVE  FALSE
    OBVIOUS
  <2>1. invites[i].by \in User
    BY DEF IInv, Typed, InviteRow
  <2>2. IsTeacher(c, invites[i].by)
    BY DEF IInv, InvitesByTeachers
  <2>3. QED
    BY <1>1, <2>1, <2>2 DEF IsTeacher, IsMember
<1>3. Typed'
  BY DEF IInv, Typed, CreateCourse, CourseRow, MemberRow, Role
<1>4. members'[c][u] = [role |-> "TEACHER", by |-> None] /\ teachers'[c][u] = u
  BY DEF IInv, Typed, CreateCourse
<1>5. \A e \in Course, v \in User : e # c \/ v # u =>
        members'[e][v] = members[e][v] /\ teachers'[e][v] = teachers[e][v]
  BY DEF IInv, Typed, CreateCourse
<1>6. courses'[c] # None /\ \A e \in Course \ {c} : courses'[e] = courses[e]
  <2> DEFINE row == [discipline |-> d, name |-> n, deleted |-> FALSE]
  <2>1. row \in CourseRow
    BY DEF CourseRow
  <2>2. row # None
    BY <2>1
  <2> HIDE DEF row
  <2>3. courses' = [courses EXCEPT ![c] = row]
    BY DEF CreateCourse, row
  <2>4. QED
    BY <2>2, <2>3 DEF IInv, Typed
<1>7. UNCHANGED <<students, invites, calls, authors, repos>>
  BY DEF CreateCourse
<1>8. [role |-> "TEACHER", by |-> None] # None
  BY DEF MemberRow, Role
<1>9. CoursesFirst'
  BY <1>4, <1>5, <1>6 DEF IInv, CoursesFirst, IsMember
<1>10. InvitesByTeachers'
  BY <1>2, <1>5, <1>7 DEF IInv, Typed, InviteRow, InvitesByTeachers, IsTeacher, IsMember
<1>11. MembersInvited'
  BY <1>1, <1>4, <1>5, <1>7, <1>8 DEF IInv, MembersInvited, IsMember
<1>12. JoinsInvited'
  BY <1>7 DEF IInv, JoinsInvited
<1>13. RolesAgree'
  <2> SUFFICES ASSUME NEW e \in Course, NEW v \in User
               PROVE  /\ IsTeacher(e, v)' <=> teachers'[e][v] # None
                      /\ (IsMember(e, v) /\ members[e][v].role = "STUDENT")'
                           <=> <<e, v>> \in students'
    BY DEF RolesAgree
  <2>1. CASE e = c /\ v = u
    BY <1>1, <1>4, <1>7, <1>8, <2>1 DEF IsTeacher, IsMember
  <2>2. CASE e # c \/ v # u
    <3>1. /\ IsTeacher(e, v)' <=> IsTeacher(e, v)
          /\ IsMember(e, v)' <=> IsMember(e, v)
          /\ members'[e][v] = members[e][v] /\ teachers'[e][v] = teachers[e][v]
      BY <1>5, <2>2 DEF IsTeacher, IsMember
    <3>2. QED
      BY <1>7, <3>1 DEF IInv, RolesAgree
  <2>3. QED
    BY <2>1, <2>2
<1>14. ActorsEntitled'
  <2>1. \A e \in Course, v \in User : IsMember(e, v) => e # c
    BY <1>1 DEF IsMember
  <2>2. \A e \in Course, v \in User :
          /\ IsMember(e, v) => IsMember(e, v)'
          /\ IsTeacher(e, v) => IsTeacher(e, v)'
    BY <1>5, <2>1 DEF IsTeacher, IsMember
  <2>3. QED
    BY <2>2, <1>7 DEF IInv, Typed, CallRow, ActorsEntitled
<1>15. Stays
  BY <1>1, <1>5, <1>7 DEF Stays
<1>16. QED
  BY <1>3, <1>9, <1>10, <1>11, <1>12, <1>13, <1>14, <1>15 DEF IInv

\* Joining a course gives it one more member, who was none before.
LEMMA EnrollUserByInviteIInv ==
  ASSUME IInv, NEW k \in Call, EnrollUserByInvite(k)
  PROVE  IInv' /\ Stays
<1> DEFINE c == calls[k].course
           u == calls[k].user
           i == calls[k].invite
           row == [role |-> invites[i].role, by |-> i]
<1>1. /\ c \in Course /\ u \in User /\ i \in Invite
      /\ invites[i] \in InviteRow /\ invites[i].course = c
  BY DEF IInv, Typed, JoinsInvited, EnrollUserByInvite, Does, CallRow
<1>2. members[c][u] = None /\ teachers[c][u] = None /\ <<c, u>> \notin students
  BY <1>1 DEF IInv, Typed, RolesAgree, EnrollUserByInvite, IsMember, IsTeacher
<1>3. invites[i].by \in User /\ invites[i].role \in Role
  BY <1>1 DEF InviteRow
<1>4. members' = [members EXCEPT ![c][u] = row] /\ row \in MemberRow /\ row # None
  BY <1>1, <1>3 DEF EnrollUserByInvite, InsertsMember, MemberRow
<1>5. /\ members'[c][u] = row
      /\ \A e \in Course, v \in User : e # c \/ v # u => members'[e][v] = members[e][v]
  BY <1>1, <1>4 DEF IInv, Typed
<1>6. \A e \in Course, v \in User : e # c \/ v # u =>
        /\ teachers'[e][v] = teachers[e][v]
        /\ <<e, v>> \in students' <=> <<e, v>> \in students
  BY <1>1 DEF IInv, Typed, EnrollUserByInvite, InsertsRole
<1>7. \/ /\ row.role = "STUDENT" /\ <<c, u>> \in students' /\ teachers'[c][u] = None
      \/ /\ row.role = "TEACHER" /\ <<c, u>> \notin students'
         /\ teachers'[c][u] = invites[i].by
  BY <1>1, <1>2, <1>3 DEF IInv, Typed, EnrollUserByInvite, InsertsRole, Role
<1>8. UNCHANGED <<courses, invites, authors, repos>> /\ calls' = [calls EXCEPT ![k] = None]
  BY DEF EnrollUserByInvite, Ends
<1>9. Stays
  BY <1>2, <1>5, <1>8 DEF Stays
<1>10. \A e \in Course, v \in User :
         /\ IsMember(e, v) => IsMember(e, v)'
         /\ IsTeacher(e, v) => IsTeacher(e, v)'
  BY <1>9 DEF Stays, IsTeacher, IsMember
<1>11. Typed'
  <2>1. members' \in [Course -> [User -> MemberRow \cup {None}]]
    BY <1>1, <1>4 DEF IInv, Typed
  <2>2. teachers' \in [Course -> [User -> User \cup {None}]] /\ students' \subseteq Course \X User
    <3>1. CASE invites[i].role = "STUDENT"
      BY <1>1, <3>1 DEF IInv, Typed, EnrollUserByInvite, InsertsRole
    <3>2. CASE invites[i].role # "STUDENT"
      <4>1. teachers' = [teachers EXCEPT ![c][u] = invites[i].by] /\ students' = students
        BY <3>2 DEF EnrollUserByInvite, InsertsRole
      <4>2. QED
        BY <1>1, <1>3, <4>1 DEF IInv, Typed
    <3>3. QED
      BY <3>1, <3>2
  <2>3. QED
    BY <1>8, <2>1, <2>2 DEF IInv, Typed
<1>12. CoursesFirst'
  <2>1. courses[c] # None
    BY <1>1, <1>3 DEF IInv, InvitesByTeachers, CoursesFirst, IsTeacher
  <2>2. QED
    BY <1>5, <1>8, <2>1 DEF IInv, CoursesFirst, IsMember
<1>13. InvitesByTeachers'
  BY <1>8, <1>10 DEF IInv, Typed, InviteRow, InvitesByTeachers
<1>14. MembersInvited'
  <2>1. i # None
    BY <1>1
  <2>2. ASSUME NEW e \in Course, NEW v \in User, IsMember(e, v)', e # c \/ v # u
        PROVE  members'[e][v] = members[e][v] /\ teachers'[e][v] = teachers[e][v] /\ IsMember(e, v)
    BY <2>2, <1>5, <1>6 DEF IsMember
  <2>3. ASSUME NEW e \in Course, NEW v \in User, IsMember(e, v)', e # c \/ v # u
        PROVE  LET j == members'[e][v].by
               IN  IF j = None THEN teachers'[e][v] = v
                   ELSE /\ invites'[j] # None
                        /\ invites'[j].course = e
                        /\ invites'[j].role = members'[e][v].role
                        /\ teachers'[e][v] \in {None, invites'[j].by}
    BY <1>8, <2>2, <2>3 DEF IInv, MembersInvited
  <2>4. /\ members'[c][u].by = i /\ members'[c][u].role = invites[i].role
        /\ invites'[i] # None /\ invites'[i].course = c
        /\ teachers'[c][u] \in {None, invites'[i].by}
    BY <1>1, <1>5, <1>7, <1>8
  <2>5. QED
    BY <1>8, <2>1, <2>3, <2>4 DEF MembersInvited
<1>15. JoinsInvited'
  BY <1>8 DEF IInv, Typed, JoinsInvited
<1>16. RolesAgree'
  <2> SUFFICES ASSUME NEW e \in Course, NEW v \in User
               PROVE  /\ IsTeacher(e, v)' <=> teachers'[e][v] # None
                      /\ (IsMember(e, v) /\ members[e][v].role = "STUDENT")'
                           <=> <<e, v>> \in students'
    BY DEF RolesAgree
  <2>1. CASE e = c /\ v = u
    <3>1. IsMember(e, v)' /\ members'[e][v].role = row.role
      BY <1>4, <1>5, <2>1 DEF IsMember
    <3>2. QED
      BY <1>3, <1>7, <2>1, <3>1 DEF IsTeacher
  <2>2. CASE e # c \/ v # u
    <3>1. /\ IsTeacher(e, v)' <=> IsTeacher(e, v)
          /\ IsMember(e, v)' <=> IsMember(e, v)
          /\ members'[e][v] = members[e][v]
      BY <1>5, <2>2 DEF IsTeacher, IsMember
    <3>2. QED
      BY <1>6, <2>2, <3>1 DEF IInv, RolesAgree
  <2>3. QED
    BY <2>1, <2>2
<1>17. ActorsEntitled'
  BY <1>8, <1>10 DEF IInv, Typed, CallRow, ActorsEntitled
<1>18. QED
  BY <1>9, <1>11, <1>12, <1>13, <1>14, <1>15, <1>16, <1>17 DEF IInv

\* What a call was let through for, it still may do.
SoundCall(call) ==
  /\ call \in CallRow
  /\ call.op \in TeacherOp => IsTeacher(call.course, call.user)
  /\ call.op = "attempt" => IsMember(call.course, call.user)
  /\ call.op \in {"join", "enroll"} =>
       /\ call.invite \in Invite
       /\ invites[call.invite] # None
       /\ invites[call.invite].course = call.course

LEMMA CallsSound ==
  ASSUME IInv, NEW k \in Call, calls[k] # None
  PROVE  SoundCall(calls[k])
BY DEF IInv, Typed, JoinsInvited, ActorsEntitled, SoundCall

\* A step that only moves one call on, to one that is entitled, and writes
\* what that call may write.
LEMMA CallStep ==
  ASSUME IInv, NEW k \in Call, NEW call,
         call = None \/ SoundCall(call),
         calls' = [calls EXCEPT ![k] = call],
         UNCHANGED <<access, invites>>,
         courses' \in [Course -> CourseRow \cup {None}],
         \A c \in Course : courses[c] # None => courses'[c] # None,
         authors' \subseteq Course \X User, repos' \subseteq Course \X User,
         \A c \in Course, u \in User :
           /\ <<c, u>> \in authors' => IsTeacher(c, u)
           /\ <<c, u>> \in repos' => IsMember(c, u)
  PROVE  IInv' /\ Stays
<1>1. UNCHANGED <<members, students, teachers, invites>>
  BY DEF access
<1>2. \A c, u : (IsMember(c, u)' <=> IsMember(c, u)) /\ (IsTeacher(c, u)' <=> IsTeacher(c, u))
  BY <1>1 DEF IsMember, IsTeacher
<1>3. Typed'
  BY <1>1 DEF IInv, Typed, SoundCall
<1>4. \A j \in Call : calls'[j] = None \/ SoundCall(calls'[j])
  BY CallsSound DEF IInv, Typed
<1>5. JoinsInvited' /\ ActorsEntitled'
  BY <1>1, <1>2, <1>4 DEF SoundCall, JoinsInvited, ActorsEntitled
<1>6. CoursesFirst' /\ InvitesByTeachers' /\ MembersInvited' /\ RolesAgree'
  BY <1>1, <1>2 DEF IInv, CoursesFirst, InvitesByTeachers, MembersInvited, RolesAgree
<1>7. Stays
  BY <1>1 DEF Stays
<1>8. QED
  BY <1>3, <1>5, <1>6, <1>7 DEF IInv

\* Checks let a call through; the end of one says no more.
LEMMA ChecksIInv ==
  ASSUME IInv, NEW k \in Call,
         \/ \E u \in User, c \in Course, op \in TeacherOp : RequireTeacher(k, u, c, op)
         \/ \E u \in User, c \in Course : AssertMember(k, u, c)
         \/ \E u \in User, i \in Invite : GetInviteByID(k, u, i)
         \/ NotYetMember(k)
         \/ CallEnds(k)
  PROVE  IInv' /\ Stays
<1> USE DEF TeacherOp, Op
<1>0. /\ courses \in [Course -> CourseRow \cup {None}]
      /\ authors \subseteq Course \X User /\ repos \subseteq Course \X User
      /\ \A c \in Course, u \in User :
           /\ <<c, u>> \in authors => IsTeacher(c, u)
           /\ <<c, u>> \in repos => IsMember(c, u)
  BY DEF IInv, Typed, ActorsEntitled
<1>1. ASSUME NEW u \in User, NEW c \in Course, NEW op \in TeacherOp, RequireTeacher(k, u, c, op)
      PROVE  IInv' /\ Stays
  <2> DEFINE call == [user |-> u, course |-> c, op |-> op, invite |-> None]
  <2>1. SoundCall(call)
    BY <1>1 DEF RequireTeacher, SoundCall, CallRow
  <2> HIDE DEF call
  <2>2. /\ calls' = [calls EXCEPT ![k] = call]
        /\ UNCHANGED <<courses, access, invites, authors, repos>>
    BY <1>1 DEF RequireTeacher, Starts, call
  <2>3. QED
    BY <1>0, <2>1, <2>2, CallStep
<1>2. ASSUME NEW u \in User, NEW c \in Course, AssertMember(k, u, c)
      PROVE  IInv' /\ Stays
  <2> DEFINE call == [user |-> u, course |-> c, op |-> "attempt", invite |-> None]
  <2>1. SoundCall(call)
    BY <1>2 DEF AssertMember, SoundCall, CallRow
  <2> HIDE DEF call
  <2>2. /\ calls' = [calls EXCEPT ![k] = call]
        /\ UNCHANGED <<courses, access, invites, authors, repos>>
    BY <1>2 DEF AssertMember, Starts, call
  <2>3. QED
    BY <1>0, <2>1, <2>2, CallStep
<1>3. ASSUME NEW u \in User, NEW i \in Invite, GetInviteByID(k, u, i)
      PROVE  IInv' /\ Stays
  <2> DEFINE call == [user |-> u, course |-> invites[i].course, op |-> "join", invite |-> i]
  <2>1. SoundCall(call)
    BY <1>3 DEF IInv, Typed, InviteRow, GetInviteByID, SoundCall, CallRow
  <2> HIDE DEF call
  <2>2. /\ calls' = [calls EXCEPT ![k] = call]
        /\ UNCHANGED <<courses, access, invites, authors, repos>>
    BY <1>3 DEF GetInviteByID, Starts, call
  <2>3. QED
    BY <1>0, <2>1, <2>2, CallStep
<1>4. ASSUME NotYetMember(k)
      PROVE  IInv' /\ Stays
  <2> DEFINE call == [calls[k] EXCEPT !.op = "enroll"]
  <2>1. calls[k] # None /\ calls[k].op = "join" /\ SoundCall(calls[k])
    BY <1>4, CallsSound DEF NotYetMember, Does
  <2>2. SoundCall(call)
    BY <2>1 DEF SoundCall, CallRow
  <2> HIDE DEF call
  <2>3. /\ calls' = [calls EXCEPT ![k] = call]
        /\ UNCHANGED <<courses, access, invites, authors, repos>>
    BY <1>4 DEF NotYetMember, call
  <2>4. QED
    BY <1>0, <2>2, <2>3, CallStep
<1>5. ASSUME CallEnds(k)
      PROVE  IInv' /\ Stays
  BY <1>0, <1>5, CallStep DEF CallEnds, Ends
<1>6. QED
  BY <1>1, <1>2, <1>3, <1>4, <1>5

\* Writes of a call that was let through, in the name of its user.
LEMMA WritesIInv ==
  ASSUME IInv, NEW k \in Call,
         \/ EditCourse(k)
         \/ \E n \in Name : UpdateCourseByID(k, n)
         \/ DeleteCourseByID(k)
         \/ EnsureRepo(k)
  PROVE  IInv' /\ Stays
<1> DEFINE c == calls[k].course
           u == calls[k].user
<1> USE DEF TeacherOp, Op
<1>1. calls[k] # None /\ SoundCall(calls[k]) /\ c \in Course /\ u \in User
  BY CallsSound DEF EditCourse, UpdateCourseByID, DeleteCourseByID, EnsureRepo, Does,
                    SoundCall, CallRow
<1>2. /\ courses \in [Course -> CourseRow \cup {None}]
      /\ authors \subseteq Course \X User /\ repos \subseteq Course \X User
      /\ \A b \in Course, v \in User :
           /\ <<b, v>> \in authors => IsTeacher(b, v)
           /\ <<b, v>> \in repos => IsMember(b, v)
  BY DEF IInv, Typed, ActorsEntitled
<1>3. calls' = [calls EXCEPT ![k] = None]
  BY DEF EditCourse, UpdateCourseByID, DeleteCourseByID, EnsureRepo, Ends
<1>4. CASE EditCourse(k)
  <2>1. IsTeacher(c, u) /\ authors' = authors \cup {<<c, u>>}
    BY <1>1, <1>4 DEF EditCourse, Does, SoundCall
  <2>2. UNCHANGED <<courses, access, invites, repos>>
    BY <1>4 DEF EditCourse
  <2> HIDE DEF c, u
  <2>3. authors' \subseteq Course \X User
    BY <1>1, <1>2, <2>1
  <2>4. \A b \in Course, v \in User : <<b, v>> \in authors' => IsTeacher(b, v)
    BY <1>2, <2>1
  <2>5. QED
    BY <1>1, <1>2, <1>3, <2>2, <2>3, <2>4, CallStep
<1>5. CASE \E n \in Name : UpdateCourseByID(k, n)
  <2>1. PICK n \in Name : UpdateCourseByID(k, n)
    BY <1>5
  <2> DEFINE row == [courses[c] EXCEPT !.name = n]
  <2>2. row \in CourseRow
    BY <1>1, <1>2, <2>1 DEF UpdateCourseByID, Live, CourseRow
  <2>3. /\ courses' = [courses EXCEPT ![c] = row]
        /\ UNCHANGED <<access, invites, authors, repos>>
    BY <2>1 DEF UpdateCourseByID
  <2> HIDE DEF row
  <2>4. QED
    BY <1>1, <1>2, <1>3, <2>2, <2>3, CallStep
<1>6. CASE DeleteCourseByID(k)
  <2> DEFINE row == [courses[c] EXCEPT !.deleted = TRUE]
  <2>1. row \in CourseRow
    BY <1>1, <1>2, <1>6 DEF DeleteCourseByID, Live, CourseRow
  <2>2. /\ courses' = [courses EXCEPT ![c] = row]
        /\ UNCHANGED <<access, invites, authors, repos>>
    BY <1>6 DEF DeleteCourseByID
  <2> HIDE DEF row
  <2>3. QED
    BY <1>1, <1>2, <1>3, <2>1, <2>2, CallStep
<1>7. CASE EnsureRepo(k)
  <2>1. IsMember(c, u) /\ repos' = repos \cup {<<c, u>>}
    BY <1>1, <1>7 DEF EnsureRepo, Does, SoundCall
  <2>2. UNCHANGED <<courses, access, invites, authors>>
    BY <1>7 DEF EnsureRepo
  <2> HIDE DEF c, u
  <2>3. repos' \subseteq Course \X User
    BY <1>1, <1>2, <2>1
  <2>4. \A b \in Course, v \in User : <<b, v>> \in repos' => IsMember(b, v)
    BY <1>2, <2>1
  <2>5. QED
    BY <1>1, <1>2, <1>3, <2>2, <2>3, <2>4, CallStep
<1>8. QED
  BY <1>4, <1>5, <1>6, <1>7

LEMMA CreateInviteIInv ==
  ASSUME IInv, NEW k \in Call, NEW i \in Invite, NEW role \in Role,
         CreateInvite(k, i, role)
  PROVE  IInv' /\ Stays
<1> DEFINE row == [course |-> calls[k].course, role |-> role, by |-> calls[k].user]
<1>1. SoundCall(calls[k]) /\ calls[k].op = "invite"
  BY CallsSound DEF CreateInvite, Does
<1>2. row \in InviteRow /\ row # None /\ IsTeacher(row.course, row.by)
  BY <1>1 DEF SoundCall, CallRow, InviteRow, TeacherOp
<1>3. invites' = [invites EXCEPT ![i] = row] /\ invites[i] = None
  BY DEF CreateInvite
<1> HIDE DEF row
<1>4. UNCHANGED <<courses, members, students, teachers, authors, repos>>
  BY DEF CreateInvite, access
<1>5. calls' = [calls EXCEPT ![k] = None]
  BY DEF CreateInvite, Ends
<1>6. \A j \in Invite : invites[j] # None => invites'[j] = invites[j]
  BY <1>3 DEF IInv, Typed
<1>7. \A c, u : (IsMember(c, u)' <=> IsMember(c, u)) /\ (IsTeacher(c, u)' <=> IsTeacher(c, u))
  BY <1>4 DEF IsMember, IsTeacher
<1>8. Typed'
  BY <1>2, <1>3, <1>4, <1>5 DEF IInv, Typed
<1>9. InvitesByTeachers'
  BY <1>2, <1>3, <1>7 DEF IInv, Typed, InvitesByTeachers
<1>10. MembersInvited'
  <2>1. ASSUME NEW c \in Course, NEW u \in User, IsMember(c, u)
        PROVE  members[c][u].by \in Invite \cup {None}
    BY <2>1 DEF IInv, Typed, IsMember, MemberRow
  <2>2. QED
    BY <1>4, <1>6, <1>7, <2>1 DEF IInv, MembersInvited
<1>11. JoinsInvited'
  BY <1>5, <1>6 DEF IInv, Typed, JoinsInvited
<1>12. CoursesFirst' /\ RolesAgree'
  BY <1>4, <1>7 DEF IInv, CoursesFirst, RolesAgree
<1>13. ActorsEntitled'
  BY <1>4, <1>5, <1>7 DEF IInv, Typed, ActorsEntitled
<1>14. Stays
  BY <1>4, <1>6 DEF Stays
<1>15. QED
  BY <1>8, <1>9, <1>10, <1>11, <1>12, <1>13, <1>14 DEF IInv

\* Expiry, the client that lists courses, and stuttering touch none of it.
LEMMA OthersIInv ==
  ASSUME IInv, UNCHANGED <<courses, access, invites, calls, authors, repos>>
  PROVE  IInv' /\ Stays
BY DEF access, IInv, Typed, CoursesFirst, InvitesByTeachers, MembersInvited,
       JoinsInvited, RolesAgree, ActorsEntitled, IsMember, IsTeacher, Stays

\* No step changes or removes a member or an invite, and all keep IInv.
THEOREM StepIInv == IInv /\ [Next]_vars => IInv' /\ Stays
<1> SUFFICES ASSUME IInv, [Next]_vars PROVE IInv' /\ Stays
  OBVIOUS
<1>1. CASE \E u \in User, c \in Course, d \in Discipline, n \in Name : CreateCourse(u, c, d, n)
  BY <1>1, CreateCourseIInv
<1>2. ASSUME NEW k \in Call,
             \/ \E u \in User, c \in Course :
                  \/ \E op \in TeacherOp : RequireTeacher(k, u, c, op)
                  \/ AssertMember(k, u, c)
             \/ \E u \in User, i \in Invite : GetInviteByID(k, u, i)
             \/ NotYetMember(k)
             \/ CallEnds(k)
      PROVE  IInv' /\ Stays
  BY <1>2, ChecksIInv
<1>3. ASSUME NEW k \in Call,
             \/ EditCourse(k)
             \/ \E n \in Name : UpdateCourseByID(k, n)
             \/ DeleteCourseByID(k)
             \/ EnsureRepo(k)
      PROVE  IInv' /\ Stays
  BY <1>3, WritesIInv
<1>4. ASSUME NEW k \in Call, NEW i \in Invite, NEW role \in Role, CreateInvite(k, i, role)
      PROVE  IInv' /\ Stays
  BY <1>4, CreateInviteIInv
<1>5. ASSUME NEW k \in Call, EnrollUserByInvite(k)
      PROVE  IInv' /\ Stays
  BY <1>5, EnrollUserByInviteIInv
<1>6. CASE \/ \E i \in Invite : ExpireInvite(i)
           \/ \E u \in User, roles \in SUBSET Role : StartWalk(u, roles)
           \/ GetPaginatedCourses
  <2>1. UNCHANGED <<courses, access, invites, calls, authors, repos>>
    BY <1>6 DEF ExpireInvite, StartWalk, GetPaginatedCourses
  <2>2. QED
    BY <2>1, OthersIInv
<1>7. CASE UNCHANGED vars
  BY <1>7, OthersIInv DEF vars
<1>8. QED
  BY <1>1, <1>2, <1>3, <1>4, <1>5, <1>6, <1>7 DEF Next

\* What makes roles, invites and calls agree holds in every state.
THEOREM Invariance == Spec => []IInv
BY InitIInv, StepIInv, PTL DEF Spec

\* Nobody leaves a course or changes roles, and no invite is withdrawn.
THEOREM MembersStay == Spec => [][Stays]_vars
BY Invariance, StepIInv, PTL DEF Spec

\* The row of the role there is for a member, and no other: RolesAgree.
THEOREM MemberRoles == Spec => []RolesAgree
BY Invariance, PTL DEF IInv

\* Every member created the course or was invited by a teacher of it.
THEOREM MembersByTeachers == Spec => []InvitersTeach
<1>1. IInv => InvitersTeach
  <2> SUFFICES ASSUME IInv, NEW c \in Course, NEW u \in User, IsMember(c, u),
                      members[c][u].by # None
               PROVE  IsTeacher(c, invites[members[c][u].by].by)
    BY DEF IInv, MembersInvited, InvitersTeach
  <2>1. members[c][u].by \in Invite
    BY DEF IInv, Typed, MemberRow, IsMember
  <2>2. QED
    BY <2>1 DEF IInv, MembersInvited, InvitesByTeachers
<1>2. QED
  BY <1>1, Invariance, PTL

\* Whoever wrote in a course teaches it, whoever has a repository there is in it.
THEOREM Entitled == Spec => []ActorsEntitled
BY Invariance, PTL DEF IInv

-----------------------------------------------------------------------------
(* Pages                                                                   *)

Named(R) == \A c \in R : c \in Nat /\ courses[c].name \in Nat

\* Courses are listed in a linear order.
LEMMA BeforeLinear ==
  ASSUME NEW R, Named(R), NEW b \in R, NEW c \in R
  PROVE  /\ ~Before(b, b)
         /\ Before(b, c) => ~Before(c, b)
         /\ b = c \/ Before(b, c) \/ Before(c, b)
         /\ \A d \in R : Before(b, c) /\ Before(c, d) => Before(b, d)
BY DEF Named, Before

\* The courses left to list have the ranks 1, 2, and so on.
LEMMA Ranks ==
  ASSUME NEW R, IsFiniteSet(R), Named(R)
  PROVE  /\ Cardinality(R) \in Nat
         /\ \A c \in R : Rank(R, c) \in 1..Cardinality(R)
         /\ \A b, c \in R : Before(b, c) => Rank(R, b) < Rank(R, c)
<1> DEFINE below(c) == {b \in R : Before(b, c)}
<1>1. Cardinality(R) \in Nat
  BY FS_CardinalityType
<1>2. ASSUME NEW c \in R
      PROVE  IsFiniteSet(below(c)) /\ Cardinality(below(c)) \in Nat
  BY FS_Subset, FS_CardinalityType
<1>3. ASSUME NEW c \in R
      PROVE  Rank(R, c) \in 1..Cardinality(R)
  <2>1. below(c) \in SUBSET (R \ {c})
    BY BeforeLinear
  <2>2. IsFiniteSet(R \ {c}) /\ Cardinality(R \ {c}) = Cardinality(R) - 1
    BY FS_RemoveElement
  <2>3. Cardinality(below(c)) <= Cardinality(R \ {c})
    BY <2>1, <2>2, FS_Subset
  <2>4. Rank(R, c) = Cardinality(below(c)) + 1
    BY DEF Rank
  <2> HIDE DEF below
  <2> QED
    BY <1>1, <1>2, <2>2, <2>3, <2>4
<1>4. ASSUME NEW b \in R, NEW c \in R, Before(b, c)
      PROVE  Rank(R, b) < Rank(R, c)
  <2>1. b \notin below(b) /\ below(b) \cup {b} \in SUBSET below(c)
    <3>1. ~Before(b, b) /\ \A d \in R : Before(d, b) => Before(d, c)
      BY <1>4, BeforeLinear
    <3> QED
      BY <1>4, <3>1
  <2>2. Cardinality(below(b) \cup {b}) = Cardinality(below(b)) + 1
    BY <1>2, <2>1, FS_AddElement
  <2>3. Cardinality(below(b) \cup {b}) <= Cardinality(below(c))
    BY <1>2, <2>1, FS_Subset
  <2>4. /\ Rank(R, b) = Cardinality(below(b)) + 1
        /\ Rank(R, c) = Cardinality(below(c)) + 1
    BY DEF Rank
  <2> HIDE DEF below
  <2> QED
    BY <1>2, <2>2, <2>3, <2>4
<1> QED
  BY <1>1, <1>3, <1>4

\* Each rank up to the number of courses is one course's.
LEMMA RankTaken ==
  ASSUME NEW R, IsFiniteSet(R), Named(R), NEW n \in 1..Cardinality(R)
  PROVE  \E c \in R : Rank(R, c) = n
<1> DEFINE f == [c \in R |-> Rank(R, c)]
           N == 1..Cardinality(R)
<1>1. Cardinality(R) \in Nat /\ f \in [R -> N]
  BY Ranks
<1>2. \A b, c \in R : f[b] = f[c] => b = c
  <2> SUFFICES ASSUME NEW b \in R, NEW c \in R, b # c
               PROVE  Rank(R, b) # Rank(R, c)
    OBVIOUS
  <2>1. Rank(R, b) < Rank(R, c) \/ Rank(R, c) < Rank(R, b)
    BY Ranks, BeforeLinear
  <2>2. Rank(R, b) \in Int /\ Rank(R, c) \in Int
    BY <1>1, Ranks
  <2> QED
    BY <2>1, <2>2
<1>3. IsFiniteSet(N) /\ Cardinality(N) = Cardinality(R)
  BY <1>1, FS_Interval
<1> HIDE DEF f, N
<1>4. f \in Injection(R, N)
  BY <1>1, <1>2 DEF Injection, IsInjective
<1>5. f \in Surjection(R, N)
  BY <1>3, <1>4, FS_Injection
<1>6. \E c \in R : f[c] = n
  BY <1>5 DEF Surjection, N
<1> QED
  BY <1>6 DEF f

\* A page is the first courses left to list, in order: each on it once, and the
\* others come after all on it.
LEMMA PageLists ==
  ASSUME NEW R, IsFiniteSet(R), Named(R), NEW page, page = Page(R)
  PROVE  /\ page \in Seq(R) /\ Len(page) \in Nat /\ Len(page) <= Cardinality(R)
         /\ Len(page) < PageSize => Len(page) = Cardinality(R)
         /\ page = <<>> => R = {}
         /\ \A n \in 1..Len(page) : Rank(R, page[n]) = n
         /\ \A c \in R, n \in 1..Len(page) : Rank(R, c) = n => page[n] = c
<1> DEFINE size == IF Cardinality(R) < PageSize THEN Cardinality(R) ELSE PageSize
<1>1. Cardinality(R) \in Nat /\ PageSize \in Nat \ {0}
  BY Ranks, PageSizeAssumption
<1>2. size \in Nat /\ size <= Cardinality(R) /\ (size < PageSize => size = Cardinality(R))
      /\ (size = 0 => Cardinality(R) = 0)
  BY <1>1
<1>3. page = [n \in 1..size |-> CHOOSE c \in R : Rank(R, c) = n]
  BY DEF Page
<1> HIDE DEF size
<1>4. ASSUME NEW n \in 1..size
      PROVE  page[n] \in R /\ Rank(R, page[n]) = n
  <2>1. \E c \in R : Rank(R, c) = n
    BY <1>1, <1>2, RankTaken
  <2>2. page[n] = CHOOSE c \in R : Rank(R, c) = n
    BY <1>3
  <2> QED
    BY <2>1, <2>2
<1>5. page \in [1..size -> R]
  BY <1>3, <1>4
<1>6. page \in Seq(R) /\ Len(page) = size
  BY <1>2, <1>5, SeqDef, LenProperties
<1>7. ASSUME NEW c \in R, NEW n \in 1..size, Rank(R, c) = n
      PROVE  page[n] = c
  <2>1. page[n] \in R /\ Rank(R, page[n]) = n
    BY <1>4
  <2>2. n \in Int
    BY <1>2
  <2>3. ~Before(page[n], c) /\ ~Before(c, page[n])
    BY <1>7, <2>1, <2>2, Ranks
  <2> QED
    BY <2>1, <2>3, BeforeLinear
<1>8. page = <<>> => R = {}
  <2> HAVE page = <<>>
  <2>1. Cardinality(R) = 0
    BY <1>2, <1>6
  <2> QED
    BY <2>1, FS_EmptySet
<1> QED
  BY <1>2, <1>4, <1>6, <1>7, <1>8

-----------------------------------------------------------------------------
(* The client that lists its courses                                       *)

Once(s, c)  == \E n \in DOMAIN s : s[n] = c /\ \A m \in DOMAIN s : s[m] = c => m = n
Never(s, c) == \A n \in DOMAIN s : s[n] # c

FewCourses == IsFiniteSet({c \in Course : courses[c] # None})

\* What did not change is listed once the cursor has passed it, and not before.
WalkInv ==
  walk # None =>
    /\ walk \in Walk
    /\ \A c \in walk.settled :
         /\ c \in Listable(walk.user, walk.roles)
         /\ IF AfterCursor(c) THEN Never(walk.listed, c) ELSE Once(walk.listed, c)
    /\ walk.done => \A c \in walk.settled : ~AfterCursor(c)

\* A step of another call that changes no course the client relies on.
LEMMA WalkKept ==
  ASSUME IInv, IInv', Stays, WalkInv, walk # None,
         walk' = walk \/ \E e : walk' = [walk EXCEPT !.settled = @ \ {e}],
         \A c \in walk'.settled : courses'[c] = courses[c]
  PROVE  WalkInv'
<1>1. /\ walk' \in Walk /\ walk'.settled \subseteq walk.settled
      /\ walk'.user = walk.user /\ walk'.roles = walk.roles /\ walk'.done = walk.done
      /\ walk'.lastName = walk.lastName /\ walk'.lastID = walk.lastID
      /\ walk'.listed = walk.listed
  BY DEF WalkInv, Walk
<1>2. walk.user \in User /\ walk.settled \subseteq Course
  BY DEF WalkInv, Walk
<1>3. ASSUME NEW c \in walk'.settled
      PROVE  /\ AfterCursor(c)' <=> AfterCursor(c)
             /\ c \in Listable(walk.user, walk.roles)'
  <2>1. c \in walk.settled /\ c \in Course /\ courses'[c] = courses[c]
    BY <1>1, <1>2
  <2>2. Live(c) /\ IsMember(c, walk.user) /\ members[c][walk.user].role \in walk.roles
    BY <2>1 DEF WalkInv, Listable
  <2>3. members'[c][walk.user] = members[c][walk.user]
    BY <1>2, <2>1, <2>2 DEF Stays, IsMember
  <2>4. Live(c)' /\ IsMember(c, walk.user)'
    BY <2>1, <2>2, <2>3, <1>1 DEF Live, IsMember
  <2>5. c \in Listable(walk.user, walk.roles)'
    BY <1>1, <2>1, <2>2, <2>3, <2>4 DEF Listable, IsMember
  <2>6. AfterCursor(c)' <=> AfterCursor(c)
    BY <1>1, <2>1 DEF AfterCursor
  <2> QED
    BY <2>5, <2>6
<1> QED
  BY <1>1, <1>3 DEF WalkInv

\* The client begins: everything it may list comes after the nil UUID.
LEMMA StartWalkInv ==
  ASSUME IInv, NEW u \in User, NEW roles \in SUBSET Role, StartWalk(u, roles)
  PROVE  WalkInv'
<1> DEFINE S == Listable(u, roles)
           w == [user |-> u, roles |-> roles, lastName |-> 0, lastID |-> 0,
                 listed |-> <<>>, settled |-> S, done |-> FALSE]
<1>1. walk' = w /\ UNCHANGED <<courses, members>>
  BY DEF StartWalk, access
<1>2. S \subseteq Course
  BY DEF Listable
<1>3. w \in Walk
  BY <1>2 DEF Walk
<1>4. \A c \in S : courses[c].name \in Nat /\ c \in Nat \ {0}
  BY OrderedIds DEF IInv, Typed, CourseRow, Listable, Live
<1>5. \A c \in S : AfterCursor(c)'
  BY <1>1, <1>4 DEF AfterCursor
<1>6. /\ w.user = u /\ w.roles = roles /\ w.settled = S /\ w.listed = <<>>
      /\ ~w.done
  OBVIOUS
<1>7. walk' \in Walk /\ walk'.settled = S /\ ~walk'.done
  BY <1>1, <1>3, <1>6
<1>8. \A c \in S : c \in Listable(walk.user, walk.roles)'
  BY <1>1, <1>6 DEF Listable, Live, IsMember
<1>9. \A c \in S : Never(walk'.listed, c)
  <2>1. walk'.listed = <<>>
    BY <1>1, <1>6
  <2> QED
    BY <2>1 DEF Never
<1> HIDE DEF w, S
<1> QED
  BY <1>5, <1>7, <1>8, <1>9 DEF WalkInv

\* A course is listed where the page has it, or where it was before.
LEMMA ListedNext ==
  ASSUME NEW s \in Seq(Course), NEW page \in Seq(Course), NEW c, Never(s, c)
  PROVE  /\ Never(page, c) => Never(s \o page, c)
         /\ Once(page, c) => Once(s \o page, c)
<1>1. /\ Len(s) \in Nat /\ Len(page) \in Nat /\ Len(s \o page) = Len(s) + Len(page)
      /\ DOMAIN s = 1..Len(s) /\ DOMAIN page = 1..Len(page)
      /\ DOMAIN (s \o page) = 1..Len(s) + Len(page)
  BY ConcatProperties
<1>2. \A n \in 1..Len(s) + Len(page) :
        (s \o page)[n] = IF n <= Len(s) THEN s[n] ELSE page[n - Len(s)]
  BY ConcatProperties
<1>3. \A n \in 1..Len(s) + Len(page) : (s \o page)[n] = c =>
        n - Len(s) \in 1..Len(page) /\ page[n - Len(s)] = c
  BY <1>1, <1>2 DEF Never
<1>4. Never(page, c) => Never(s \o page, c)
  BY <1>1, <1>3 DEF Never
<1>5. ASSUME Once(page, c)
      PROVE  Once(s \o page, c)
  <2>1. PICK n \in 1..Len(page) : page[n] = c /\ \A m \in 1..Len(page) : page[m] = c => m = n
    BY <1>1, <1>5 DEF Once
  <2>2. n + Len(s) \in 1..Len(s) + Len(page) /\ (s \o page)[n + Len(s)] = c
    BY <1>1, <1>2, <2>1
  <2>3. \A m \in 1..Len(s) + Len(page) : (s \o page)[m] = c => m = n + Len(s)
    BY <1>1, <1>3, <2>1
  <2> QED
    BY <1>1, <2>2, <2>3 DEF Once
<1> QED
  BY <1>4, <1>5

\* A course that was listed is not listed again by a page without it.
LEMMA ListedBefore ==
  ASSUME NEW s \in Seq(Course), NEW page \in Seq(Course), NEW c,
         Once(s, c), Never(page, c)
  PROVE  Once(s \o page, c)
<1>1. /\ Len(s) \in Nat /\ Len(page) \in Nat
      /\ DOMAIN s = 1..Len(s) /\ DOMAIN page = 1..Len(page)
      /\ DOMAIN (s \o page) = 1..Len(s) + Len(page)
  BY ConcatProperties
<1>2. \A n \in 1..Len(s) + Len(page) :
        (s \o page)[n] = IF n <= Len(s) THEN s[n] ELSE page[n - Len(s)]
  BY ConcatProperties
<1>3. PICK n \in 1..Len(s) : s[n] = c /\ \A m \in 1..Len(s) : s[m] = c => m = n
  BY <1>1 DEF Once
<1>4. n \in 1..Len(s) + Len(page) /\ (s \o page)[n] = c
  BY <1>1, <1>2, <1>3
<1>5. ASSUME NEW m \in 1..Len(s) + Len(page), (s \o page)[m] = c
      PROVE  m = n
  <2>1. ~(m <= Len(s)) => m - Len(s) \in 1..Len(page) /\ page[m - Len(s)] = c
    BY <1>1, <1>2, <1>5
  <2>2. m <= Len(s) => m \in 1..Len(s) /\ s[m] = c
    BY <1>1, <1>2, <1>5
  <2> QED
    BY <1>1, <1>3, <2>1, <2>2 DEF Never
<1> QED
  BY <1>1, <1>4, <1>5 DEF Once

\* The next page lists, once, what the cursor passes.
LEMMA NextPageInv ==
  ASSUME IInv, WalkInv, FewCourses, GetPaginatedCourses
  PROVE  WalkInv'
<1> DEFINE R == {c \in Listable(walk.user, walk.roles) : AfterCursor(c)}
<1>1. PICK page : page = Page(R)
  OBVIOUS
<1>2. PICK last : last = page[Len(page)]
  OBVIOUS
<1>3. walk # None /\ walk \in Walk /\ UNCHANGED <<courses, members>>
  BY DEF WalkInv, GetPaginatedCourses, access
<1>4. /\ walk'.user = walk.user /\ walk'.roles = walk.roles
      /\ walk'.settled = walk.settled
      /\ walk'.listed = walk.listed \o page
      /\ walk'.lastName = (IF page = <<>> THEN walk.lastName ELSE courses[last].name)
      /\ walk'.lastID = (IF page = <<>> THEN walk.lastID ELSE last)
      /\ walk'.done = (Len(page) < PageSize)
  BY <1>1, <1>2, <1>3 DEF GetPaginatedCourses, Walk
<1>5. walk' = [user |-> walk'.user, roles |-> walk'.roles, lastName |-> walk'.lastName,
               lastID |-> walk'.lastID, listed |-> walk'.listed,
               settled |-> walk'.settled, done |-> walk'.done]
  BY <1>1, <1>2, <1>3 DEF GetPaginatedCourses, Walk
<1>6. R \subseteq Course /\ Named(R) /\ \A c \in R : AfterCursor(c)
  BY OrderedIds DEF IInv, Typed, CourseRow, Listable, Live, Named
<1>7. IsFiniteSet(R)
  <2>1. R \in SUBSET {c \in Course : courses[c] # None}
    BY DEF Listable, Live
  <2> QED
    BY <2>1, FS_Subset DEF FewCourses
<1>8. \A c \in walk.settled : c \in Listable(walk.user, walk.roles) /\ c \in Course
      /\ c \in Nat /\ courses[c].name \in Nat
  <2> TAKE c \in walk.settled
  <2>1. c \in Listable(walk.user, walk.roles)
    BY <1>3 DEF WalkInv
  <2>2. c \in Course /\ courses[c] \in CourseRow
    BY <2>1 DEF IInv, Typed, Listable, Live
  <2> QED
    BY <2>1, <2>2, OrderedIds DEF CourseRow
<1>9. \A c \in walk.settled : AfterCursor(c) => c \in R
  BY <1>8
<1> HIDE DEF R
<1>10. /\ page \in Seq(R) /\ Len(page) \in Nat /\ Len(page) <= Cardinality(R)
       /\ Len(page) < PageSize => Len(page) = Cardinality(R)
       /\ page = <<>> => R = {}
       /\ \A n \in 1..Len(page) : Rank(R, page[n]) = n
       /\ \A c \in R, n \in 1..Len(page) : Rank(R, c) = n => page[n] = c
  BY <1>1, <1>6, <1>7, PageLists
<1>11. /\ Cardinality(R) \in Nat
       /\ \A c \in R : Rank(R, c) \in 1..Cardinality(R)
       /\ \A b, c \in R : Before(b, c) => Rank(R, b) < Rank(R, c)
  BY <1>6, <1>7, Ranks
<1>12. page # <<>> => last \in R /\ Rank(R, last) = Len(page) /\ Len(page) \in 1..Len(page)
  BY <1>2, <1>10
<1>13. walk' \in Walk
  <2>1. walk.listed \o page \in Seq(Course)
    BY <1>3, <1>6, <1>10 DEF Walk
  <2>2. page # <<>> => last \in Nat /\ courses[last].name \in Nat
    BY <1>6, <1>12 DEF Named
  <2>3. /\ walk.user \in User /\ walk.roles \in SUBSET Role
        /\ walk.lastName \in Nat /\ walk.lastID \in Nat
        /\ walk.settled \in SUBSET Course
    BY <1>3 DEF Walk
  <2>4. walk'.lastName \in Nat /\ walk'.lastID \in Nat
    BY <1>4, <2>2, <2>3
  <2>5. walk'.done \in BOOLEAN
    BY <1>4
  <2>6. /\ walk'.user \in User /\ walk'.roles \in SUBSET Role
        /\ walk'.settled \in SUBSET Course /\ walk'.listed \in Seq(Course)
    BY <1>4, <2>1, <2>3
  <2> QED
    BY <1>5, <2>4, <2>5, <2>6 DEF Walk
\* What is left to list comes after the new cursor if it is not on the page.
<1>14. ASSUME NEW c \in R
       PROVE  AfterCursor(c)' <=> Rank(R, c) > Len(page)
  <2>1. page # <<>>
    BY <1>10
  <2>2. courses'[c] = courses[c] /\ walk'.lastName = courses[last].name /\ walk'.lastID = last
    BY <1>3, <1>4, <2>1
  <2>3. AfterCursor(c)' <=> Before(last, c)
    <3>1. last \in Nat /\ c \in Nat /\ courses[last].name \in Nat /\ courses[c].name \in Nat
      BY <1>6, <1>12, <2>1 DEF Named
    <3> QED
      BY <2>2, <3>1 DEF AfterCursor, Before
  <2>4. Before(last, c) <=> Rank(R, last) < Rank(R, c)
    <3>1. last \in R
      BY <1>12, <2>1
    <3>2. last = c \/ Before(last, c) \/ Before(c, last)
      BY <1>6, <3>1, BeforeLinear
    <3>3. Rank(R, last) \in Int /\ Rank(R, c) \in Int
      BY <1>11, <3>1
    <3> QED
      BY <1>11, <3>1, <3>2, <3>3
  <2> QED
    BY <1>12, <2>1, <2>3, <2>4
<1>15. ASSUME NEW c \in R
       PROVE  IF AfterCursor(c)' THEN Never(page, c) ELSE Once(page, c)
  <2>1. DOMAIN page = 1..Len(page)
    BY <1>10
  <2>2. Rank(R, c) \in 1..Cardinality(R)
    BY <1>11
  <2>3. CASE AfterCursor(c)'
    BY <1>10, <1>14, <2>1, <2>2, <2>3 DEF Never
  <2>4. CASE ~AfterCursor(c)'
    <3>1. Rank(R, c) \in 1..Len(page)
      BY <1>10, <1>11, <1>14, <2>2, <2>4
    <3> QED
      BY <1>10, <2>1, <2>4, <3>1 DEF Once
  <2> QED
    BY <2>3, <2>4
\* What the cursor passed before is not on the page, and stays passed.
<1>16. ASSUME NEW c \in walk.settled, ~AfterCursor(c)
       PROVE  ~AfterCursor(c)' /\ Never(page, c)
  <2>1. Never(page, c)
    <3>1. \A n \in DOMAIN page : page[n] \in R
      BY <1>10
    <3> QED
      BY <1>6, <1>16, <3>1 DEF Never
  <2>2. courses'[c] = courses[c] /\ c \in Nat /\ courses[c].name \in Nat
    BY <1>3, <1>8
  <2>3. CASE page = <<>>
    BY <1>4, <1>16, <2>1, <2>2, <2>3 DEF AfterCursor
  <2>4. CASE page # <<>>
    <3>1. AfterCursor(last) /\ last \in Nat /\ courses[last].name \in Nat
      BY <1>6, <1>12, <2>4 DEF Named
    <3>2. walk.lastName \in Nat /\ walk.lastID \in Nat
      BY <1>3 DEF Walk
    <3>3. walk'.lastName = courses[last].name /\ walk'.lastID = last
      BY <1>4, <2>4
    <3> QED
      BY <1>16, <2>1, <2>2, <3>1, <3>2, <3>3 DEF AfterCursor
  <2> QED
    BY <2>3, <2>4
<1>17. walk.listed \in Seq(Course) /\ page \in Seq(Course)
  BY <1>3, <1>6, <1>10 DEF Walk
<1>18. ASSUME NEW c \in walk.settled
       PROVE  IF AfterCursor(c)' THEN Never(walk'.listed, c) ELSE Once(walk'.listed, c)
  <2>1. CASE AfterCursor(c)
    <3>1. c \in R /\ Never(walk.listed, c)
      BY <1>3, <1>9, <2>1 DEF WalkInv
    <3> QED
      BY <1>4, <1>15, <1>17, <3>1, ListedNext
  <2>2. CASE ~AfterCursor(c)
    <3>1. Once(walk.listed, c)
      BY <1>3, <2>2 DEF WalkInv
    <3> QED
      BY <1>4, <1>16, <1>17, <2>2, <3>1, ListedBefore
  <2> QED
    BY <2>1, <2>2
<1>19. walk'.done => \A c \in walk.settled : ~AfterCursor(c)'
  <2> SUFFICES ASSUME walk'.done, NEW c \in walk.settled PROVE ~AfterCursor(c)'
    OBVIOUS
  <2>1. CASE c \in R
    <3>1. Len(page) = Cardinality(R)
      BY <1>4, <1>10
    <3> QED
      BY <1>11, <1>14, <2>1, <3>1
  <2>2. CASE c \notin R
    BY <1>9, <1>16, <2>2
  <2> QED
    BY <2>1, <2>2
<1>20. Listable(walk.user, walk.roles)' = Listable(walk.user, walk.roles)
  BY <1>3, <1>4 DEF Listable, Live, IsMember
<1>21. \A c \in walk.settled : c \in Listable(walk.user, walk.roles)'
  BY <1>8, <1>20
<1> QED
  BY <1>4, <1>13, <1>18, <1>19, <1>21 DEF WalkInv

\* Courses are created one at a time, so there are only ever finitely many.
LEMMA FewCoursesKept ==
  ASSUME FewCourses, NEW c,
         \A e \in Course : courses'[e] # None => courses[e] # None \/ e = c
  PROVE  FewCourses'
<1>1. IsFiniteSet({e \in Course : courses[e] # None} \cup {c})
  BY FS_AddElement DEF FewCourses
<1>2. {e \in Course : courses'[e] # None} \in SUBSET ({e \in Course : courses[e] # None} \cup {c})
  OBVIOUS
<1> QED
  BY <1>1, <1>2, FS_Subset DEF FewCourses

\* A call that changes at most one course takes it from those the client
\* relies on; the others it leaves as they are.
LEMMA CallsWalkInv ==
  ASSUME IInv, IInv', Stays, WalkInv, FewCourses, NEW c, courses[c] # None,
         \A e \in Course \ {c} : courses'[e] = courses[e],
         (courses' = courses /\ walk' = walk) \/ Unsettled(c)
  PROVE  WalkInv' /\ FewCourses'
<1>1. FewCourses'
  BY FewCoursesKept
<1>2. CASE walk = None
  BY <1>1, <1>2 DEF Unsettled, WalkInv
<1>3. CASE walk # None
  <2>1. walk' = walk \/ \E e : walk' = [walk EXCEPT !.settled = @ \ {e}]
    BY <1>3 DEF Unsettled
  <2>2. walk.settled \subseteq Course /\ walk \in Walk
    BY <1>3 DEF WalkInv, Walk
  <2>3. \A e \in walk'.settled : courses'[e] = courses[e]
    <3>1. CASE courses' = courses
      BY <3>1
    <3>2. CASE Unsettled(c)
      <4>1. walk'.settled = walk.settled \ {c}
        BY <1>3, <2>2, <3>2 DEF Unsettled, Walk
      <4> QED
        BY <2>2, <4>1
    <3> QED
      BY <3>1, <3>2
  <2> QED
    BY <1>1, <1>3, <2>1, <2>3, WalkKept
<1> QED
  BY <1>2, <1>3

\* Every step keeps what the client relies on.
LEMMA StepWalkInv ==
  ASSUME IInv, WalkInv, FewCourses, [Next]_vars
  PROVE  WalkInv' /\ FewCourses'
<1>1. IInv' /\ Stays
  BY StepIInv
\* The new course was not there when the client began.
<1>2. ASSUME NEW u \in User, NEW c \in Course, NEW d \in Discipline, NEW n \in Name,
             CreateCourse(u, c, d, n)
      PROVE  WalkInv' /\ FewCourses'
  <2>1. courses[c] = None /\ walk' = walk /\ \A e \in Course \ {c} : courses'[e] = courses[e]
    BY <1>2 DEF IInv, Typed, CreateCourse
  <2>2. FewCourses'
    BY <2>1, FewCoursesKept
  <2>3. CASE walk = None
    BY <2>1, <2>2, <2>3 DEF WalkInv
  <2>4. CASE walk # None
    <3>1. \A e \in walk.settled : e \in Course /\ courses[e] # None
      BY <2>4 DEF WalkInv, Listable, Live
    <3> QED
      BY <1>1, <2>1, <2>2, <2>4, <3>1, WalkKept
  <2> QED
    BY <2>3, <2>4
<1>3. ASSUME NEW k \in Call,
             (\E n \in Name : UpdateCourseByID(k, n)) \/ DeleteCourseByID(k)
      PROVE  WalkInv' /\ FewCourses'
  <2>1. PICK c : c = calls[k].course
    OBVIOUS
  <2>2. courses[c] # None /\ Unsettled(c)
    BY <1>3, <2>1 DEF UpdateCourseByID, DeleteCourseByID, Live
  <2>3. \A e \in Course \ {c} : courses'[e] = courses[e]
    BY <1>3, <2>1 DEF IInv, Typed, UpdateCourseByID, DeleteCourseByID
  <2> QED
    BY <1>1, <2>2, <2>3, CallsWalkInv
<1>4. ASSUME UNCHANGED <<courses, walk>>
      PROVE  WalkInv' /\ FewCourses'
  <2>1. FewCourses'
    BY <1>4 DEF FewCourses
  <2>2. CASE walk = None
    BY <1>4, <2>1, <2>2 DEF WalkInv
  <2>3. CASE walk # None
    BY <1>1, <1>4, <2>1, <2>3, WalkKept
  <2> QED
    BY <2>2, <2>3
<1>5. ASSUME NEW k \in Call,
             \/ \E u \in User, c \in Course :
                  \/ \E op \in TeacherOp : RequireTeacher(k, u, c, op)
                  \/ AssertMember(k, u, c)
             \/ \E u \in User, i \in Invite : GetInviteByID(k, u, i)
             \/ EditCourse(k)
             \/ \E i \in Invite, role \in Role : CreateInvite(k, i, role)
             \/ NotYetMember(k)
             \/ EnrollUserByInvite(k)
             \/ EnsureRepo(k)
             \/ CallEnds(k)
      PROVE  UNCHANGED <<courses, walk>>
  BY <1>5 DEF RequireTeacher, AssertMember, GetInviteByID, EditCourse, CreateInvite,
              NotYetMember, EnrollUserByInvite, EnsureRepo, CallEnds
<1>6. CASE (\E i \in Invite : ExpireInvite(i)) \/ UNCHANGED vars
  BY <1>4, <1>6 DEF ExpireInvite, vars
<1>7. CASE \E u \in User, roles \in SUBSET Role : StartWalk(u, roles)
  <2>1. FewCourses'
    BY <1>7 DEF StartWalk, FewCourses
  <2> QED
    BY <1>7, <2>1, StartWalkInv
<1>8. CASE GetPaginatedCourses
  <2>1. FewCourses'
    BY <1>8 DEF GetPaginatedCourses, FewCourses
  <2> QED
    BY <1>8, <2>1, NextPageInv
<1> QED
  BY <1>2, <1>3, <1>4, <1>5, <1>6, <1>7, <1>8 DEF Next

\* A client that pages to the end was sent each course it could rely on once:
\* PagesGapless.
THEOREM PagesComplete == Spec => []PagesGapless
<1>1. Init => WalkInv /\ FewCourses
  <2> SUFFICES ASSUME Init PROVE WalkInv /\ FewCourses
    OBVIOUS
  <2>1. {c \in Course : courses[c] # None} = {}
    BY DEF Init
  <2> QED
    BY <2>1, FS_EmptySet DEF Init, WalkInv, FewCourses
<1>2. IInv /\ WalkInv => PagesGapless
  <2> SUFFICES ASSUME WalkInv, walk # None, walk.done, NEW c \in walk.settled
               PROVE  Cardinality({n \in DOMAIN walk.listed : walk.listed[n] = c}) = 1
    BY DEF PagesGapless
  <2>1. PICK n \in DOMAIN walk.listed :
          /\ walk.listed[n] = c
          /\ \A m \in DOMAIN walk.listed : walk.listed[m] = c => m = n
    BY DEF WalkInv, Once
  <2>2. {m \in DOMAIN walk.listed : walk.listed[m] = c} = {n}
    BY <2>1
  <2> QED
    BY <2>2, FS_Singleton
<1> QED
  BY <1>1, <1>2, Invariance, StepWalkInv, PTL DEF Spec

===============================================================================
