----------------------------- MODULE MCMembership -----------------------------
(* Membership on small instances.  Users, invites, calls and disciplines are *)
(* interchangeable; course ids and names are ordered.                        *)
EXTENDS Membership, TLC

Symmetry ==
  Permutations(User) \cup Permutations(Invite) \cup Permutations(Call)
    \cup Permutations(Discipline)

Created == {c \in Course : courses[c] # None}
Involved ==
  {u \in User : \/ \E c \in Course : IsMember(c, u)
                \/ \E k \in Call : calls[k] # None /\ calls[k].user = u
                \/ walk # None /\ walk.user = u}

Pending(ops) == {k \in Call : calls[k] # None /\ calls[k].op \in ops}

\* Three users join one course through two invites, at most one call at a time
\* does anything else; two courses have two users and one invite between them.
Joining ==
  /\ walk = None
  /\ Created \in {{}, {1}, {1, 2}}
  /\ Cardinality(Created) + Cardinality(Involved) <= 4
  /\ Cardinality(Created) + Cardinality({i \in Invite : invites[i] # None}) <= 3
  /\ \A c \in Created : courses[c].name = 1
  /\ Cardinality(Pending(Op \ {"join", "enroll"})) <= 1
  /\ Cardinality(authors) + Cardinality(repos) <= 1
  /\ Cardinality(expired) <= 1

\* Teachers list their courses while one at a time is created, renamed or
\* deleted.
Listing ==
  /\ invites = [i \in Invite |-> None]
  /\ authors = {} /\ repos = {}
  /\ walk = None \/ walk.roles = {"TEACHER"}
  /\ Cardinality(Created) + Cardinality(Involved) <= 4
  /\ Cardinality({k \in Call : calls[k] # None}) <= 1
  /\ \A k \in Call : calls[k] # None => calls[k].op \in {"update", "delete"}

Explored == Joining \/ Listing
===============================================================================
