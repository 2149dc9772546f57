---------------------------- MODULE Organization ----------------------------
(***************************************************************************)
(* The members and invitations of one organization under concurrent        *)
(* requests: who may change roles, the rule that an organization keeps an  *)
(* admin, and invitation links that are created, revoked and accepted.     *)
(*                                                                         *)
(* Sources: lib/organizations/service.go, lib/invitations/service.go,      *)
(* lib/api/members.go, lib/api/invitations.go, lib/api/authz.go.           *)
(*                                                                         *)
(* A query and an update are one action each.  A transaction reads what is *)
(* committed when it reads (READ COMMITTED) and its writes appear when it  *)
(* commits; a row it has updated makes other updates of it wait.           *)
(***************************************************************************)
EXTENDS Integers, FiniteSets

CONSTANTS
  Users,      \* people with an account
  Roles,      \* the roles a member may have
  Emails,     \* addresses that are invited
  Invites,    \* invitation rows; a link is known by its row
  Requests,   \* requests in flight at the same time
  MaxRows     \* bound: membership rows created per user

ASSUME OrganizationAssumption ==
  /\ "admin" \in Roles /\ "none" \notin Roles
  /\ MaxRows \in Nat \ {0}

VARIABLES
  member,    \* user -> the membership row: [id, role], role "none" without one
  invite,    \* invitations: [status, email, role]
  expired,   \* invitations past expires_at
  req,       \* request -> where it is and what it has read
  seen,      \* invitation -> the invitations that existed when its creation
             \* superseded the older ones (history)
  spent,     \* invitations that have been accepted, revoked or superseded (history)
  reused,    \* invitations that let in somebody who opened them when they were
             \* spent (history)
  orphan     \* how the organization first lost its last admin: "never", or by a
             \* request that had seen another admin or had not (history)

history == <<seen, spent, reused, orphan>>
vars == <<member, invite, expired, req, history>>

Idle == [pc |-> "idle"]
Admins == {u \in Users : member[u].role = "admin"}
To(r, q) == req' = [req EXCEPT ![r] = q]

\* resolveAdmin: the role is read once, before what the request does.
ResolveAdmin(r, u) ==
  /\ req[r] = Idle /\ u \in Admins
  /\ To(r, [pc |-> "admin"])
  /\ UNCHANGED <<member, invite, expired, history>>

-----------------------------------------------------------------------------
(* Changing and removing members *)

\* The change takes the admin role away.
TakesAdmin(old, new) == old = "admin" /\ new # "admin"

\* SetMemberRole, or RemoveMember (role "none"): read the target's membership;
\* the write goes to the row found here.
ReadTarget(r, target, role) ==
  /\ req[r].pc = "admin"
  /\ LET m == member[target] IN
     To(r, IF m.role \in {"none", role} THEN Idle
           ELSE [pc |-> IF TakesAdmin(m.role, role) THEN "count" ELSE "write",
                 target |-> target, role |-> role, id |-> m.id,
                 another |-> Admins # {target} /\ Admins # {}])
  /\ UNCHANGED <<member, invite, expired, history>>

\* Mutant: the target itself is enough.
LastAdmin_Zero == Cardinality(Admins) <= 0

\* ErrLastAdmin.
LastAdmin == Cardinality(Admins) <= 1

CountAdmins(r) ==
  /\ req[r].pc = "count"
  /\ To(r, IF LastAdmin THEN Idle
           ELSE [req[r] EXCEPT !.pc = "write", !.another = Admins # {req[r].target}])
  /\ UNCHANGED <<member, invite, expired, history>>

\* UpdateOneID or DeleteOneID; an error when the row is gone.
Write(r) ==
  /\ req[r].pc = "write"
  /\ LET q == req[r]
         m == member[q.target]
         found == m.role # "none" /\ m.id = q.id
     IN  /\ member' = IF found THEN [member EXCEPT ![q.target].role = q.role] ELSE member
  /\ orphan' = IF orphan # "never" \/ Admins' # {} THEN orphan
               ELSE IF req[r].another THEN "overlap" ELSE "alone"
  /\ To(r, Idle)
  /\ UNCHANGED <<invite, expired, seen, spent, reused>>

-----------------------------------------------------------------------------
(* Creating and revoking invitations *)

\* An open transaction has updated the invitation.
Locked(i) == \E r \in Requests : req[r].pc = "insert" /\ i \in req[r].superseded

\* Mutant: the links that were accepted, not the live ones.
Superseded_Accepted(email) ==
  {i \in Invites : invite[i].email = email /\ invite[i].status = "accepted"}

\* The live invitations for the address.
Superseded(email) == {i \in Invites : invite[i].email = email /\ invite[i].status = "pending"}

\* Create: the transaction's first statement.
Supersede(r, email, role) ==
  /\ req[r].pc = "admin"
  /\ \A i \in Superseded(email) : ~ Locked(i)
  /\ To(r, [pc |-> "insert", email |-> email, role |-> role,
            superseded |-> Superseded(email),
            seen |-> {i \in Invites : invite[i].status # "none"}])
  /\ UNCHANGED <<member, invite, expired, history>>

WithSuperseded(S) ==
  [j \in Invites |-> IF j \in S THEN [invite[j] EXCEPT !.status = "revoked"] ELSE invite[j]]

\* Create: the new invitation, and commit.
Insert(r, i) ==
  /\ req[r].pc = "insert" /\ invite[i].status = "none"
  /\ LET q == req[r] IN
     /\ invite' = [WithSuperseded(q.superseded) EXCEPT
                     ![i] = [status |-> "pending", email |-> q.email, role |-> q.role]]
     /\ seen' = [seen EXCEPT ![i] = q.seen]
     /\ spent' = spent \cup q.superseded
  /\ To(r, Idle)
  /\ UNCHANGED <<member, expired, reused, orphan>>

Revocable(i) == invite[i].status = "pending"

\* RevokeInvitation: one conditional update.
Revoke(r, i) ==
  /\ req[r].pc = "admin" /\ ~ Locked(i)
  /\ \/ /\ Revocable(i)
        /\ invite' = [invite EXCEPT ![i].status = "revoked"]
        /\ spent' = spent \cup {i}
     \/ ~ Revocable(i) /\ UNCHANGED <<invite, spent>>
  /\ To(r, Idle)
  /\ UNCHANGED <<member, expired, seen, reused, orphan>>

Expire(i) ==
  /\ invite[i].status # "none"
  /\ expired' = expired \cup {i}
  /\ UNCHANGED <<member, invite, req, history>>

-----------------------------------------------------------------------------
(* Accepting an invitation *)

\* ErrNotPending, ErrExpired.
Usable(i) == invite[i].status = "pending" /\ i \notin expired

AcceptRead(r, u, i) ==
  /\ req[r] = Idle /\ Usable(i)
  /\ To(r, [pc |-> "exists", user |-> u, invite |-> i, late |-> i \in spent])
  /\ UNCHANGED <<member, invite, expired, history>>

\* Is the user a member already?
AcceptExists(r) ==
  /\ req[r].pc = "exists"
  /\ LET q == req[r] IN
     To(r, [pc |-> "commit", user |-> q.user, invite |-> q.invite, late |-> q.late,
            join |-> member[q.user].role = "none"])
  /\ UNCHANGED <<member, invite, expired, history>>

\* Create the membership, mark the invitation accepted, commit.
AcceptCommit(r) ==
  /\ req[r].pc = "commit"
  /\ LET q == req[r]
         u == q.user
         i == q.invite
     IN /\ ~ Locked(i)
        /\ q.join => member[u].role = "none" /\ member[u].id < MaxRows
        /\ member' = IF q.join
             THEN [member EXCEPT ![u] = [id |-> @.id + 1, role |-> invite[i].role]]
             ELSE member
        /\ invite' = [invite EXCEPT ![i].status = "accepted"]
        /\ reused' = IF q.late THEN reused \cup {i} ELSE reused
        /\ spent' = spent \cup {i}
  /\ To(r, Idle)
  /\ UNCHANGED <<expired, seen, orphan>>

\* The unique index on user and organization: somebody else's accept for the
\* same user committed first, and this one is rolled back.
AcceptConflict(r) ==
  /\ req[r].pc = "commit" /\ req[r].join /\ member[req[r].user].role # "none"
  /\ To(r, Idle)
  /\ UNCHANGED <<member, invite, expired, history>>

-----------------------------------------------------------------------------
(* Specification *)

\* Any organization that has an admin, as organizations.Create makes one.
Init ==
  /\ member \in [Users -> [id : {0}, role : Roles \cup {"none"}]]
  /\ \E u \in Users : member[u].role = "admin"
  /\ invite \in [Invites -> [status : {"none"}, email : {"none"}, role : {"none"}]]
  /\ expired = {}
  /\ req = [r \in Requests |-> Idle]
  /\ seen = [i \in Invites |-> {}]
  /\ spent = {}
  /\ reused = {}
  /\ orphan = "never"

Members(r) ==
  \/ \E u \in Users : ResolveAdmin(r, u)
  \/ \E u \in Users, role \in Roles \cup {"none"} : ReadTarget(r, u, role)
  \/ CountAdmins(r) \/ Write(r)

Invitations(r) ==
  \/ \E email \in Emails, role \in Roles : Supersede(r, email, role)
  \/ \E i \in Invites : Insert(r, i) \/ Revoke(r, i)

Accepts(r) ==
  \/ \E u \in Users, i \in Invites : AcceptRead(r, u, i)
  \/ AcceptExists(r) \/ AcceptCommit(r) \/ AcceptConflict(r)

Next ==
  \/ \E r \in Requests : Members(r) \/ Invitations(r) \/ Accepts(r)
  \/ \E i \in Invites : Expire(i)

Spec == Init /\ [][Next]_vars

-----------------------------------------------------------------------------
(* Properties *)

InviteRows == [status : {"none", "pending", "revoked", "accepted"},
               email : Emails \cup {"none"}, role : Roles \cup {"none"}]

WriteRequest == [pc : {"count", "write"}, target : Users, role : Roles \cup {"none"},
                 id : Nat, another : BOOLEAN]
InsertRequest == [pc : {"insert"}, email : Emails, role : Roles,
                  superseded : SUBSET Invites, seen : SUBSET Invites]
ExistsRequest == [pc : {"exists"}, user : Users, invite : Invites, late : BOOLEAN]
CommitRequest == [pc : {"commit"}, user : Users, invite : Invites, late : BOOLEAN,
                  join : BOOLEAN]

\* Rows and requests are in states the code knows.
TypeOK ==
  /\ member \in [Users -> [id : 0 .. MaxRows, role : Roles \cup {"none"}]]
  /\ invite \in [Invites -> InviteRows]
  /\ expired \subseteq Invites /\ spent \subseteq Invites
  /\ req \in [Requests -> [pc : {"idle", "admin"}] \cup WriteRequest \cup InsertRequest
                \cup ExistsRequest \cup CommitRequest]
  /\ seen \in [Invites -> SUBSET Invites]
  /\ reused \subseteq Invites
  /\ orphan \in {"never", "overlap", "alone"}

\* An organization is left without an admin only when changes overlap: the
\* request whose write did it had seen another admin (SetMemberRole and
\* RemoveMember count before they write, in a query of its own).
OrphanedOnlyByOverlap == orphan # "alone" /\ (Admins = {} => orphan = "overlap")

\* Re-inviting leaves one live link: two links for an address are live only when
\* neither creation had seen the other (invitations.Create).
OnlyOverlappingInvitesCoexist ==
  \A i, j \in Invites :
    i # j /\ invite[i].status = "pending" /\ invite[j].status = "pending"
      /\ invite[i].email = invite[j].email => i \notin seen[j] /\ j \notin seen[i]

\* A link that has been used, revoked or superseded lets nobody in who opens it
\* afterwards, although a late accept may overwrite what happened to it.
SpentLinkAdmitsNobody == reused = {}

=============================================================================
