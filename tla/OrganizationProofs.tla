------------------------- MODULE OrganizationProofs -------------------------
(***************************************************************************)
(* Theorems about Organization, for any number of people, invitations and  *)
(* concurrent requests, and about the Tekton installation of the           *)
(* organization's runner cluster, for any number of requests and pages.    *)
(***************************************************************************)
EXTENDS Organization, Sequences, FiniteSetTheorems, TLAPS

-----------------------------------------------------------------------------
(* The inductive invariant *)

\* The organization's first loss of all admins: until then there is an admin,
\* and every request about to write has seen one besides its target.
AdminInv ==
  /\ orphan # "alone"
  /\ orphan = "never" =>
       Admins # {} /\ \A r \in Requests : req[r].pc = "write" => req[r].another

\* A creation that has superseded the live invitations holds them: they stay
\* live, and the others it has seen for the address stay dead.
InsertInv ==
  /\ \A r \in Requests : req[r].pc = "insert" =>
       /\ \A j \in req[r].superseded : invite[j].status = "pending"
       /\ \A j \in req[r].seen : invite[j].status # "none"
       /\ \A j \in req[r].seen \ req[r].superseded :
            invite[j].email = req[r].email => invite[j].status # "pending"
  /\ \A r, s \in Requests :
       r # s /\ req[r].pc = "insert" /\ req[s].pc = "insert" =>
         req[r].superseded \cap req[s].superseded = {}

\* A spent link is not live, and no accept under way has opened a spent one.
LinkInv ==
  /\ reused = {}
  /\ \A i \in spent : invite[i].status \notin {"none", "pending"}
  /\ \A r \in Requests : req[r].pc \in {"exists", "commit"} => ~ req[r].late

SeenInv ==
  /\ \A i \in Invites : \A j \in seen[i] : invite[j].status # "none"
  /\ OnlyOverlappingInvitesCoexist

IInv == TypeOK /\ AdminInv /\ InsertInv /\ LinkInv /\ SeenInv

-----------------------------------------------------------------------------
(* Type correctness *)

AnyRequest ==
  [pc : {"idle", "admin"}] \cup WriteRequest \cup InsertRequest
    \cup ExistsRequest \cup CommitRequest

\* The fields a request has depend on where it is.
LEMMA RequestShape ==
  ASSUME TypeOK, NEW r \in Requests
  PROVE  /\ req[r].pc \in {"count", "write"} => req[r] \in WriteRequest
         /\ req[r].pc = "insert" => req[r] \in InsertRequest
         /\ req[r].pc = "exists" => req[r] \in ExistsRequest
         /\ req[r].pc = "commit" => req[r] \in CommitRequest
<1>1. req[r] \in AnyRequest
  BY DEF TypeOK, AnyRequest
<1> QED
  BY <1>1 DEF AnyRequest, WriteRequest, InsertRequest, ExistsRequest, CommitRequest

\* A request may move to any request.
LEMMA ToType ==
  ASSUME TypeOK, NEW r \in Requests, NEW q \in AnyRequest, To(r, q)
  PROVE  req' \in [Requests -> AnyRequest]
BY DEF TypeOK, To, AnyRequest

LEMMA IdleType == Idle \in AnyRequest
BY DEF Idle, AnyRequest

\* Steps that only move a request keep the types of everything else.
LEMMA OnlyRequestType ==
  ASSUME TypeOK, req' \in [Requests -> AnyRequest], UNCHANGED <<member, invite, expired, history>>
  PROVE  TypeOK'
BY DEF TypeOK, history, AnyRequest

LEMMA TypeMembers ==
  ASSUME TypeOK, NEW r \in Requests, Members(r)
  PROVE  TypeOK'
<1>1. ASSUME NEW u \in Users, ResolveAdmin(r, u) PROVE TypeOK'
  <2>1. [pc |-> "admin"] \in AnyRequest
    BY DEF AnyRequest
  <2> QED
    BY <1>1, <2>1, ToType, OnlyRequestType DEF ResolveAdmin
<1>2. ASSUME NEW t \in Users, NEW role \in Roles \cup {"none"}, ReadTarget(r, t, role)
      PROVE  TypeOK'
  <2> DEFINE m == member[t]
             n == [pc |-> IF TakesAdmin(m.role, role) THEN "count" ELSE "write",
                   target |-> t, role |-> role, id |-> m.id,
                   another |-> Admins # {t} /\ Admins # {}]
  <2>2. m.id \in Nat
    BY OrganizationAssumption DEF TypeOK
  <2>3. n \in WriteRequest
    BY <2>2 DEF WriteRequest
  <2>4. n \in AnyRequest
    BY <2>3 DEF AnyRequest
  <2>5. To(r, Idle) \/ To(r, n)
    BY <1>2 DEF ReadTarget
  <2> HIDE DEF n
  <2> QED
    BY <1>2, <2>4, <2>5, IdleType, ToType, OnlyRequestType DEF ReadTarget
<1>3. CASE CountAdmins(r)
  <2> DEFINE n == [req[r] EXCEPT !.pc = "write", !.another = Admins # {req[r].target}]
  <2>1. req[r] \in WriteRequest
    BY <1>3, RequestShape DEF CountAdmins
  <2>2. n \in WriteRequest
    BY <2>1 DEF WriteRequest
  <2>3. n \in AnyRequest
    BY <2>2 DEF AnyRequest
  <2>4. To(r, Idle) \/ To(r, n)
    BY <1>3 DEF CountAdmins
  <2> HIDE DEF n
  <2> QED
    BY <1>3, <2>3, <2>4, IdleType, ToType, OnlyRequestType DEF CountAdmins
<1>4. CASE Write(r)
  <2>1. req[r] \in WriteRequest
    BY <1>4, RequestShape DEF Write
  <2>2. member' \in [Users -> [id : 0 .. MaxRows, role : Roles \cup {"none"}]]
    BY <1>4, <2>1 DEF Write, TypeOK, WriteRequest
  <2>3. req' \in [Requests -> AnyRequest]
    BY <1>4, IdleType, ToType DEF Write
  <2>4. orphan' \in {"never", "overlap", "alone"}
    BY <1>4 DEF Write, TypeOK
  <2> QED
    BY <1>4, <2>2, <2>3, <2>4 DEF Write, TypeOK, AnyRequest
<1> QED
  BY <1>1, <1>2, <1>3, <1>4 DEF Members

LEMMA TypeInvitations ==
  ASSUME TypeOK, NEW r \in Requests, Invitations(r)
  PROVE  TypeOK'
<1>1. ASSUME NEW email \in Emails, NEW role \in Roles, Supersede(r, email, role)
      PROVE  TypeOK'
  <2> DEFINE n == [pc |-> "insert", email |-> email, role |-> role,
                   superseded |-> Superseded(email),
                   seen |-> {i \in Invites : invite[i].status # "none"}]
  <2>1. n \in InsertRequest
    BY DEF InsertRequest, Superseded
  <2>2. n \in AnyRequest
    BY <2>1 DEF AnyRequest
  <2>3. To(r, n)
    BY <1>1 DEF Supersede
  <2> HIDE DEF n
  <2> QED
    BY <1>1, <2>2, <2>3, ToType, OnlyRequestType DEF Supersede
<1>2. ASSUME NEW i \in Invites, Insert(r, i) PROVE TypeOK'
  <2>1. req[r] \in InsertRequest
    BY <1>2, RequestShape DEF Insert, WithSuperseded
  <2>2. invite' \in [Invites -> InviteRows]
    <3>1. [status |-> "pending", email |-> req[r].email, role |-> req[r].role] \in InviteRows
      BY <2>1 DEF InsertRequest, InviteRows
    <3>2. \A j \in Invites : invite[j] \in InviteRows /\ [invite[j] EXCEPT !.status = "revoked"] \in InviteRows
      BY DEF TypeOK, InviteRows
    <3> QED
      BY <1>2, <3>1, <3>2 DEF Insert, WithSuperseded
  <2>3. seen' \in [Invites -> SUBSET Invites] /\ spent' \subseteq Invites
    BY <1>2, <2>1 DEF Insert, WithSuperseded, TypeOK, InsertRequest
  <2>4. req' \in [Requests -> AnyRequest]
    BY <1>2, IdleType, ToType DEF Insert, WithSuperseded
  <2> QED
    BY <1>2, <2>2, <2>3, <2>4 DEF Insert, WithSuperseded, TypeOK, AnyRequest
<1>4. ASSUME NEW i \in Invites, Revoke(r, i) PROVE TypeOK'
  <2>1. invite' \in [Invites -> InviteRows] /\ spent' \subseteq Invites
    BY <1>4 DEF Revoke, TypeOK, InviteRows
  <2>2. req' \in [Requests -> AnyRequest]
    BY <1>4, IdleType, ToType DEF Revoke
  <2> QED
    BY <1>4, <2>1, <2>2 DEF Revoke, TypeOK, AnyRequest
<1> QED
  BY <1>1, <1>2, <1>4 DEF Invitations

LEMMA TypeAccepts ==
  ASSUME TypeOK, NEW r \in Requests, Accepts(r)
  PROVE  TypeOK'
<1>1. ASSUME NEW u \in Users, NEW i \in Invites, AcceptRead(r, u, i) PROVE TypeOK'
  <2>1. [pc |-> "exists", user |-> u, invite |-> i, late |-> i \in spent] \in AnyRequest
    BY DEF AnyRequest, ExistsRequest
  <2> QED
    BY <1>1, <2>1, ToType, OnlyRequestType DEF AcceptRead
<1>2. CASE AcceptExists(r)
  <2> DEFINE q == req[r]
             n == [pc |-> "commit", user |-> q.user, invite |-> q.invite, late |-> q.late,
                   join |-> member[q.user].role = "none"]
  <2>1. q \in ExistsRequest
    BY <1>2, RequestShape DEF AcceptExists
  <2>2. n \in CommitRequest
    BY <2>1 DEF ExistsRequest, CommitRequest
  <2>3. n \in AnyRequest
    BY <2>2 DEF AnyRequest
  <2>4. To(r, n)
    BY <1>2 DEF AcceptExists
  <2> HIDE DEF n
  <2> QED
    BY <1>2, <2>3, <2>4, ToType, OnlyRequestType DEF AcceptExists
<1>3. CASE AcceptCommit(r)
  <2> DEFINE q == req[r]
  <2>1. q \in CommitRequest /\ q.user \in Users /\ q.invite \in Invites
    BY <1>3, RequestShape DEF AcceptCommit, CommitRequest
  <2>2. invite[q.invite] \in InviteRows /\ member[q.user].id \in 0 .. MaxRows
    BY <2>1 DEF TypeOK
  <2>3. member' \in [Users -> [id : 0 .. MaxRows, role : Roles \cup {"none"}]]
    <3>1. CASE ~ q.join
      BY <1>3, <3>1 DEF AcceptCommit, TypeOK
    <3>2. CASE q.join
      <4>1. [id |-> member[q.user].id + 1, role |-> invite[q.invite].role]
              \in [id : 0 .. MaxRows, role : Roles \cup {"none"}]
        BY <1>3, <2>2, <3>2, OrganizationAssumption DEF AcceptCommit, InviteRows
      <4>2. member' = [member EXCEPT ![q.user] =
                        [id |-> member[q.user].id + 1, role |-> invite[q.invite].role]]
        BY <1>3, <2>1, <3>2 DEF AcceptCommit, TypeOK
      <4> QED
        BY <2>1, <4>1, <4>2 DEF TypeOK
    <3> QED
      BY <3>1, <3>2
  <2>4. invite' \in [Invites -> InviteRows]
    BY <1>3, <2>1 DEF AcceptCommit, TypeOK, InviteRows
  <2>5. spent' \subseteq Invites /\ reused' \subseteq Invites
    BY <1>3, <2>1 DEF AcceptCommit, TypeOK
  <2>6. req' \in [Requests -> AnyRequest]
    BY <1>3, IdleType, ToType DEF AcceptCommit
  <2> QED
    BY <1>3, <2>3, <2>4, <2>5, <2>6 DEF AcceptCommit, TypeOK, AnyRequest
<1>4. CASE AcceptConflict(r)
  BY <1>4, IdleType, ToType, OnlyRequestType DEF AcceptConflict
<1> QED
  BY <1>1, <1>2, <1>3, <1>4 DEF Accepts

LEMMA TypeInit == Init => TypeOK
<1> SUFFICES ASSUME Init PROVE TypeOK
  OBVIOUS
<1>1. member \in [Users -> [id : 0 .. MaxRows, role : Roles \cup {"none"}]]
  BY OrganizationAssumption DEF Init
<1>2. invite \in [Invites -> InviteRows]
  BY DEF Init, InviteRows
<1>3. req \in [Requests -> [pc : {"idle", "admin"}] \cup WriteRequest \cup InsertRequest
                \cup ExistsRequest \cup CommitRequest]
  BY DEF Init, Idle
<1> QED
  BY <1>1, <1>2, <1>3 DEF Init, TypeOK

LEMMA TypeStep == TypeOK /\ [Next]_vars => TypeOK'
<1> SUFFICES ASSUME TypeOK, [Next]_vars PROVE TypeOK'
  OBVIOUS
<1>1. CASE UNCHANGED vars
  BY <1>1 DEF TypeOK, vars, history
<1>2. ASSUME NEW i \in Invites, Expire(i) PROVE TypeOK'
  BY <1>2 DEF Expire, TypeOK, history
<1> QED
  BY <1>1, <1>2, TypeMembers, TypeInvitations, TypeAccepts DEF Next

\* Type correctness of members and invitations.
THEOREM OrganizationTypeCorrect == Spec => []TypeOK
BY TypeInit, TypeStep, PTL DEF Spec

-----------------------------------------------------------------------------
(* The last admin *)

\* A step of a request that is not about to write afterwards, and leaves the
\* members alone.
LEMMA AdminFrame ==
  ASSUME AdminInv, member' = member, orphan' = orphan,
         \A r \in Requests : req'[r] = req[r] \/ req'[r].pc # "write"
  PROVE  AdminInv'
<1>1. Admins' = Admins
  BY DEF Admins
<1> QED
  BY <1>1 DEF AdminInv

LEMMA AdminMembers ==
  ASSUME TypeOK, AdminInv, NEW r \in Requests, Members(r)
  PROVE  AdminInv'
<1>1. ASSUME NEW u \in Users, ResolveAdmin(r, u) PROVE AdminInv'
  BY <1>1, AdminFrame DEF ResolveAdmin, To, TypeOK, history
<1>2. ASSUME NEW t \in Users, NEW role \in Roles \cup {"none"}, ReadTarget(r, t, role)
      PROVE  AdminInv'
  <2> DEFINE m == member[t]
  <2>2. /\ Admins' = Admins /\ orphan' = orphan
        /\ \A s \in Requests \ {r} : req'[s] = req[s]
    BY <1>2 DEF ReadTarget, To, TypeOK, Admins, history
  <2>3. req'[r].pc = "write" => m.role # "admin" /\ req'[r].another = (Admins # {t} /\ Admins # {})
    BY <1>2 DEF ReadTarget, To, TypeOK, TakesAdmin, Idle
  <2>4. req'[r].pc = "write" /\ orphan = "never" => req'[r].another
    <3>1. m.role # "admin" => t \notin Admins
      BY DEF Admins
    <3> QED
      BY <2>3, <3>1 DEF AdminInv
  <2> QED
    BY <2>2, <2>4 DEF AdminInv
<1>3. CASE CountAdmins(r)
  <2>1. req[r] \in WriteRequest /\ req[r].target \in Users
    BY <1>3, RequestShape DEF CountAdmins, WriteRequest
  <2>2. /\ Admins' = Admins /\ orphan' = orphan
        /\ \A s \in Requests \ {r} : req'[s] = req[s]
    BY <1>3 DEF CountAdmins, To, TypeOK, Admins, history
  <2>3. req'[r].pc = "write" => ~ LastAdmin /\ req'[r].another = (Admins # {req[r].target})
    BY <1>3, <2>1 DEF CountAdmins, To, TypeOK, Idle, WriteRequest
  <2>4. ~ LastAdmin => Admins # {req[r].target}
    <3>1. Cardinality({req[r].target}) = 1
      BY FS_Singleton
    <3>2. Admins = {req[r].target} => Cardinality(Admins) = 1
      BY <3>1, Zenon
    <3> QED
      BY <3>2 DEF LastAdmin
  <2> QED
    BY <2>2, <2>3, <2>4 DEF AdminInv
<1>4. CASE Write(r)
  <2>1. /\ req'[r].pc # "write" /\ \A s \in Requests \ {r} : req'[s] = req[s]
        /\ orphan' = IF orphan # "never" \/ Admins' # {} THEN orphan
                     ELSE IF req[r].another THEN "overlap" ELSE "alone"
        /\ req[r].pc = "write"
    BY <1>4 DEF Write, To, TypeOK, Idle
  <2> QED
    BY <2>1 DEF AdminInv
<1> QED
  BY <1>1, <1>2, <1>3, <1>4 DEF Members

LEMMA AdminInvitations ==
  ASSUME TypeOK, AdminInv, NEW r \in Requests, Invitations(r)
  PROVE  AdminInv'
<1>1. member' = member /\ orphan' = orphan
  BY DEF Invitations, Supersede, Insert, WithSuperseded, Revoke, history
<1>2. \A s \in Requests : req'[s] = req[s] \/ req'[s].pc # "write"
  BY DEF Invitations, Supersede, Insert, WithSuperseded, Revoke, To, TypeOK, Idle
<1> QED
  BY <1>1, <1>2, AdminFrame

LEMMA AdminAccepts ==
  ASSUME TypeOK, AdminInv, NEW r \in Requests, Accepts(r)
  PROVE  AdminInv'
<1>1. orphan' = orphan /\ \A s \in Requests : req'[s] = req[s] \/ req'[s].pc # "write"
  BY DEF Accepts, AcceptRead, AcceptExists, AcceptCommit, AcceptConflict, To, TypeOK, Idle, history
<1>2. Admins \subseteq Admins'
  <2>1. CASE AcceptCommit(r)
    <3>1. req[r] \in CommitRequest /\ req[r].user \in Users
      BY <2>1, RequestShape DEF AcceptCommit, CommitRequest
    <3>2. \A u \in Users : member'[u] = member[u] \/ member[u].role = "none"
      BY <2>1, <3>1 DEF AcceptCommit, TypeOK
    <3> QED
      BY <3>2 DEF Admins
  <2>2. CASE ~ AcceptCommit(r)
    BY <2>2 DEF Accepts, AcceptRead, AcceptExists, AcceptConflict, Admins
  <2> QED
    BY <2>1, <2>2
<1> QED
  BY <1>1, <1>2 DEF AdminInv

LEMMA AdminStep ==
  ASSUME TypeOK, AdminInv, [Next]_vars
  PROVE  AdminInv'
<1>1. CASE UNCHANGED vars
  BY <1>1, AdminFrame DEF vars, history
<1>2. ASSUME NEW i \in Invites, Expire(i) PROVE AdminInv'
  BY <1>2, AdminFrame DEF Expire, history
<1> QED
  BY <1>1, <1>2, AdminMembers, AdminInvitations, AdminAccepts DEF Next

-----------------------------------------------------------------------------
(* Invitations *)

LinksInv == InsertInv /\ LinkInv /\ SeenInv

\* A step that leaves the invitations and their history alone and takes its
\* request neither into a creation nor into an accept.
LEMMA LinksFrame ==
  ASSUME LinksInv, UNCHANGED <<invite, seen, spent, reused>>,
         \A r \in Requests : req'[r] = req[r] \/ req'[r].pc \notin {"insert", "exists", "commit"}
  PROVE  LinksInv'
<1>1. InsertInv'
  BY DEF LinksInv, InsertInv
<1>2. LinkInv'
  BY DEF LinksInv, LinkInv
<1>3. SeenInv'
  BY DEF LinksInv, SeenInv, OnlyOverlappingInvitesCoexist
<1> QED
  BY <1>1, <1>2, <1>3 DEF LinksInv

LEMMA LinksMembers ==
  ASSUME TypeOK, LinksInv, NEW r \in Requests, Members(r)
  PROVE  LinksInv'
<1>1. UNCHANGED <<invite, seen, spent, reused>>
  BY DEF Members, ResolveAdmin, ReadTarget, CountAdmins, Write, history
<1>2. \A s \in Requests \ {r} : req'[s] = req[s]
  BY DEF Members, ResolveAdmin, ReadTarget, CountAdmins, Write, To, TypeOK
<1>3. req'[r].pc \notin {"insert", "exists", "commit"}
  <2>1. CASE CountAdmins(r)
    BY <2>1, RequestShape DEF CountAdmins, To, TypeOK, Idle, WriteRequest
  <2>2. ASSUME NEW t \in Users, NEW role \in Roles \cup {"none"}, ReadTarget(r, t, role)
        PROVE  req'[r].pc \notin {"insert", "exists", "commit"}
    BY <2>2 DEF ReadTarget, To, TypeOK, Idle
  <2>3. CASE Write(r) \/ \E u \in Users : ResolveAdmin(r, u)
    BY <2>3 DEF Write, ResolveAdmin, To, TypeOK, Idle
  <2> QED
    BY <2>1, <2>2, <2>3 DEF Members
<1> QED
  BY <1>1, <1>2, <1>3, LinksFrame

LEMMA LinksSupersede ==
  ASSUME TypeOK, LinksInv, NEW r \in Requests, NEW email \in Emails,
         NEW role \in Roles, Supersede(r, email, role)
  PROVE  LinksInv'
<1> DEFINE n == [pc |-> "insert", email |-> email, role |-> role,
                 superseded |-> Superseded(email),
                 seen |-> {i \in Invites : invite[i].status # "none"}]
<1>1. /\ req'[r] = n /\ \A s \in Requests \ {r} : req'[s] = req[s]
      /\ UNCHANGED <<invite, seen, spent, reused>>
  BY DEF Supersede, To, TypeOK, history
<1>2. \A s \in Requests \ {r} : req[s].pc = "insert" => req[s].superseded \cap n.superseded = {}
  BY DEF Supersede, Locked
<1>3. InsertInv'
  <2>1. /\ \A j \in n.superseded : invite[j].status = "pending"
        /\ \A j \in n.seen : invite[j].status # "none"
        /\ \A j \in n.seen \ n.superseded : invite[j].email = n.email => invite[j].status # "pending"
    BY DEF Superseded
  <2> HIDE DEF n
  <2> QED
    BY <1>1, <1>2, <2>1 DEF LinksInv, InsertInv
<1>4. LinkInv'
  BY <1>1 DEF LinksInv, LinkInv
<1>5. SeenInv'
  BY <1>1 DEF LinksInv, SeenInv, OnlyOverlappingInvitesCoexist
<1> QED
  BY <1>3, <1>4, <1>5 DEF LinksInv

LEMMA LinksInsert ==
  ASSUME TypeOK, LinksInv, NEW r \in Requests, NEW i \in Invites, Insert(r, i)
  PROVE  LinksInv'
<1> DEFINE q == req[r]
<1>1. /\ q \in InsertRequest /\ q.pc = "insert" /\ invite[i].status = "none"
      /\ q.superseded \subseteq Invites
  BY RequestShape DEF Insert, WithSuperseded, InsertRequest
<1>2. /\ req'[r].pc = "idle" /\ \A s \in Requests \ {r} : req'[s] = req[s]
      /\ invite'[i].status = "pending" /\ invite'[i].email = q.email
      /\ \A j \in Invites \ {i} : invite'[j].email = invite[j].email
      /\ \A j \in q.superseded \ {i} : invite'[j].status = "revoked"
      /\ \A j \in Invites \ (q.superseded \cup {i}) : invite'[j] = invite[j]
      /\ seen'[i] = q.seen /\ \A j \in Invites \ {i} : seen'[j] = seen[j]
      /\ spent' = spent \cup q.superseded /\ reused' = reused
  BY <1>1 DEF Insert, WithSuperseded, To, TypeOK, Idle, InviteRows
<1>3. i \notin q.superseded /\ i \notin q.seen /\ i \notin spent
  BY <1>1 DEF LinksInv, InsertInv, LinkInv
<1>4. InsertInv'
  <2>1. ASSUME NEW s \in Requests, req'[s].pc = "insert"
        PROVE  /\ s # r /\ req'[s] = req[s] /\ req[s] \in InsertRequest
               /\ req[s].superseded \cap q.superseded = {}
               /\ i \notin req[s].superseded /\ i \notin req[s].seen
    BY <1>1, <1>2, <2>1, RequestShape DEF LinksInv, InsertInv
  <2>2. ASSUME NEW s \in Requests, req'[s].pc = "insert"
        PROVE  /\ \A j \in req[s].superseded : invite'[j].status = "pending"
               /\ \A j \in req[s].seen : invite'[j].status # "none"
               /\ \A j \in req[s].seen \ req[s].superseded :
                    invite'[j].email = req[s].email => invite'[j].status # "pending"
    <3>1. req[s].superseded \subseteq Invites /\ req[s].seen \subseteq Invites
      BY <2>1, <2>2 DEF InsertRequest
    <3>2. \A j \in Invites \ {i} : invite'[j] = invite[j] \/ invite'[j].status = "revoked"
      BY <1>2
    <3> QED
      BY <1>2, <2>1, <2>2, <3>1, <3>2 DEF LinksInv, InsertInv
  <2> QED
    BY <2>1, <2>2 DEF LinksInv, InsertInv
<1>5. LinkInv'
  <2>1. \A j \in spent' : invite'[j].status \notin {"none", "pending"}
    <3>1. \A j \in spent : j \in Invites /\ j # i
      BY <1>3 DEF TypeOK
    <3>2. \A j \in Invites \ {i} : invite'[j] = invite[j] \/ invite'[j].status = "revoked"
      BY <1>2
    <3> QED
      BY <1>2, <1>3, <3>1, <3>2 DEF LinksInv, LinkInv
  <2> QED
    BY <1>2, <2>1 DEF LinksInv, LinkInv
<1>6. SeenInv'
  <2>1. \A k \in Invites : \A j \in seen'[k] : invite'[j].status # "none"
    <3>1. \A j \in Invites : invite[j].status # "none" => invite'[j].status # "none"
      BY <1>1, <1>2
    <3>2. q.seen \subseteq Invites /\ \A k \in Invites : seen[k] \subseteq Invites
      BY <1>1 DEF InsertRequest, TypeOK
    <3>3. (\A j \in q.seen : invite[j].status # "none")
          /\ \A k \in Invites : \A j \in seen[k] : invite[j].status # "none"
      BY <1>1 DEF LinksInv, InsertInv, SeenInv
    <3> QED
      BY <1>2, <3>1, <3>2, <3>3
  <2>2. OnlyOverlappingInvitesCoexist'
    <3> SUFFICES ASSUME NEW a \in Invites, NEW b \in Invites, a # b,
                        invite'[a].status = "pending", invite'[b].status = "pending",
                        invite'[a].email = invite'[b].email
                 PROVE  a \notin seen'[b]
      BY DEF OnlyOverlappingInvitesCoexist
    <3>1. \A j \in Invites \ {i} : invite'[j].status = "pending" =>
            invite'[j] = invite[j] /\ j \notin q.superseded
      BY <1>2
    <3>2. CASE b = i
      <4>1. a # i /\ invite[a].status = "pending" /\ invite[a].email = q.email /\ a \notin q.superseded
        BY <1>2, <3>1, <3>2
      <4>2. a \notin q.seen
        BY <1>1, <4>1 DEF LinksInv, InsertInv
      <4> QED
        BY <1>2, <3>2, <4>2
    <3>3. CASE a = i
      <4>1. a \notin seen[b]
        BY <1>1, <3>3 DEF LinksInv, SeenInv
      <4> QED
        BY <1>2, <3>3, <4>1
    <3>4. CASE a # i /\ b # i
      BY <1>2, <3>1, <3>4 DEF LinksInv, SeenInv, OnlyOverlappingInvitesCoexist
    <3> QED
      BY <3>2, <3>3, <3>4
  <2> QED
    BY <2>1, <2>2 DEF SeenInv
<1> QED
  BY <1>4, <1>5, <1>6 DEF LinksInv

\* An invitation that no open transaction holds is taken out of the live ones,
\* by a revoke or an accept that becomes idle.
LEMMA LinksResolve ==
  ASSUME TypeOK, LinksInv, NEW r \in Requests, NEW i \in Invites, ~ Locked(i),
         req'[r].pc = "idle", \A s \in Requests \ {r} : req'[s] = req[s],
         invite'[i].status \in {"revoked", "accepted"}, invite'[i].email = invite[i].email,
         \A j \in Invites \ {i} : invite'[j] = invite[j],
         seen' = seen, spent' = spent \cup {i}, reused' = {}
  PROVE  LinksInv'
<1>1. \A j \in Invites : invite'[j].email = invite[j].email
                         /\ (invite'[j].status = "pending" => invite[j].status = "pending")
                         /\ (invite[j].status # "none" => invite'[j].status # "none")
  OBVIOUS
<1>2. InsertInv'
  <2>1. ASSUME NEW s \in Requests, req'[s].pc = "insert"
        PROVE  /\ req'[s] = req[s] /\ req[s] \in InsertRequest /\ i \notin req[s].superseded
    BY <2>1, RequestShape DEF Locked
  <2>2. ASSUME NEW s \in Requests, req'[s].pc = "insert"
        PROVE  /\ \A j \in req[s].superseded : invite'[j].status = "pending"
               /\ \A j \in req[s].seen : invite'[j].status # "none"
               /\ \A j \in req[s].seen \ req[s].superseded :
                    invite'[j].email = req[s].email => invite'[j].status # "pending"
    <3>1. req[s].superseded \subseteq Invites \ {i} /\ req[s].seen \subseteq Invites
      BY <2>1, <2>2 DEF InsertRequest
    <3> QED
      BY <1>1, <2>1, <2>2, <3>1 DEF LinksInv, InsertInv
  <2> QED
    BY <2>1, <2>2 DEF LinksInv, InsertInv
<1>3. LinkInv'
  BY DEF LinksInv, LinkInv, TypeOK
<1>4. SeenInv'
  <2>1. \A k \in Invites : \A j \in seen[k] : j \in Invites
    BY DEF TypeOK
  <2>2. \A k \in Invites : \A j \in seen[k] : invite'[j].status # "none"
    BY <1>1, <2>1 DEF LinksInv, SeenInv
  <2>3. OnlyOverlappingInvitesCoexist'
    BY <1>1 DEF LinksInv, SeenInv, OnlyOverlappingInvitesCoexist
  <2> QED
    BY <2>2, <2>3 DEF SeenInv
<1> QED
  BY <1>2, <1>3, <1>4 DEF LinksInv

LEMMA LinksInvitations ==
  ASSUME TypeOK, LinksInv, NEW r \in Requests, Invitations(r)
  PROVE  LinksInv'
<1>1. ASSUME NEW i \in Invites, Revoke(r, i) PROVE LinksInv'
  <2>1. req'[r].pc = "idle" /\ \A s \in Requests \ {r} : req'[s] = req[s]
    BY <1>1 DEF Revoke, To, TypeOK, Idle
  <2>2. CASE Revocable(i)
    <3>1. /\ invite'[i].status = "revoked" /\ invite'[i].email = invite[i].email
          /\ \A j \in Invites \ {i} : invite'[j] = invite[j]
          /\ seen' = seen /\ spent' = spent \cup {i} /\ reused' = {} /\ ~ Locked(i)
      BY <1>1, <2>2 DEF Revoke, TypeOK, InviteRows, LinksInv, LinkInv
    <3> QED
      BY <2>1, <3>1, LinksResolve
  <2>3. CASE ~ Revocable(i)
    BY <1>1, <2>1, <2>3, LinksFrame DEF Revoke
  <2> QED
    BY <2>2, <2>3
<1> QED
  BY <1>1, LinksSupersede, LinksInsert DEF Invitations

LEMMA LinksAccepts ==
  ASSUME TypeOK, LinksInv, NEW r \in Requests, Accepts(r)
  PROVE  LinksInv'
<1>1. ASSUME NEW u \in Users, NEW i \in Invites, AcceptRead(r, u, i) PROVE LinksInv'
  <2>1. /\ req'[r].pc = "exists" /\ req'[r].late = (i \in spent)
        /\ \A s \in Requests \ {r} : req'[s] = req[s]
        /\ UNCHANGED <<invite, seen, spent, reused>> /\ i \notin spent
    BY <1>1 DEF AcceptRead, To, TypeOK, history, Usable, LinksInv, LinkInv
  <2>2. InsertInv'
    BY <2>1 DEF LinksInv, InsertInv
  <2>3. LinkInv'
    BY <2>1 DEF LinksInv, LinkInv
  <2>4. SeenInv'
    BY <2>1 DEF LinksInv, SeenInv, OnlyOverlappingInvitesCoexist
  <2> QED
    BY <2>2, <2>3, <2>4 DEF LinksInv
<1>2. CASE AcceptExists(r)
  <2>1. /\ req'[r].pc = "commit" /\ req'[r].late = req[r].late /\ req[r].pc = "exists"
        /\ \A s \in Requests \ {r} : req'[s] = req[s]
        /\ UNCHANGED <<invite, seen, spent, reused>>
    BY <1>2 DEF AcceptExists, To, TypeOK, history
  <2>2. InsertInv'
    BY <2>1 DEF LinksInv, InsertInv
  <2>3. LinkInv'
    BY <2>1 DEF LinksInv, LinkInv
  <2>4. SeenInv'
    BY <2>1 DEF LinksInv, SeenInv, OnlyOverlappingInvitesCoexist
  <2> QED
    BY <2>2, <2>3, <2>4 DEF LinksInv
<1>3. CASE AcceptCommit(r)
  <2> DEFINE i == req[r].invite
  <2>1. i \in Invites /\ ~ req[r].late
    BY <1>3, RequestShape DEF AcceptCommit, CommitRequest, LinksInv, LinkInv
  <2>2. req'[r].pc = "idle" /\ \A s \in Requests \ {r} : req'[s] = req[s]
    BY <1>3 DEF AcceptCommit, To, TypeOK, Idle
  <2>3. /\ invite'[i].status = "accepted" /\ invite'[i].email = invite[i].email
        /\ \A j \in Invites \ {i} : invite'[j] = invite[j]
        /\ seen' = seen /\ spent' = spent \cup {i} /\ reused' = {} /\ ~ Locked(i)
    BY <1>3, <2>1 DEF AcceptCommit, TypeOK, InviteRows, LinksInv, LinkInv
  <2> HIDE DEF i
  <2> QED
    BY <2>1, <2>2, <2>3, LinksResolve
<1>4. CASE AcceptConflict(r)
  BY <1>4, LinksFrame DEF AcceptConflict, To, TypeOK, Idle, history
<1> QED
  BY <1>1, <1>2, <1>3, <1>4 DEF Accepts

LEMMA LinksStep ==
  ASSUME TypeOK, LinksInv, [Next]_vars
  PROVE  LinksInv'
<1>1. CASE UNCHANGED vars
  BY <1>1, LinksFrame DEF vars, history
<1>2. ASSUME NEW i \in Invites, Expire(i) PROVE LinksInv'
  BY <1>2, LinksFrame DEF Expire, history
<1> QED
  BY <1>1, <1>2, LinksMembers, LinksInvitations, LinksAccepts DEF Next

-----------------------------------------------------------------------------
(* The theorems *)

LEMMA InvInit == Init => IInv
<1> SUFFICES ASSUME Init PROVE IInv
  OBVIOUS
<1>1. AdminInv
  BY DEF Init, AdminInv, Admins, Idle
<1>2. InsertInv /\ LinkInv
  BY DEF Init, InsertInv, LinkInv, Idle
<1>3. SeenInv
  BY DEF Init, SeenInv, OnlyOverlappingInvitesCoexist
<1> QED
  BY <1>1, <1>2, <1>3, TypeInit DEF IInv

LEMMA InvStep == IInv /\ [Next]_vars => IInv'
BY TypeStep, AdminStep, LinksStep DEF IInv, LinksInv

LEMMA Invariant == Spec => []IInv
BY InvInit, InvStep, PTL DEF Spec

\* Changes that do not overlap always leave an admin (SetMemberRole,
\* RemoveMember and their count of the admins).
THEOREM OrganizationKeepsAnAdmin == Spec => []OrphanedOnlyByOverlap
<1>1. IInv => OrphanedOnlyByOverlap
  BY DEF IInv, TypeOK, AdminInv, OrphanedOnlyByOverlap
<1> QED
  BY <1>1, Invariant, PTL

\* Invitations created one after the other leave one live link per address
\* (invitations.Create).
THEOREM OrganizationHasOneLink == Spec => []OnlyOverlappingInvitesCoexist
BY Invariant, PTL DEF IInv, SeenInv

\* A link lets nobody in who opens it after it was used, revoked or superseded
\* (invitations.Accept, Revoke and Create).
THEOREM OrganizationLinksAreSpent == Spec => []SpentLinkAdmitsNobody
BY Invariant, PTL DEF IInv, LinkInv, SpentLinkAdmitsNobody

-----------------------------------------------------------------------------
(* The Tekton installation of the organization's runner cluster            *)
(*                                                                         *)
(* TektonInstall, with slots for operations where it says requests.        *)

CONSTANTS Operations, Pages, MaxJobs, MaxAttempts, MaxFaults
VARIABLES status, enabled, parts, ready, ops, job, faults, overlap

Tekton == INSTANCE TektonInstall WITH Requests <- Operations, req <- ops

Slots == Operations \cup Pages
Ops == {"status", "enable", "upgrade", "uninstall"}

\* What a request has read, by the statement it is at.
GoodOp(q) ==
  \/ q = Tekton!Idle
  \/ q \in [pc : {"groups"}, op : Ops, shown : BOOLEAN]
  \/ q \in [pc : {"deployment"}, op : Ops, shown : BOOLEAN, installed : BOOLEAN]
  \/ q \in [pc : {"reconcile"}, op : {"status", "enable"}, shown : BOOLEAN,
            installed : BOOLEAN, ready : BOOLEAN]
  \/ q \in [pc : {"enable"}, op : {"enable"}, needs : BOOLEAN]
  \/ q \in [pc : {"enabled"}, op : {"enable"}, needs : BOOLEAN, anew : BOOLEAN]
  \/ q \in [pc : {"begin"}, op : {"upgrade", "uninstall"}]
  \/ q \in [pc : {"insert", "queued"}, op : Tekton!Lifecycle]

\* What River knows of a job, and what is left of its list of objects.
GoodJob(x) ==
  \/ x \in [pc : {"none", "gone"}]
  \/ x \in [pc : {"available"}, op : Tekton!Lifecycle, attempt : Nat]
  \/ x \in [pc : {"work", "done"}, op : Tekton!Lifecycle, attempt : Nat, todo : Seq(Tekton!Parts)]

\* Pages ask for the status, operations for anything else.
InstallTypes ==
  /\ parts \in [Tekton!Parts -> {"absent", "owner", "managed"}]
  /\ ready \in BOOLEAN /\ enabled \in BOOLEAN /\ overlap \in BOOLEAN /\ faults \in Nat
  /\ DOMAIN ops = Slots /\ ops = [r \in Slots |-> ops[r]]
  /\ DOMAIN job = Tekton!Jobs /\ job = [j \in Tekton!Jobs |-> job[j]]
  /\ \A r \in Slots : GoodOp(ops[r])
  /\ \A j \in Tekton!Jobs : GoodJob(job[j])
  /\ \A r \in Slots : ops[r] # Tekton!Idle => (ops[r].op # "status" <=> r \in Operations)

\* A request is being served in the slot.
Busy(r) == ops[r] # Tekton!Idle
\* Everything of the release is there.
OnCluster == \A p \in Tekton!Parts : parts[p] # "absent"

\* One operation at a time: a request that has not queued its job yet has the
\* cluster to itself.
OneOperation ==
  /\ \A r, s \in Operations : Busy(r) /\ Busy(s) => r = s
  /\ \A i, j \in Tekton!Jobs : Tekton!Live(i) /\ Tekton!Live(j) => i = j
  /\ \A r \in Operations, j \in Tekton!Jobs :
       Busy(r) /\ Tekton!Live(j) => ops[r].pc = "queued"

\* How far the job at work has come.
JobProgress(j) ==
  job[j].pc \in {"work", "done"} =>
    IF job[j].op = "uninstall"
    THEN /\ job[j].todo \in {<<"controller", "crds">>, <<"crds">>, <<>>}
         /\ job[j].todo # <<"controller", "crds">> => parts["controller"] = "absent"
    ELSE /\ job[j].pc = "work"
         /\ job[j].todo \in {<<"crds", "controller">>, <<"controller">>, <<>>}
         /\ job[j].todo # <<"crds", "controller">> => parts["crds"] # "absent"
         /\ job[j].todo = <<>> => parts["controller"] # "absent"

\* An operation of this kind is about to queue its job, or its job is live.
Pending(op) ==
  \/ \E r \in Operations : ops[r].pc = "insert" /\ ops[r].op = op
  \/ \E j \in Tekton!Jobs : Tekton!Live(j) /\ job[j].op = op

\* What a request has found out about the cluster is still true.
StillTrue(r) ==
  /\ ops[r].pc = "reconcile" /\ ops[r].ready => OnCluster
  /\ ops[r].pc \in {"enable", "enabled"} /\ ~ops[r].needs => OnCluster

\* An undisturbed installation: removing comes after clearing the flag, and what
\* the flag promises is there or an installation under way will bring it.
UndisturbedInv ==
  /\ OneOperation
  /\ \A j \in Tekton!Jobs : JobProgress(j)
  /\ ready => OnCluster
  /\ Pending("uninstall") => ~enabled
  /\ enabled => OnCluster \/ Pending("enable")
  /\ \A r \in Operations : StillTrue(r)

InstallInv == InstallTypes /\ (Tekton!Undisturbed => UndisturbedInv)

USE DEF Tekton!Parts, Tekton!Lifecycle, Tekton!Idle, Slots, Ops

\* A registered cluster is at rest and disabled.
LEMMA InstallInit == Tekton!Init => InstallInv
<1> SUFFICES ASSUME Tekton!Init PROVE InstallInv
  OBVIOUS
<1> USE DEF Tekton!Init
<1>1. InstallTypes
  BY DEF InstallTypes, GoodOp, GoodJob
<1>2. \A j \in Tekton!Jobs : ~Tekton!Live(j) /\ job[j].pc = "none"
  BY DEF Tekton!Live
<1>3. \A r \in Operations : ~Busy(r) /\ ops[r].pc = "idle"
  BY DEF Busy
<1>4. OneOperation /\ (\A j \in Tekton!Jobs : JobProgress(j)) /\ \A r \in Operations : StillTrue(r)
  BY <1>2, <1>3 DEF OneOperation, JobProgress, StillTrue
<1>5. ready => OnCluster
  BY DEF OnCluster
<1>6. ~Pending("uninstall") /\ ~enabled
  BY <1>2, <1>3 DEF Pending
<1> QED
  BY <1>1, <1>4, <1>5, <1>6 DEF InstallInv, UndisturbedInv

\* A slot moves on, and nothing else of the requests changes.
LEMMA SlotMoves ==
  ASSUME InstallTypes, NEW r \in Slots, NEW q, Tekton!To(r, q), GoodOp(q),
         q = Tekton!Idle \/ (q.op # "status" <=> r \in Operations)
  PROVE  /\ DOMAIN ops' = Slots /\ ops' = [s \in Slots |-> ops'[s]]
         /\ \A s \in Slots : GoodOp(ops'[s])
         /\ \A s \in Slots : ops'[s] # Tekton!Idle => (ops'[s].op # "status" <=> s \in Operations)
         /\ ops'[r] = q /\ \A s \in Slots \ {r} : ops'[s] = ops[s]
<1>1. ops' = [ops EXCEPT ![r] = q]
  BY DEF Tekton!To
<1>2. DOMAIN ops' = Slots /\ ops'[r] = q /\ \A s \in Slots \ {r} : ops'[s] = ops[s]
  BY <1>1 DEF InstallTypes
<1>3. ops' = [s \in Slots |-> ops'[s]]
  BY <1>1, <1>2 DEF InstallTypes
<1> QED
  BY <1>2, <1>3 DEF InstallTypes

\* A job moves on, and no other one does.
LEMMA JobMoves ==
  ASSUME InstallTypes, NEW j \in Tekton!Jobs, NEW x, job' = [job EXCEPT ![j] = x], GoodJob(x)
  PROVE  /\ DOMAIN job' = Tekton!Jobs /\ job' = [i \in Tekton!Jobs |-> job'[i]]
         /\ \A i \in Tekton!Jobs : GoodJob(job'[i])
         /\ job'[j] = x /\ \A i \in Tekton!Jobs \ {j} : job'[i] = job[i]
<1>1. DOMAIN job' = Tekton!Jobs /\ job'[j] = x /\ \A i \in Tekton!Jobs \ {j} : job'[i] = job[i]
  BY DEF InstallTypes
<1>2. job' = [i \in Tekton!Jobs |-> job'[i]]
  BY <1>1 DEF InstallTypes
<1> QED
  BY <1>1, <1>2 DEF InstallTypes

\* The statement after one that reads: what the slot becomes.
ServedAs(r, q) ==
  \/ ops[r].pc = "groups" /\ q.pc = "deployment" /\ q.op = ops[r].op
  \/ ops[r].pc = "deployment" /\ q.pc = "reconcile" /\ q.op = ops[r].op /\ (q.ready <=> ready)
  \/ ops[r].pc = "deployment" /\ q.pc = "begin" /\ q.op = ops[r].op
  \/ ops[r].pc = "reconcile" /\ ops[r].op = "enable" /\ q.pc = "enable" /\ (q.needs <=> ~ops[r].ready)
  \/ ops[r].pc = "enable" /\ q.pc = "enabled" /\ (q.needs <=> ops[r].needs)

\* Statements of a request that neither write the flag nor queue a job.
Reads(r, q) ==
  /\ r \in Slots /\ Busy(r) /\ Tekton!To(r, q) /\ GoodOp(q)
  /\ q = Tekton!Idle \/ (q.op = ops[r].op /\ ServedAs(r, q))
  /\ ops[r].pc # "insert"
  /\ UNCHANGED <<enabled, parts, ready, job, faults, overlap>>

\* The statements that read, and the last one, are of this kind.
LEMMA ReadsAre ==
  ASSUME InstallTypes, NEW r \in Slots, Operations \cap Pages = {},
         \/ Tekton!DetectGroups(r) \/ Tekton!DetectController(r) \/ Tekton!Reconcile(r)
         \/ Tekton!EnableRead(r) \/ Tekton!MarkQueued(r)
  PROVE  \E q : Reads(r, q)
<1>1. GoodOp(ops[r])
  BY DEF InstallTypes
<1>2. CASE Tekton!DetectGroups(r)
  <2> DEFINE q == [pc |-> "deployment", op |-> ops[r].op, shown |-> ops[r].shown,
                   installed |-> parts["crds"] # "absent"]
  <2>1. ops[r] \in [pc : {"groups"}, op : Ops, shown : BOOLEAN]
    BY <1>1, <1>2 DEF Tekton!DetectGroups, GoodOp
  <2>2. Tekton!To(r, q) /\ Busy(r) /\ UNCHANGED <<enabled, parts, ready, job, faults, overlap>>
    BY <1>2, <2>1 DEF Tekton!DetectGroups, Busy, Tekton!row, Tekton!cluster
  <2>3. GoodOp(q) /\ ServedAs(r, q) /\ q.op = ops[r].op /\ q.pc = "deployment"
    BY <2>1 DEF GoodOp, ServedAs
  <2> QED
    BY <2>1, <2>2, <2>3 DEF Reads
<1>3. CASE Tekton!DetectController(r)
  <2>1. ops[r] \in [pc : {"deployment"}, op : Ops, shown : BOOLEAN, installed : BOOLEAN]
    BY <1>1, <1>3 DEF Tekton!DetectController, GoodOp
  <2>2. Busy(r) /\ UNCHANGED <<enabled, parts, ready, job, faults, overlap>>
    BY <1>3, <2>1 DEF Tekton!DetectController, Busy, Tekton!row, Tekton!cluster
  <2> DEFINE inst == ops[r].installed \/ parts["controller"] # "absent"
             look == [pc |-> "reconcile", op |-> ops[r].op, shown |-> ops[r].shown,
                      installed |-> inst, ready |-> ready]
             go == [pc |-> "begin", op |-> ops[r].op]
  <2>3. CASE ops[r].op \in {"status", "enable"}
    <3>1. Tekton!To(r, look)
      BY <1>3, <2>3 DEF Tekton!DetectController
    <3>2. GoodOp(look) /\ ServedAs(r, look) /\ look.op = ops[r].op /\ look.pc = "reconcile"
      BY <2>1, <2>3 DEF GoodOp, ServedAs, InstallTypes
    <3> HIDE DEF look
    <3> QED
      BY <2>1, <2>2, <3>1, <3>2 DEF Reads
  <2>4. CASE ops[r].op \notin {"status", "enable"} /\ Tekton!Managed
    <3>1. Tekton!To(r, go)
      BY <1>3, <2>1, <2>4 DEF Tekton!DetectController
    <3>2. GoodOp(go) /\ ServedAs(r, go) /\ go.op = ops[r].op /\ go.pc = "begin"
      BY <2>1, <2>4 DEF GoodOp, ServedAs
    <3> HIDE DEF go
    <3> QED
      BY <2>1, <2>2, <3>1, <3>2 DEF Reads
  <2>5. CASE ops[r].op \notin {"status", "enable"} /\ ~Tekton!Managed
    <3>1. Tekton!To(r, Tekton!Idle)
      BY <1>3, <2>1, <2>5 DEF Tekton!DetectController
    <3> QED
      BY <2>1, <2>2, <3>1 DEF Reads, GoodOp
  <2> QED
    BY <2>3, <2>4, <2>5
<1>4. CASE Tekton!Reconcile(r)
  <2>1. ops[r] \in [pc : {"reconcile"}, op : {"status", "enable"}, shown : BOOLEAN,
                    installed : BOOLEAN, ready : BOOLEAN]
    BY <1>1, <1>4 DEF Tekton!Reconcile, GoodOp
  <2>2. Busy(r) /\ UNCHANGED <<enabled, parts, ready, job, faults, overlap>>
    BY <1>4, <2>1 DEF Tekton!Reconcile, Busy, Tekton!cluster
  <2> DEFINE q == [pc |-> "enable", op |-> "enable", needs |-> ~ops[r].ready]
  <2>3. CASE ops[r].op = "status"
    <3>1. Tekton!To(r, Tekton!Idle)
      BY <1>4, <2>3 DEF Tekton!Reconcile
    <3> QED
      BY <2>1, <2>2, <3>1 DEF Reads, GoodOp
  <2>4. CASE ops[r].op = "enable"
    <3>1. Tekton!To(r, q)
      BY <1>4, <2>4 DEF Tekton!Reconcile, Tekton!NeedsInstall
    <3>2. GoodOp(q) /\ ServedAs(r, q) /\ q.op = ops[r].op /\ q.pc = "enable"
      BY <2>1, <2>4 DEF GoodOp, ServedAs
    <3> HIDE DEF q
    <3> QED
      BY <2>1, <2>2, <3>1, <3>2 DEF Reads
  <2> QED
    BY <2>1, <2>3, <2>4
<1>5. CASE Tekton!EnableRead(r)
  <2> DEFINE q == [pc |-> "enabled", op |-> "enable", needs |-> ops[r].needs,
                   anew |-> status \in {"not_installed", "failed"}]
  <2>1. ops[r] \in [pc : {"enable"}, op : {"enable"}, needs : BOOLEAN]
    BY <1>1, <1>5 DEF Tekton!EnableRead, GoodOp
  <2>2. Tekton!To(r, q) /\ Busy(r) /\ UNCHANGED <<enabled, parts, ready, job, faults, overlap>>
    BY <1>5, <2>1 DEF Tekton!EnableRead, Busy, Tekton!row, Tekton!cluster
  <2>3. GoodOp(q) /\ ServedAs(r, q) /\ q.op = ops[r].op /\ q.pc = "enabled"
    BY <2>1 DEF GoodOp, ServedAs
  <2> HIDE DEF q
  <2> QED
    BY <2>1, <2>2, <2>3 DEF Reads
<1>6. CASE Tekton!MarkQueued(r)
  <2>1. /\ Busy(r) /\ ops[r].pc = "queued" /\ Tekton!To(r, Tekton!Idle)
        /\ UNCHANGED <<enabled, parts, ready, job, faults, overlap>>
    BY <1>1, <1>6 DEF Tekton!MarkQueued, Busy, Tekton!cluster, GoodOp
  <2> QED
    BY <2>1 DEF Reads, GoodOp
<1> QED
  BY <1>2, <1>3, <1>4, <1>5, <1>6

\* The requests' slots, and the jobs, after a step: shapes only.
SlotTypes ==
  /\ DOMAIN ops = Slots /\ ops = [r \in Slots |-> ops[r]]
  /\ \A r \in Slots : GoodOp(ops[r])
  /\ \A r \in Slots : ops[r] # Tekton!Idle => (ops[r].op # "status" <=> r \in Operations)

JobTypes ==
  /\ DOMAIN job = Tekton!Jobs /\ job = [j \in Tekton!Jobs |-> job[j]]
  /\ \A j \in Tekton!Jobs : GoodJob(job[j])

\* What a step leaves alone keeps its shape.
LEMMA SlotTypesStay ==
  ASSUME InstallTypes, UNCHANGED ops PROVE SlotTypes'
  BY DEF InstallTypes, SlotTypes

LEMMA JobTypesStay ==
  ASSUME InstallTypes, UNCHANGED job PROVE JobTypes'
  BY DEF InstallTypes, JobTypes

\* A request is served.
LEMMA ServeTypes ==
  ASSUME InstallTypes, Operations \cap Pages = {}, NEW r \in Slots, Tekton!Serve(r)
  PROVE  InstallTypes'
<1>g. GoodOp(ops[r]) /\ (ops[r] # Tekton!Idle => (ops[r].op # "status" <=> r \in Operations))
  BY DEF InstallTypes
<1>1. CASE \/ Tekton!DetectGroups(r) \/ Tekton!DetectController(r) \/ Tekton!Reconcile(r)
           \/ Tekton!EnableRead(r) \/ Tekton!MarkQueued(r)
  <2>1. PICK q : Reads(r, q)
    BY <1>1, ReadsAre
  <2>2. SlotTypes'
    <3>1. q = Tekton!Idle \/ (q.op # "status" <=> r \in Operations)
      BY <2>1 DEF Reads, InstallTypes, Busy
    <3> QED
      BY <2>1, <3>1, SlotMoves DEF Reads, SlotTypes
  <2> QED
    BY <2>1, <2>2 DEF Reads, InstallTypes, SlotTypes
<1>2. CASE Tekton!DetectFails(r) \/ Tekton!RequestFails(r)
  <2>1. /\ Tekton!To(r, Tekton!Idle) /\ faults' = faults + 1
        /\ UNCHANGED <<enabled, parts, ready, job, overlap>>
    BY <1>2 DEF Tekton!DetectFails, Tekton!RequestFails, Tekton!Fault, Tekton!row, Tekton!cluster
  <2>2. SlotTypes'
    BY <2>1, SlotMoves DEF SlotTypes, GoodOp
  <2> QED
    BY <2>1, <2>2 DEF InstallTypes, SlotTypes
<1>3. CASE Tekton!EnableWrite(r)
  <2>1. ops[r].pc = "enabled" /\ ops[r] \in [pc : {"enabled"}, op : {"enable"}, needs : BOOLEAN, anew : BOOLEAN]
    BY <1>g, <1>3 DEF Tekton!EnableWrite, GoodOp
  <2> DEFINE q == IF ops[r].needs THEN [pc |-> "insert", op |-> "enable"] ELSE Tekton!Idle
  <2>2. Tekton!To(r, q) /\ enabled' = TRUE /\ UNCHANGED <<parts, ready, job, faults, overlap>>
    BY <1>3 DEF Tekton!EnableWrite, Tekton!cluster
  <2>3. GoodOp(q) /\ (q = Tekton!Idle \/ (q.op # "status" <=> r \in Operations))
    BY <1>g, <2>1 DEF GoodOp
  <2>4. SlotTypes'
    BY <2>2, <2>3, SlotMoves DEF SlotTypes
  <2> QED
    BY <2>2, <2>4 DEF InstallTypes, SlotTypes
<1>4. CASE Tekton!BeginOperation(r)
  <2>1. ops[r] \in [pc : {"begin"}, op : {"upgrade", "uninstall"}]
    BY <1>g, <1>4 DEF Tekton!BeginOperation, GoodOp
  <2> DEFINE q == [pc |-> "insert", op |-> ops[r].op]
  <2>2. /\ Tekton!To(r, q) /\ enabled' = (enabled /\ ops[r].op # "uninstall")
        /\ UNCHANGED <<parts, ready, job, faults, overlap>>
    BY <1>4 DEF Tekton!BeginOperation, Tekton!EnabledAfter, Tekton!cluster
  <2>3. GoodOp(q) /\ (q.op # "status" <=> r \in Operations)
    BY <1>g, <2>1 DEF GoodOp
  <2>4. SlotTypes'
    BY <2>2, <2>3, SlotMoves DEF SlotTypes
  <2> QED
    BY <2>2, <2>4 DEF InstallTypes, SlotTypes
<1>5. ASSUME NEW j \in Tekton!Jobs, Tekton!Insert(r, j) PROVE InstallTypes'
  <2>1. ops[r] \in [pc : {"insert", "queued"}, op : Tekton!Lifecycle]
    BY <1>g, <1>5 DEF Tekton!Insert, GoodOp
  <2> DEFINE q == [pc |-> "queued", op |-> ops[r].op]
             x == [pc |-> "available", op |-> ops[r].op, attempt |-> 1]
  <2>2. /\ Tekton!To(r, q) /\ job' = [job EXCEPT ![j] = x]
        /\ UNCHANGED <<enabled, parts, ready, faults, overlap>>
    BY <1>5 DEF Tekton!Insert, Tekton!row, Tekton!cluster
  <2>3. GoodOp(q) /\ (q.op # "status" <=> r \in Operations) /\ GoodJob(x)
    BY <1>g, <2>1 DEF GoodOp, GoodJob
  <2> HIDE DEF q, x
  <2>4. SlotTypes' /\ JobTypes'
    BY <2>2, <2>3, SlotMoves, JobMoves DEF SlotTypes, JobTypes
  <2> QED
    BY <2>2, <2>4 DEF InstallTypes, SlotTypes, JobTypes
<1> QED
  BY <1>1, <1>2, <1>3, <1>4, <1>5 DEF Tekton!Serve

\* What a job's record becomes.
LEMMA WorkTypes ==
  ASSUME InstallTypes, NEW j \in Tekton!Jobs, Tekton!Work(j)
  PROVE  InstallTypes'
<1>g. GoodJob(job[j])
  BY DEF InstallTypes
<1>p. \A p \in {"crds", "controller"} :
        [parts EXCEPT ![p] = "managed"] \in [Tekton!Parts -> {"absent", "owner", "managed"}]
        /\ [parts EXCEPT ![p] = "absent"] \in [Tekton!Parts -> {"absent", "owner", "managed"}]
  BY DEF InstallTypes
<1>1. CASE Tekton!Start(j)
  <2>1. job[j] \in [pc : {"available"}, op : Tekton!Lifecycle, attempt : Nat]
    BY <1>g, <1>1 DEF Tekton!Start, GoodJob
  <2> DEFINE x == [pc |-> "work", op |-> job[j].op, attempt |-> job[j].attempt,
                   todo |-> IF job[j].op = "uninstall" THEN Tekton!UninstallOrder ELSE Tekton!InstallOrder]
  <2>2. job' = [job EXCEPT ![j] = x] /\ UNCHANGED <<enabled, parts, ready, ops, faults, overlap>>
    BY <1>1 DEF Tekton!Start, Tekton!cluster, InstallTypes
  <2>3. GoodJob(x)
    <3>1. Tekton!UninstallOrder \in Seq(Tekton!Parts) /\ Tekton!InstallOrder \in Seq(Tekton!Parts)
      BY DEF Tekton!UninstallOrder, Tekton!InstallOrder
    <3>2. x \in [pc : {"work", "done"}, op : Tekton!Lifecycle, attempt : Nat, todo : Seq(Tekton!Parts)]
      BY <2>1, <3>1
    <3> QED
      BY <3>2 DEF GoodJob
  <2> HIDE DEF x
  <2>4. JobTypes' /\ SlotTypes'
    BY <2>2, <2>3, JobMoves, SlotTypesStay DEF JobTypes
  <2> QED
    BY <2>2, <2>4 DEF InstallTypes, SlotTypes, JobTypes
<1>2. CASE Tekton!Apply(j) \/ Tekton!Delete(j)
  <2>1. job[j] \in [pc : {"work", "done"}, op : Tekton!Lifecycle, attempt : Nat, todo : Seq(Tekton!Parts)]
    BY <1>g, <1>2 DEF Tekton!Apply, Tekton!Delete, GoodJob
  <2> DEFINE x == [job[j] EXCEPT !.todo = Tail(@)]
  <2>2. job' = [job EXCEPT ![j] = x] /\ UNCHANGED <<enabled, ops, faults, overlap>>
    BY <1>2 DEF Tekton!Apply, Tekton!Delete, Tekton!row, InstallTypes
  <2>3. job[j].todo # <<>>
    BY <1>2 DEF Tekton!Apply, Tekton!Delete
  <2>4. GoodJob(x)
    <3>1. Tail(job[j].todo) \in Seq(Tekton!Parts)
      BY <2>1, <2>3
    <3>2. x \in [pc : {"work", "done"}, op : Tekton!Lifecycle, attempt : Nat, todo : Seq(Tekton!Parts)]
      BY <2>1, <3>1
    <3> QED
      BY <3>2 DEF GoodJob
  <2>5. Head(job[j].todo) \in Tekton!Parts
    BY <2>1, <2>3
  <2>6. parts' \in [Tekton!Parts -> {"absent", "owner", "managed"}] /\ ready' \in BOOLEAN
    BY <1>2, <1>p, <2>5 DEF Tekton!Apply, Tekton!Delete, InstallTypes
  <2> HIDE DEF x
  <2>7. JobTypes' /\ SlotTypes'
    BY <2>2, <2>4, JobMoves, SlotTypesStay DEF JobTypes
  <2> QED
    BY <2>2, <2>6, <2>7 DEF InstallTypes, SlotTypes, JobTypes
<1>3. CASE Tekton!Sweep(j)
  <2>1. job[j] \in [pc : {"work", "done"}, op : Tekton!Lifecycle, attempt : Nat, todo : Seq(Tekton!Parts)]
    BY <1>g, <1>3 DEF Tekton!Sweep, GoodJob
  <2> DEFINE x == [job[j] EXCEPT !.pc = "done"]
  <2>2. job' = [job EXCEPT ![j] = x] /\ UNCHANGED <<enabled, ops, faults, overlap>>
    BY <1>3 DEF Tekton!Sweep, Tekton!row, InstallTypes
  <2>3. GoodJob(x)
    BY <2>1 DEF GoodJob
  <2>4. parts' \in [Tekton!Parts -> {"absent", "owner", "managed"}] /\ ready' \in BOOLEAN
    BY <1>3 DEF Tekton!Sweep, InstallTypes
  <2> HIDE DEF x
  <2>5. JobTypes' /\ SlotTypes'
    BY <2>2, <2>3, JobMoves, SlotTypesStay DEF JobTypes
  <2> QED
    BY <2>2, <2>4, <2>5 DEF InstallTypes, SlotTypes, JobTypes
<1>4. CASE Tekton!Finish(j)
  <2> DEFINE x == [pc |-> "gone"]
  <2>1. job' = [job EXCEPT ![j] = x] /\ UNCHANGED <<enabled, parts, ready, ops, faults, overlap>>
    BY <1>4 DEF Tekton!Finish, Tekton!cluster
  <2>2. GoodJob(x)
    BY DEF GoodJob
  <2>3. JobTypes' /\ SlotTypes'
    BY <2>1, <2>2, JobMoves, SlotTypesStay DEF JobTypes
  <2> QED
    BY <2>1, <2>3 DEF InstallTypes, SlotTypes, JobTypes
<1>5. CASE Tekton!WorkFails(j) \/ Tekton!Crash(j)
  <2>1. /\ job[j].op \in Tekton!Lifecycle /\ job[j].attempt \in Nat
    BY <1>g, <1>5 DEF Tekton!WorkFails, Tekton!Crash, GoodJob
  <2> DEFINE x == IF job[j].attempt < MaxAttempts
                  THEN [pc |-> "available", op |-> job[j].op, attempt |-> job[j].attempt + 1]
                  ELSE [pc |-> "gone"]
  <2>2. /\ job' = [job EXCEPT ![j] = x] /\ faults' = faults + 1
        /\ UNCHANGED <<enabled, parts, ready, ops, overlap>>
    BY <1>5 DEF Tekton!WorkFails, Tekton!Crash, Tekton!Returned, Tekton!Fault, Tekton!row, Tekton!cluster, InstallTypes
  <2>3. GoodJob(x)
    BY <2>1 DEF GoodJob
  <2> HIDE DEF x
  <2>4. JobTypes' /\ SlotTypes'
    BY <2>2, <2>3, JobMoves, SlotTypesStay DEF JobTypes
  <2>5. faults' \in Nat
    BY <2>2 DEF InstallTypes
  <2> QED
    BY <2>2, <2>4, <2>5 DEF InstallTypes, SlotTypes, JobTypes
<1> QED
  BY <1>1, <1>2, <1>3, <1>4, <1>5 DEF Tekton!Work

\* A request begins.
LEMMA BeginTypes ==
  ASSUME InstallTypes, NEW r \in Slots, NEW op \in Ops, r \in Operations <=> op # "status",
         Tekton!Begin(r, op)
  PROVE  InstallTypes'
<1> DEFINE q == [pc |-> "groups", op |-> op, shown |-> op \in {"status", "enable"} /\ status = "installed"]
<1>1. Tekton!To(r, q) /\ UNCHANGED <<enabled, parts, ready, job, faults>> /\ overlap' \in BOOLEAN
  BY DEF Tekton!Begin, Tekton!row, Tekton!cluster
<1>2. GoodOp(q) /\ (q.op # "status" <=> r \in Operations)
  BY DEF GoodOp
<1> HIDE DEF q
<1>3. SlotTypes'
  BY <1>1, <1>2, SlotMoves DEF SlotTypes
<1> QED
  BY <1>1, <1>3 DEF InstallTypes, SlotTypes

\* Every step keeps the shapes.
LEMMA InstallTypesNext ==
  ASSUME InstallTypes, Operations \cap Pages = {}, [Tekton!Next]_(Tekton!vars)
  PROVE  InstallTypes'
<1>1. ASSUME NEW r \in Slots, Tekton!Serve(r) PROVE InstallTypes'
  BY <1>1, ServeTypes
<1>2. ASSUME NEW r \in Operations, NEW op \in Tekton!Lifecycle, Tekton!Begin(r, op) PROVE InstallTypes'
  BY <1>2, BeginTypes
<1>3. ASSUME NEW r \in Pages, Tekton!Begin(r, "status") PROVE InstallTypes'
  BY <1>3, BeginTypes
<1>4. ASSUME NEW j \in Tekton!Jobs, Tekton!Work(j) PROVE InstallTypes'
  BY <1>4, WorkTypes
<1>5. CASE Tekton!DisableTekton \/ Tekton!BecomesReady \/ Tekton!OwnerChanges
  <2>a. UNCHANGED <<ops, job, overlap>> /\ enabled' \in BOOLEAN /\ ready' \in BOOLEAN
    BY <1>5 DEF Tekton!DisableTekton, Tekton!BecomesReady, Tekton!OwnerChanges, Tekton!row,
       Tekton!cluster, InstallTypes
  <2>b. faults' \in Nat
    BY <1>5 DEF Tekton!DisableTekton, Tekton!BecomesReady, Tekton!OwnerChanges, Tekton!Fault, InstallTypes
  <2>1. UNCHANGED <<ops, job, overlap>> /\ ready' \in BOOLEAN /\ enabled' \in BOOLEAN /\ faults' \in Nat
    BY <2>a, <2>b
  <2>2. parts' \in [Tekton!Parts -> {"absent", "owner", "managed"}]
    BY <1>5 DEF Tekton!DisableTekton, Tekton!BecomesReady, Tekton!OwnerChanges, Tekton!cluster, InstallTypes
  <2>3. JobTypes' /\ SlotTypes'
    BY <2>1, SlotTypesStay, JobTypesStay
  <2> QED
    BY <2>1, <2>2, <2>3 DEF InstallTypes, SlotTypes, JobTypes
<1>6. CASE UNCHANGED Tekton!vars
  BY <1>6 DEF Tekton!vars, InstallTypes
<1> QED
  BY <1>1, <1>2, <1>3, <1>4, <1>5, <1>6 DEF Tekton!Next

\* A disturbance is never forgotten.
LEMMA UndisturbedBefore ==
  ASSUME InstallTypes, [Tekton!Next]_(Tekton!vars), Tekton!Undisturbed'
  PROVE  Tekton!Undisturbed
<1>1. (overlap => overlap') /\ (faults' = faults \/ faults' = faults + 1)
  <2>1. ASSUME NEW r \in Slots, Tekton!Serve(r)
        PROVE  (overlap => overlap') /\ (faults' = faults \/ faults' = faults + 1)
    BY <2>1 DEF Tekton!Serve, Tekton!DetectGroups, Tekton!DetectController, Tekton!DetectFails, Tekton!Reconcile,
       Tekton!EnableRead, Tekton!EnableWrite, Tekton!BeginOperation, Tekton!Insert, Tekton!MarkQueued,
       Tekton!RequestFails, Tekton!Fault
  <2>2. ASSUME NEW j \in Tekton!Jobs, Tekton!Work(j)
        PROVE  (overlap => overlap') /\ (faults' = faults \/ faults' = faults + 1)
    BY <2>2 DEF Tekton!Work, Tekton!Start, Tekton!Apply, Tekton!Delete, Tekton!Sweep, Tekton!Finish,
       Tekton!WorkFails, Tekton!Crash, Tekton!Fault
  <2>3. ASSUME NEW r, NEW op, Tekton!Begin(r, op)
        PROVE  (overlap => overlap') /\ (faults' = faults \/ faults' = faults + 1)
    BY <2>3 DEF Tekton!Begin
  <2>4. CASE Tekton!DisableTekton \/ Tekton!BecomesReady \/ Tekton!OwnerChanges \/ UNCHANGED Tekton!vars
    BY <2>4 DEF Tekton!DisableTekton, Tekton!BecomesReady, Tekton!OwnerChanges, Tekton!Fault, Tekton!vars
  <2> QED
    BY <2>1, <2>2, <2>3, <2>4 DEF Tekton!Next
<1>2. faults \in Nat /\ overlap \in BOOLEAN
  BY DEF InstallTypes
<1>3. ~overlap' /\ faults' = 0
  BY DEF Tekton!Undisturbed
<1> QED
  BY <1>1, <1>2, <1>3 DEF Tekton!Undisturbed

\* A request reads.
LEMMA UndisturbedReads ==
  ASSUME InstallTypes, UndisturbedInv, Operations \cap Pages = {}, NEW r \in Slots, NEW q, Reads(r, q)
  PROVE  UndisturbedInv'
<1>1. ops'[r] = q /\ \A s \in Slots \ {r} : ops'[s] = ops[s]
  <2>1. q = Tekton!Idle \/ (q.op # "status" <=> r \in Operations)
    BY DEF Reads, InstallTypes, Busy
  <2> QED
    BY <2>1, SlotMoves DEF Reads
<1>2. UNCHANGED <<enabled, parts, ready, job>>
  BY DEF Reads
<1>3. \A j \in Tekton!Jobs : (Tekton!Live(j))' <=> Tekton!Live(j)
  BY <1>2 DEF Tekton!Live
<1>4. (\A j \in Tekton!Jobs : JobProgress(j))' /\ (ready => OnCluster)' /\ (OnCluster' <=> OnCluster)
  BY <1>2 DEF UndisturbedInv, JobProgress, OnCluster
<1>5. \A s \in Operations : (Busy(s))' => Busy(s)
  BY <1>1 DEF Busy, Reads
<1>6. ASSUME NEW s \in Operations, NEW j \in Tekton!Jobs, (Busy(s))', Tekton!Live(j)
      PROVE  ops'[s].pc = "queued"
  <2>1. ops[s].pc = "queued"
    BY <1>5, <1>6 DEF UndisturbedInv, OneOperation
  <2>2. CASE s = r
    BY <1>1, <1>6, <2>1, <2>2 DEF Reads, ServedAs, Busy
  <2>3. CASE s # r
    BY <1>1, <2>1, <2>3
  <2> QED
    BY <2>2, <2>3
<1>7. OneOperation'
  BY <1>3, <1>5, <1>6 DEF UndisturbedInv, OneOperation
<1>8. \A s \in Operations : /\ ops'[s].pc = "insert" <=> ops[s].pc = "insert"
                            /\ ops[s].pc = "insert" => ops'[s] = ops[s]
  BY <1>1 DEF Reads, ServedAs
<1>9. \A op : (Pending(op))' <=> Pending(op)
  BY <1>2, <1>3, <1>8 DEF Pending
<1>10. ASSUME NEW s \in Operations PROVE (StillTrue(s))'
  <2>1. CASE s = r
    <3>1. StillTrue(r) /\ (ready => OnCluster)
      BY <2>1 DEF UndisturbedInv
    <3>2. q = Tekton!Idle \/ ServedAs(r, q)
      BY DEF Reads
    <3>3. CASE q = Tekton!Idle
      BY <1>1, <2>1, <3>3 DEF StillTrue
    <3>4. CASE ServedAs(r, q)
      BY <1>1, <1>4, <2>1, <3>1, <3>4 DEF ServedAs, StillTrue
    <3> QED
      BY <3>2, <3>3, <3>4
  <2>2. CASE s # r
    BY <1>1, <1>4, <2>2 DEF UndisturbedInv, StillTrue
  <2> QED
    BY <2>1, <2>2
<1> QED
  BY <1>2, <1>4, <1>7, <1>9, <1>10 DEF UndisturbedInv

\* A request begins, and nothing else is under way if it is an operation.
LEMMA UndisturbedBegin ==
  ASSUME InstallTypes, UndisturbedInv, Operations \cap Pages = {}, NEW r \in Slots, NEW op \in Ops,
         r \in Operations <=> op # "status", Tekton!Begin(r, op), Tekton!Undisturbed'
  PROVE  UndisturbedInv'
<1> DEFINE q == [pc |-> "groups", op |-> op, shown |-> op \in {"status", "enable"} /\ status = "installed"]
<1>1. ops[r] = Tekton!Idle /\ ops'[r] = q /\ \A s \in Slots \ {r} : ops'[s] = ops[s]
  BY DEF Tekton!Begin, Tekton!To, InstallTypes
<1>2. UNCHANGED <<enabled, parts, ready, job>>
  BY DEF Tekton!Begin, Tekton!row, Tekton!cluster
<1>3. \A j \in Tekton!Jobs : (Tekton!Live(j))' <=> Tekton!Live(j)
  BY <1>2 DEF Tekton!Live
<1>4. (\A j \in Tekton!Jobs : JobProgress(j))' /\ (ready => OnCluster)' /\ (OnCluster' <=> OnCluster)
  BY <1>2 DEF UndisturbedInv, JobProgress, OnCluster
<1>5. r \in Operations => Tekton!AtRest
  BY DEF Tekton!Begin, Tekton!Undisturbed
<1>6. OneOperation'
  <2>1. CASE r \in Operations
    BY <1>1, <1>3, <1>5, <2>1 DEF Tekton!AtRest, OneOperation, Busy
  <2>2. CASE r \notin Operations
    BY <1>1, <1>3, <2>2 DEF UndisturbedInv, OneOperation, Busy
  <2> QED
    BY <2>1, <2>2
<1>7. \A s \in Operations : /\ ops'[s].pc = "insert" <=> ops[s].pc = "insert"
                            /\ ops[s].pc = "insert" => ops'[s] = ops[s]
  BY <1>1
<1>8. \A o : (Pending(o))' <=> Pending(o)
  BY <1>2, <1>3, <1>7 DEF Pending
<1>9. \A s \in Operations : (StillTrue(s))'
  BY <1>1, <1>4 DEF UndisturbedInv, StillTrue
<1> QED
  BY <1>2, <1>4, <1>6, <1>8, <1>9 DEF UndisturbedInv

\* A request writes the flag.
LEMMA UndisturbedFlag ==
  ASSUME InstallTypes, UndisturbedInv, Operations \cap Pages = {}, NEW r \in Slots,
         Tekton!EnableWrite(r) \/ Tekton!BeginOperation(r)
  PROVE  UndisturbedInv'
<1>1. GoodOp(ops[r]) /\ ops[r].pc \in {"enabled", "begin"} /\ Busy(r)
  BY DEF InstallTypes, Tekton!EnableWrite, Tekton!BeginOperation, Busy
<1> DEFINE q == IF ops[r].pc = "enabled"
                THEN IF ops[r].needs THEN [pc |-> "insert", op |-> "enable"] ELSE Tekton!Idle
                ELSE [pc |-> "insert", op |-> ops[r].op]
<1>2. ops'[r] = q /\ \A s \in Slots \ {r} : ops'[s] = ops[s]
  BY <1>1 DEF Tekton!EnableWrite, Tekton!BeginOperation, Tekton!To, InstallTypes
<1>3. UNCHANGED <<parts, ready, job>>
  BY DEF Tekton!EnableWrite, Tekton!BeginOperation, Tekton!cluster
<1>4. r \in Operations
  BY <1>1 DEF InstallTypes, GoodOp, Busy
<1>5. \A j \in Tekton!Jobs : ~Tekton!Live(j) /\ ~(Tekton!Live(j))'
  BY <1>1, <1>3, <1>4 DEF UndisturbedInv, OneOperation, Tekton!Live
<1>6. \A s \in Operations \ {r} : ~Busy(s) /\ ops[s].pc = "idle" /\ ops'[s] = ops[s]
  BY <1>1, <1>2, <1>4 DEF UndisturbedInv, OneOperation, Busy
<1>7. OneOperation'
  BY <1>5, <1>6 DEF OneOperation, Busy
<1>8. (\A j \in Tekton!Jobs : JobProgress(j))' /\ (ready => OnCluster)' /\ (OnCluster' <=> OnCluster)
  BY <1>3 DEF UndisturbedInv, JobProgress, OnCluster
<1>9. \A s \in Operations : (StillTrue(s))'
  BY <1>2, <1>6 DEF StillTrue
<1>10. CASE ops[r].pc = "enabled"
  <2>1. enabled' = TRUE /\ (~ops[r].needs => OnCluster)
    BY <1>4, <1>10 DEF Tekton!EnableWrite, Tekton!BeginOperation, UndisturbedInv, StillTrue
  <2>2. ops[r].needs => (Pending("enable"))'
    BY <1>2, <1>4, <1>10 DEF Pending
  <2>3. ~(Pending("uninstall"))'
    BY <1>2, <1>5, <1>6, <1>10 DEF Pending
  <2> QED
    BY <1>7, <1>8, <1>9, <2>1, <2>2, <2>3 DEF UndisturbedInv
<1>11. CASE ops[r].pc = "begin"
  <2>1. enabled' = (enabled /\ ops[r].op # "uninstall")
    BY <1>11 DEF Tekton!EnableWrite, Tekton!BeginOperation, Tekton!EnabledAfter
  <2>2. ~Pending("enable")
    BY <1>1, <1>5, <1>6, <1>11 DEF Pending
  <2>3. (Pending("uninstall"))' => ops[r].op = "uninstall"
    BY <1>2, <1>5, <1>6, <1>11 DEF Pending
  <2> QED
    BY <1>7, <1>8, <1>9, <2>1, <2>2, <2>3 DEF UndisturbedInv
<1> QED
  BY <1>1, <1>10, <1>11

\* A request queues its job.
LEMMA UndisturbedInsert ==
  ASSUME InstallTypes, UndisturbedInv, Operations \cap Pages = {}, NEW r \in Slots,
         NEW j \in Tekton!Jobs, Tekton!Insert(r, j)
  PROVE  UndisturbedInv'
<1>a. ops[r].pc = "insert"
  BY DEF Tekton!Insert
<1>b. Busy(r)
  BY <1>a DEF Busy
<1>1. GoodOp(ops[r]) /\ ops[r].pc = "insert" /\ Busy(r)
  BY <1>a, <1>b DEF InstallTypes
<1>2. /\ ops'[r] = [pc |-> "queued", op |-> ops[r].op]
      /\ \A s \in Slots \ {r} : ops'[s] = ops[s]
  BY DEF Tekton!Insert, Tekton!To, InstallTypes
<1>3. /\ job'[j] = [pc |-> "available", op |-> ops[r].op, attempt |-> 1]
      /\ \A i \in Tekton!Jobs \ {j} : job'[i] = job[i]
  BY DEF Tekton!Insert, InstallTypes
<1>4. UNCHANGED <<enabled, parts, ready>>
  BY DEF Tekton!Insert, Tekton!row, Tekton!cluster
<1>5. r \in Operations
  BY <1>1 DEF InstallTypes, GoodOp, Busy
<1>6. /\ \A i \in Tekton!Jobs : ~Tekton!Live(i)
      /\ \A i \in Tekton!Jobs \ {j} : ~(Tekton!Live(i))'
      /\ (Tekton!Live(j))'
  BY <1>1, <1>3, <1>5 DEF UndisturbedInv, OneOperation, Tekton!Live
<1>7. \A s \in Operations \ {r} : ~Busy(s) /\ ops[s].pc = "idle" /\ ops'[s] = ops[s]
  BY <1>1, <1>2, <1>5 DEF UndisturbedInv, OneOperation, Busy
<1>8. OneOperation'
  BY <1>2, <1>6, <1>7 DEF OneOperation, Busy
<1>9. (\A i \in Tekton!Jobs : JobProgress(i))'
  BY <1>3, <1>4 DEF UndisturbedInv, JobProgress
<1>10. (ready => OnCluster)' /\ (OnCluster' <=> OnCluster)
  BY <1>4 DEF UndisturbedInv, OnCluster
<1>11. \A s \in Operations : (StillTrue(s))'
  BY <1>2, <1>7 DEF StillTrue
<1>12. \A o : (Pending(o))' <=> Pending(o)
  <2> TAKE o
  <2>1. (Pending(o))' <=> ops[r].op = o
    BY <1>2, <1>3, <1>6, <1>7 DEF Pending
  <2>2. Pending(o) <=> ops[r].op = o
    BY <1>1, <1>5, <1>6, <1>7 DEF Pending
  <2> QED
    BY <2>1, <2>2
<1> QED
  BY <1>4, <1>8, <1>9, <1>10, <1>11, <1>12 DEF UndisturbedInv

\* The job's list of objects, shorter by one.
LEMMA Shorter ==
  /\ Head(<<"crds", "controller">>) = "crds" /\ Tail(<<"crds", "controller">>) = <<"controller">>
  /\ Head(<<"controller", "crds">>) = "controller" /\ Tail(<<"controller", "crds">>) = <<"crds">>
  /\ Head(<<"crds">>) = "crds" /\ Tail(<<"crds">>) = <<>>
  /\ Head(<<"controller">>) = "controller" /\ Tail(<<"controller">>) = <<>>
  OBVIOUS

\* The lists are different ones.
LEMMA Distinct ==
  /\ <<"crds", "controller">> # <<>> /\ <<"controller", "crds">> # <<>> /\ <<"crds">> # <<>> /\ <<"controller">> # <<>>
  /\ <<"crds", "controller">> # <<"controller">> /\ <<"controller", "crds">> # <<"crds">>
  OBVIOUS

\* A job works: only jobs and the cluster change, and this job is the only live
\* one, beside at most a request that has queued it.
LEMMA UndisturbedWork ==
  ASSUME InstallTypes, UndisturbedInv, NEW j \in Tekton!Jobs,
         \/ Tekton!Start(j) \/ Tekton!Apply(j) \/ Tekton!Delete(j) \/ Tekton!Sweep(j) \/ Tekton!Finish(j)
  PROVE  UndisturbedInv'
<1>0. GoodJob(job[j]) /\ job[j].pc \in {"available", "work", "done"} /\ Tekton!Live(j)
  BY DEF InstallTypes, Tekton!Start, Tekton!Apply, Tekton!Delete, Tekton!Sweep, Tekton!Finish, Tekton!Live
<1>1. UNCHANGED <<enabled, ops>> /\ \A i \in Tekton!Jobs \ {j} : job'[i] = job[i]
  BY DEF Tekton!Start, Tekton!Apply, Tekton!Delete, Tekton!Sweep, Tekton!Finish, Tekton!row, InstallTypes
<1>2. \A i \in Tekton!Jobs \ {j} : ~Tekton!Live(i) /\ ~(Tekton!Live(i))'
  BY <1>0, <1>1 DEF UndisturbedInv, OneOperation, Tekton!Live
<1>3. \A r \in Operations : ops[r].pc \in {"idle", "queued"}
  BY <1>0 DEF UndisturbedInv, OneOperation, Busy
<1>4. OneOperation'
  BY <1>0, <1>1, <1>2 DEF UndisturbedInv, OneOperation, Busy
<1>5. \A r \in Operations : (StillTrue(r))'
  BY <1>1, <1>3 DEF StillTrue
<1>6. \A i \in Tekton!Jobs \ {j} : (JobProgress(i))'
  BY <1>1, <1>2 DEF JobProgress, Tekton!Live
<1>7. \A o : Pending(o) <=> job[j].op = o
  BY <1>0, <1>2, <1>3 DEF Pending
<1>8. \A o : (Pending(o))' <=> ((Tekton!Live(j))' /\ job'[j].op = o)
  BY <1>1, <1>2, <1>3 DEF Pending
<1>9. JobProgress(j) /\ (ready => OnCluster) /\ (job[j].op = "uninstall" => ~enabled)
      /\ (enabled => OnCluster \/ job[j].op = "enable")
  BY <1>7 DEF UndisturbedInv
<1> SUFFICES /\ (JobProgress(j))' /\ (ready => OnCluster)'
             /\ ~((Tekton!Live(j))' /\ job'[j].op = "uninstall") \/ ~enabled
             /\ enabled => OnCluster' \/ ((Tekton!Live(j))' /\ job'[j].op = "enable")
  BY <1>1, <1>4, <1>5, <1>6, <1>8 DEF UndisturbedInv
<1>10. CASE Tekton!Start(j)
  <2>1. job'[j] = [pc |-> "work", op |-> job[j].op, attempt |-> job[j].attempt,
                   todo |-> IF job[j].op = "uninstall" THEN <<"controller", "crds">> ELSE <<"crds", "controller">>]
    BY <1>10 DEF Tekton!Start, InstallTypes, Tekton!UninstallOrder, Tekton!InstallOrder
  <2>2. UNCHANGED <<parts, ready>>
    BY <1>10 DEF Tekton!Start, Tekton!cluster
  <2>3. (JobProgress(j))'
    BY <2>1, Distinct DEF JobProgress
  <2>4. (Tekton!Live(j))' /\ job'[j].op = job[j].op /\ (OnCluster' <=> OnCluster)
    BY <2>1, <2>2 DEF Tekton!Live, OnCluster
  <2> QED
    BY <1>9, <2>2, <2>3, <2>4
<1>w. ASSUME job[j].pc \in {"work", "done"}
      PROVE  job[j] \in [pc : {"work", "done"}, op : Tekton!Lifecycle, attempt : Nat, todo : Seq(Tekton!Parts)]
  BY <1>0, <1>w DEF GoodJob
<1>11. CASE Tekton!Apply(j)
  <2>1. job[j].pc = "work" /\ job[j].op # "uninstall" /\ job[j].todo # <<>>
    BY <1>11 DEF Tekton!Apply
  <2>2. job'[j] = [job[j] EXCEPT !.todo = Tail(@)]
    BY <1>11 DEF Tekton!Apply, InstallTypes
  <2>3. job'[j].pc = "work" /\ job'[j].op = job[j].op /\ job'[j].todo = Tail(job[j].todo)
    BY <1>w, <2>1, <2>2
  <2>4. \/ job[j].todo = <<"crds", "controller">>
        \/ job[j].todo = <<"controller">> /\ parts["crds"] # "absent"
    BY <1>9, <2>1, Distinct DEF JobProgress
  <2>5. parts' = [parts EXCEPT ![Head(job[j].todo)] = "managed"] /\ UNCHANGED ready
    BY <1>11 DEF Tekton!Apply
  <2>6. /\ \A p \in Tekton!Parts : parts[p] # "absent" => parts'[p] # "absent"
        /\ job'[j].todo = <<"controller">> => parts'["crds"] # "absent"
        /\ job'[j].todo = <<>> => parts'["crds"] # "absent" /\ parts'["controller"] # "absent"
        /\ job'[j].todo \in {<<"controller">>, <<>>}
    BY <2>3, <2>4, <2>5, Shorter, Distinct DEF InstallTypes
  <2>7. (JobProgress(j))'
    BY <2>1, <2>3, <2>6, Distinct DEF JobProgress
  <2>8. (Tekton!Live(j))' /\ (OnCluster => OnCluster')
    BY <2>3, <2>6 DEF Tekton!Live, OnCluster
  <2> QED
    BY <1>9, <2>1, <2>3, <2>5, <2>7, <2>8
<1>12. CASE Tekton!Delete(j)
  <2>1. job[j].pc = "work" /\ job[j].op = "uninstall" /\ job[j].todo # <<>>
    BY <1>12 DEF Tekton!Delete
  <2>2. job'[j] = [job[j] EXCEPT !.todo = Tail(@)]
    BY <1>12 DEF Tekton!Delete, InstallTypes
  <2>3. job'[j].pc = "work" /\ job'[j].op = "uninstall" /\ job'[j].todo = Tail(job[j].todo)
    BY <1>w, <2>1, <2>2
  <2>4. \/ job[j].todo = <<"controller", "crds">>
        \/ job[j].todo = <<"crds">> /\ parts["controller"] = "absent"
    BY <1>9, <2>1, Distinct DEF JobProgress
  <2>5. /\ parts' = [parts EXCEPT ![Head(job[j].todo)] = "absent"]
        /\ ready' = (ready /\ Head(job[j].todo) # "controller")
    BY <1>12 DEF Tekton!Delete
  <2>6. /\ parts'["controller"] = "absent" /\ job'[j].todo \in {<<"crds">>, <<>>} /\ ~ready'
    BY <1>9, <2>3, <2>4, <2>5, Shorter, Distinct DEF InstallTypes, OnCluster
  <2>7. (JobProgress(j))'
    BY <2>3, <2>6 DEF JobProgress
  <2> QED
    BY <1>9, <2>1, <2>6, <2>7
<1>13. CASE Tekton!Sweep(j)
  <2>1. job[j].pc = "work" /\ job[j].op = "uninstall" /\ job[j].todo = <<>>
    BY <1>13 DEF Tekton!Sweep
  <2>2. job'[j] = [job[j] EXCEPT !.pc = "done"]
    BY <1>13 DEF Tekton!Sweep, InstallTypes
  <2>3. job'[j].op = "uninstall" /\ job'[j].todo = <<>>
    BY <1>w, <2>1, <2>2
  <2>4. parts["controller"] = "absent" /\ ~ready
    BY <1>9, <2>1, Distinct DEF JobProgress, OnCluster
  <2>5. parts'["controller"] = "absent" /\ ~ready'
    BY <1>13, <2>4 DEF Tekton!Sweep, InstallTypes
  <2>6. (JobProgress(j))'
    BY <2>3, <2>5 DEF JobProgress
  <2> QED
    BY <1>9, <2>1, <2>5, <2>6
<1>14. CASE Tekton!Finish(j)
  <2>1. job'[j] = [pc |-> "gone"] /\ UNCHANGED <<parts, ready>>
    BY <1>14 DEF Tekton!Finish, InstallTypes, Tekton!cluster
  <2>2. job[j].op # "uninstall" => job[j].todo = <<>> /\ job[j].pc = "work"
    BY <1>9, <1>14 DEF Tekton!Finish, JobProgress
  <2>3. job[j].op # "uninstall" => OnCluster
    BY <1>9, <2>2, Distinct DEF JobProgress, OnCluster
  <2>4. (JobProgress(j))' /\ ~(Tekton!Live(j))' /\ (OnCluster' <=> OnCluster)
    BY <2>1 DEF JobProgress, Tekton!Live, OnCluster
  <2> QED
    BY <1>9, <2>1, <2>3, <2>4
<1> QED
  BY <1>10, <1>11, <1>12, <1>13, <1>14

\* Every step keeps the invariant: one that fails or that the owner takes is a
\* disturbance, the others are those of the lemmas above.
LEMMA InstallNext ==
  ASSUME InstallInv, Operations \cap Pages = {}, [Tekton!Next]_(Tekton!vars)
  PROVE  InstallInv'
<1>1. InstallTypes /\ InstallTypes'
  BY InstallTypesNext DEF InstallInv
<1> SUFFICES ASSUME Tekton!Undisturbed' PROVE UndisturbedInv'
  BY <1>1 DEF InstallInv
<1>2. UndisturbedInv
  BY <1>1, UndisturbedBefore DEF InstallInv
<1>3. ~(faults' = faults + 1)
  BY <1>1, UndisturbedBefore DEF Tekton!Undisturbed
<1>4. ASSUME NEW r \in Slots, Tekton!Serve(r) PROVE UndisturbedInv'
  <2>1. CASE \/ Tekton!DetectGroups(r) \/ Tekton!DetectController(r) \/ Tekton!Reconcile(r)
             \/ Tekton!EnableRead(r) \/ Tekton!MarkQueued(r)
    BY <1>1, <1>2, <2>1, ReadsAre, UndisturbedReads
  <2>2. CASE Tekton!EnableWrite(r) \/ Tekton!BeginOperation(r)
    BY <1>1, <1>2, <2>2, UndisturbedFlag
  <2>3. ASSUME NEW j \in Tekton!Jobs, Tekton!Insert(r, j) PROVE UndisturbedInv'
    BY <1>1, <1>2, <2>3, UndisturbedInsert
  <2>4. CASE Tekton!DetectFails(r) \/ Tekton!RequestFails(r)
    BY <1>3, <2>4 DEF Tekton!DetectFails, Tekton!RequestFails, Tekton!Fault
  <2> QED
    BY <1>4, <2>1, <2>2, <2>3, <2>4 DEF Tekton!Serve
<1>5. ASSUME NEW r \in Operations, NEW op \in Tekton!Lifecycle, Tekton!Begin(r, op) PROVE UndisturbedInv'
  BY <1>1, <1>2, <1>5, UndisturbedBegin
<1>6. ASSUME NEW r \in Pages, Tekton!Begin(r, "status") PROVE UndisturbedInv'
  BY <1>1, <1>2, <1>6, UndisturbedBegin
<1>7. ASSUME NEW j \in Tekton!Jobs, Tekton!Work(j) PROVE UndisturbedInv'
  <2>1. CASE Tekton!WorkFails(j) \/ Tekton!Crash(j)
    BY <1>3, <2>1 DEF Tekton!WorkFails, Tekton!Crash, Tekton!Fault
  <2> QED
    BY <1>1, <1>2, <1>7, <2>1, UndisturbedWork DEF Tekton!Work
<1>8. CASE Tekton!DisableTekton
  <2>1. ~enabled' /\ UNCHANGED <<parts, ready, ops, job>>
    BY <1>8 DEF Tekton!DisableTekton, Tekton!cluster
  <2> QED
    BY <1>2, <2>1 DEF UndisturbedInv, OneOperation, JobProgress, OnCluster, Pending, StillTrue, Busy, Tekton!Live
<1>9. CASE Tekton!BecomesReady
  <2>1. OnCluster /\ UNCHANGED <<enabled, parts, ops, job>>
    BY <1>9 DEF Tekton!BecomesReady, Tekton!row, OnCluster
  <2> QED
    BY <1>2, <2>1 DEF UndisturbedInv, OneOperation, JobProgress, OnCluster, Pending, StillTrue, Busy, Tekton!Live
<1>10. CASE Tekton!OwnerChanges
  BY <1>3, <1>10 DEF Tekton!OwnerChanges, Tekton!Fault
<1>11. CASE UNCHANGED Tekton!vars
  BY <1>2, <1>11 DEF Tekton!vars, UndisturbedInv, OneOperation, JobProgress, OnCluster, Pending, StillTrue, Busy, Tekton!Live
<1> QED
  BY <1>4, <1>5, <1>6, <1>7, <1>8, <1>9, <1>10, <1>11 DEF Tekton!Next

\* A cluster that is offered as a runner has Tekton on it once nothing is in
\* progress, for any number of requests, pages and jobs: EnableTekton sets the
\* flag before the install and BeginTektonUninstall clears it before the
\* uninstall, and as long as operations do not overlap, nothing fails and the
\* owner keeps out of it, that is enough.
THEOREM EnabledClusterHasTekton ==
  ASSUME Operations \cap Pages = {}
  PROVE  Tekton!Spec => []Tekton!EnabledHasTekton
<1>1. Tekton!Init => InstallInv
  BY InstallInit
<1>2. InstallInv /\ [Tekton!Next]_(Tekton!vars) => InstallInv'
  BY InstallNext
<1>3. InstallInv => Tekton!EnabledHasTekton
  <2> SUFFICES ASSUME InstallInv, Tekton!Undisturbed, Tekton!AtRest, enabled PROVE OnCluster
    BY DEF Tekton!EnabledHasTekton, OnCluster
  <2>1. ~Pending("enable")
    BY DEF Tekton!AtRest, Pending
  <2> QED
    BY <2>1 DEF InstallInv, UndisturbedInv
<1> QED
  BY <1>1, <1>2, <1>3, PTL DEF Tekton!Spec
=============================================================================
