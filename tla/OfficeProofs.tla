---------------------------- MODULE OfficeProofs ----------------------------
(*****************************************************************************)
(* The office: an organization keeps the owner it came with and lets nobody   *)
(* in without an invitation, a wallet is off by no more than what is under way, a file is  *)
(* imported once, the logo on record exists, and a connection carries the    *)
(* tenant of its transaction, for any number of all of these. A calendar     *)
(* month shows every charge that falls into it, for any schedule.            *)
(*****************************************************************************)
EXTENDS Members, Wallet, Imports, OrgConfig, Tenancy, Calendar, Sums

-----------------------------------------------------------------------------
(* Members.                                                                *)

\* The owner is whoever founded the organization, where anybody did.
OwnerStays == founder \in Users => Owners = {founder}

\* No invitation makes an owner, and every one that was sent is for somebody.
InvitesSpareOwner ==
    \A i \in Invites : /\ invite[i].role # "OWNER"
                       /\ invite[i].status # "NONE" => invite[i].for \in Users

\* Whoever is about to make an owner counted none, and has used up their turn.
OwnersAreClaimed == Cardinality(Owners) + Cardinality(Claims) <= Cardinality(Clients)

\* What a request is about to write neither makes an owner nor touches the founder; an
\* acceptance holds what the invitation says, which never changes.
JobOK(j) ==
    /\ j.pc \in {"counting", "seated"} /\ j.op = "invite" => j.role # "OWNER"
    /\ j.pc \in {"inviting", "accepting"} => j.role # "OWNER"
    /\ j.pc \in {"adding", "changing"} /\ j.role = "OWNER" => founder = NoMember
    /\ j.pc \in {"ranking", "changing"} => j.for # founder
    /\ j.pc = "ranking" => j.was # "OWNER"
    /\ j.pc = "accepting" => /\ invite[j.invite].status # "NONE"
                             /\ invite[j.invite].for = j.for /\ invite[j.invite].role = j.role

JobsSpareOwner == \A c \in Clients : JobOK(req[c])

IInv == TypeOK /\ OwnerStays /\ InvitesSpareOwner /\ JobsSpareOwner /\ OwnersAreClaimed

USE MembersAssumption DEF Role, InvitationStatus
-----------------------------------------------------------------------------
LEMMA SeatsAreCounted ==
  ASSUME TypeOK, NEW kind \in {"members", "pending"}
  PROVE  Seats(kind) \in Nat
<1>1. IsFiniteSet({u \in Users : Member(u)}) /\ IsFiniteSet(Pending)
  BY FS_Subset DEF Pending
<1> QED
  BY <1>1, FS_CardinalityType DEF Seats

LEMMA OwnersAreFinite ==
  /\ IsFiniteSet(Owners) /\ IsFiniteSet(Claims) /\ IsFiniteSet(Clients)
  /\ Cardinality(Owners) \in Nat /\ Cardinality(Claims) \in Nat /\ Cardinality(Clients) \in Nat
  BY FS_Subset, FS_CardinalityType DEF Owners, Claims

\* Where no owner is counted, there is none, and nobody founded the organization.
LEMMA NoneIsCounted ==
  ASSUME IInv, Cardinality(Owners) = 0
  PROVE  Owners = {} /\ founder = NoMember
<1>1. Owners = {}
  BY OwnersAreFinite, FS_EmptySet
<1> QED
  BY <1>1 DEF IInv, TypeOK, OwnerStays

\* A request that claims nothing leaves no claim behind, and adds no owner but the one it
\* had claimed.
LEMMA ClaimIsSpent ==
  ASSUME IInv, NEW c \in Clients, NEW job, req' = [req EXCEPT ![c] = job],
         ~(job.pc \in {"adding", "changing"} /\ job.role = "OWNER"),
         \/ Owners' \subseteq Owners
         \/ c \in Claims /\ \E u \in Users : Owners' \subseteq Owners \union {u}
  PROVE  OwnersAreClaimed'
<1>1. Claims' = Claims \ {c}
  BY DEF Claims, IInv, TypeOK
<1>2. Cardinality(Claims') = IF c \in Claims THEN Cardinality(Claims) - 1 ELSE Cardinality(Claims)
  BY <1>1, OwnersAreFinite, FS_RemoveElement
<1>3. Cardinality(Owners) + Cardinality(Claims) <= Cardinality(Clients)
  BY DEF IInv, OwnersAreClaimed
<1>4. IsFiniteSet(Owners') /\ Cardinality(Owners') \in Nat
  BY FS_Subset, FS_CardinalityType DEF Owners
<1>5. CASE Owners' \subseteq Owners
  <2>1. Cardinality(Owners') <= Cardinality(Owners)
    BY <1>5, OwnersAreFinite, FS_Subset
  <2> QED
    BY <1>2, <1>3, <1>4, <2>1, OwnersAreFinite DEF OwnersAreClaimed
<1>6. CASE c \in Claims /\ \E u \in Users : Owners' \subseteq Owners \union {u}
  <2>1. PICK u \in Users : Owners' \subseteq Owners \union {u}
    BY <1>6
  <2>2. /\ IsFiniteSet(Owners \union {u})
        /\ Cardinality(Owners \union {u}) <= Cardinality(Owners) + 1
    <3>1. /\ IsFiniteSet(Owners \union {u})
          /\ Cardinality(Owners \union {u}) =
               IF u \in Owners THEN Cardinality(Owners) ELSE Cardinality(Owners) + 1
      BY OwnersAreFinite, FS_AddElement
    <3> QED
      BY <3>1, OwnersAreFinite
  <2>3. Cardinality(Owners') <= Cardinality(Owners \union {u})
    BY <2>1, <2>2, FS_Subset
  <2>4. Cardinality(Owners \union {u}) \in Nat
    BY <2>2, FS_CardinalityType
  <2> QED
    BY <1>2, <1>3, <1>4, <1>6, <2>2, <2>3, <2>4, OwnersAreFinite DEF OwnersAreClaimed
<1> QED
  BY <1>5, <1>6

\* A request may claim as long as there is no owner.
LEMMA ClaimIsMade ==
  ASSUME IInv, Owners = {}, role' = role
  PROVE  OwnersAreClaimed'
<1>1. Owners' = {} /\ Claims' \subseteq Clients
  BY DEF Owners, Claims
<1>2. Cardinality(Owners') = 0 /\ Cardinality(Claims') <= Cardinality(Clients)
  BY <1>1, OwnersAreFinite, FS_EmptySet, FS_Subset
<1>3. Cardinality(Claims') \in Nat
  BY <1>1, OwnersAreFinite, FS_Subset, FS_CardinalityType
<1> QED
  BY <1>2, <1>3, OwnersAreFinite DEF OwnersAreClaimed

\* One request moves on: its new job must be sound; what invitations say stays.
LEMMA JobStep ==
  ASSUME IInv, NEW c \in Clients, NEW job \in Job, req' = [req EXCEPT ![c] = job],
         JobOK(job)', founder' = founder, OwnersAreClaimed',
         role' \in [Users -> Role \union {NoMember}], OwnerStays',
         invite' \in [Invites -> [status : InvitationStatus \union {"NONE", "DELETED"},
                                  for : Users \union {NoMember}, role : Role, late : BOOLEAN]],
         InvitesSpareOwner',
         \A i \in Invites : invite[i].status # "NONE" =>
             /\ invite'[i].status # "NONE"
             /\ invite'[i].for = invite[i].for /\ invite'[i].role = invite[i].role
  PROVE  IInv'
<1>1. TypeOK'
  BY DEF IInv, TypeOK
<1>2. ASSUME NEW d \in Clients PROVE JobOK(req[d])'
  <2>1. CASE d = c
    BY <2>1 DEF IInv, TypeOK
  <2>2. CASE d # c
    <3>1. req'[d] = req[d]
      BY <2>2 DEF IInv, TypeOK
    <3>2. req[d].pc = "accepting" => req[d].invite \in Invites
      BY DEF IInv, TypeOK, Job
    <3>3. JobOK(req[d])
      BY DEF IInv, JobsSpareOwner
    <3> QED
      BY <3>1, <3>2, <3>3 DEF JobOK
  <2> QED
    BY <2>1, <2>2
<1> QED
  BY <1>1, <1>2 DEF IInv, JobsSpareOwner

\* A step that reads, and decides.
LEMMA BeginStep ==
  ASSUME IInv, NEW c \in Clients, NEW job \in Job, JobOK(job), Begin(c, job),
         job.pc \in {"adding", "changing"} /\ job.role = "OWNER" => Owners = {}
  PROVE  IInv'
<1>1. role' = role /\ invite' = invite /\ founder' = founder /\ req' = [req EXCEPT ![c] = job]
  BY DEF Begin
<1>2. JobOK(job)' /\ OwnerStays' /\ InvitesSpareOwner'
  BY <1>1 DEF JobOK, IInv, OwnerStays, Owners, InvitesSpareOwner
<1>claims. OwnersAreClaimed'
  BY <1>1, ClaimIsSpent, ClaimIsMade DEF Owners
<1>3. /\ role' \in [Users -> Role \union {NoMember}]
      /\ invite' \in [Invites -> [status : InvitationStatus \union {"NONE", "DELETED"},
                                  for : Users \union {NoMember}, role : Role, late : BOOLEAN]]
  BY <1>1 DEF IInv, TypeOK
<1> QED
  BY <1>1, <1>2, <1>3, <1>claims, JobStep

IdleJob == [pc |-> "idle"]

LEMMA IdleJobOK == IdleJob \in Job /\ JobOK(IdleJob) /\ JobOK(IdleJob)'
  BY DEF IdleJob, Job, JobOK

LEMMA FailStep ==
  ASSUME IInv, NEW c \in Clients, Fail(c)
  PROVE  IInv'
<1>1. Begin(c, IdleJob)
  BY DEF Fail, Done, Begin, IdleJob
<1> QED
  BY <1>1, IdleJobOK, BeginStep DEF IdleJob

\* A request ends with a write of the members.
LEMMA RoleStep ==
  ASSUME IInv, NEW c \in Clients, Done(c), invite' = invite,
         NEW u \in Users, NEW r \in Role \union {NoMember}, role' = [role EXCEPT ![u] = r],
         u # founder, r = "OWNER" => c \in Claims /\ founder = NoMember
  PROVE  IInv'
<1>new. founder' = founder /\ Owners' \subseteq Owners \union {u}
        /\ (r # "OWNER" => Owners' = Owners \ {u})
  BY DEF Done, Owners, IInv, TypeOK
<1>1. role' \in [Users -> Role \union {NoMember}] /\ OwnerStays'
  BY <1>new DEF IInv, TypeOK, OwnerStays
<1>2. /\ invite' \in [Invites -> [status : InvitationStatus \union {"NONE", "DELETED"},
                                  for : Users \union {NoMember}, role : Role, late : BOOLEAN]]
      /\ InvitesSpareOwner'
  BY DEF IInv, TypeOK, InvitesSpareOwner
<1>3. req' = [req EXCEPT ![c] = IdleJob]
  BY DEF Done, IdleJob
<1>4. OwnersAreClaimed'
  BY <1>new, <1>3, ClaimIsSpent DEF IdleJob
<1> QED
  BY <1>1, <1>2, <1>3, <1>4, <1>new, IdleJobOK, JobStep

\* A request ends with a change of the status of an invitation.
LEMMA StatusStep ==
  ASSUME IInv, NEW c \in Clients, Done(c), role' = role,
         NEW i \in Invites, NEW s \in InvitationStatus \union {"DELETED"},
         invite[i].status # "NONE",
         invite' = [invite EXCEPT ![i].status = s]
  PROVE  IInv'
<1>1. /\ invite' \in [Invites -> [status : InvitationStatus \union {"NONE", "DELETED"},
                                  for : Users \union {NoMember}, role : Role, late : BOOLEAN]]
      /\ \A j \in Invites : /\ invite[j].status # "NONE" => invite'[j].status # "NONE"
                            /\ invite'[j].for = invite[j].for /\ invite'[j].role = invite[j].role
  BY DEF IInv, TypeOK
<1>2. InvitesSpareOwner' /\ OwnerStays' /\ role' \in [Users -> Role \union {NoMember}]
  <2>1. founder' = founder /\ Owners' = Owners
    BY DEF Done, Owners
  <2>2. \A j \in Invites : invite'[j].status # "NONE" => invite[j].for \in Users
    BY DEF IInv, TypeOK, InvitesSpareOwner
  <2> QED
    BY <1>1, <2>1, <2>2 DEF IInv, TypeOK, InvitesSpareOwner, OwnerStays
<1>3. req' = [req EXCEPT ![c] = IdleJob] /\ founder' = founder
  BY DEF Done, IdleJob
<1>4. OwnersAreClaimed'
  BY <1>3, ClaimIsSpent DEF IdleJob, Owners
<1> QED
  BY <1>1, <1>2, <1>3, <1>4, IdleJobOK, JobStep
-----------------------------------------------------------------------------
LEMMA CountingStep ==
  ASSUME IInv, NEW c \in Clients, NEW kind \in {"members", "pending"},
         CountFirst(c, kind) \/ CountSecond(c, kind)
  PROVE  IInv'
<1>1. JobOK(req[c]) /\ Seats(kind) \in Nat
  BY SeatsAreCounted DEF IInv, JobsSpareOwner
<1>2. req[c] \in [pc : {"counting"}, op : {"invite", "add"}, for : Users, role : Role,
                  todo : SUBSET {"members", "pending"}, seats : Nat]
  BY DEF CountFirst, CountSecond, IInv, TypeOK, Job
<1>3. CASE CountFirst(c, kind)
  <2> DEFINE job == [req[c] EXCEPT !.todo = @ \ {kind}, !.seats = Seats(kind)]
  <2>1. job \in [pc : {"counting"}, op : {"invite", "add"}, for : Users, role : Role,
                 todo : SUBSET {"members", "pending"}, seats : Nat]
    BY <1>1, <1>2
  <2>2. job.pc = "counting" /\ job.op = req[c].op /\ job.role = req[c].role
    BY <1>2
  <2>3. job \in Job /\ JobOK(job)
    BY <1>1, <1>2, <2>1, <2>2 DEF Job, JobOK
  <2> QED
    BY <1>3, <2>2, <2>3, BeginStep DEF CountFirst
<1>4. CASE CountSecond(c, kind)
  <2> DEFINE job == [pc |-> "seated", op |-> req[c].op, for |-> req[c].for, role |-> req[c].role]
  <2>1. job \in Job /\ JobOK(job)
    BY <1>1, <1>2 DEF Job, JobOK
  <2> QED
    BY <1>4, <2>1, BeginStep, FailStep DEF CountSecond
<1> QED
  BY <1>3, <1>4

LEMMA StartCountingStep ==
  ASSUME IInv, NEW c \in Clients, NEW u \in Users, NEW r \in Role,
         StartInvite(c, u, r) \/ StartAdd(c, u, r)
  PROVE  IInv'
<1>1. PICK op \in {"invite", "add"} : (op = "invite" => r # "OWNER") /\ Counting(c, op, u, r)
  BY DEF StartInvite, StartAdd
<1> DEFINE job == [pc |-> "counting", op |-> op, for |-> u, role |-> r,
                   todo |-> {"members", "pending"}, seats |-> 0]
<1>2. job \in Job /\ JobOK(job)
  BY <1>1 DEF Job, JobOK
<1> QED
  BY <1>1, <1>2, BeginStep DEF Counting

LEMMA StartMarkStep ==
  ASSUME IInv, NEW c \in Clients, NEW i \in Invites, StartVerify(c, i) \/ StartWithdraw(c, i)
  PROVE  IInv'
<1>1. PICK pc \in {"marking", "withdrawing"} : Begin(c, [pc |-> pc, invite |-> i])
  BY DEF StartVerify, StartWithdraw
<1>2. [pc |-> pc, invite |-> i] \in Job /\ JobOK([pc |-> pc, invite |-> i])
  BY DEF Job, JobOK
<1> QED
  BY <1>1, <1>2, BeginStep

LEMMA StartAcceptStep ==
  ASSUME IInv, NEW c \in Clients, NEW i \in Invites, StartAccept(c, i)
  PROVE  IInv'
<1> DEFINE job == [pc |-> "accepting", invite |-> i, for |-> invite[i].for, role |-> invite[i].role]
<1>1. invite[i].for \in Users /\ invite[i].role \in Role /\ invite[i].status = "PENDING"
  BY DEF StartAccept, IInv, TypeOK, InvitesSpareOwner
<1>2. job \in Job
  BY <1>1 DEF Job
<1>3. JobOK(job)
  BY <1>1 DEF JobOK, IInv, InvitesSpareOwner
<1> QED
  BY <1>2, <1>3, BeginStep DEF StartAccept

LEMMA InviteFindStep ==
  ASSUME IInv, NEW c \in Clients, FindPending(c)
  PROVE  IInv'
<1> DEFINE job == [req[c] EXCEPT !.pc = "inviting"]
<1>1. JobOK(req[c])
  BY DEF IInv, JobsSpareOwner
<1>2. req[c] \in [pc : {"seated", "inviting", "adding"}, op : {"invite", "add"},
                  for : Users, role : Role]
  BY DEF FindPending, IInv, TypeOK, Job
<1>3. /\ job \in [pc : {"inviting"}, op : {"invite", "add"}, for : Users, role : Role]
      /\ job.role = req[c].role
  BY <1>2
<1>4. job \in Job
  BY <1>3 DEF Job
<1>5. JobOK(job)
  BY <1>1, <1>3 DEF JobOK, FindPending
<1> QED
  BY <1>3, <1>4, <1>5, BeginStep, FailStep DEF FindPending

LEMMA InviteInsertStep ==
  ASSUME IInv, NEW c \in Clients, NEW i \in Invites, Insert(c, i)
  PROVE  IInv'
<1>1. JobOK(req[c])
  BY DEF IInv, JobsSpareOwner
<1>2. req[c] \in [pc : {"seated", "inviting", "adding"}, op : {"invite", "add"},
                  for : Users, role : Role]
  BY DEF Insert, IInv, TypeOK, Job
<1>3. /\ invite' \in [Invites -> [status : InvitationStatus \union {"NONE", "DELETED"},
                                  for : Users \union {NoMember}, role : Role, late : BOOLEAN]]
      /\ \A j \in Invites : j # i => invite'[j] = invite[j]
      /\ invite'[i].role = req[c].role /\ invite'[i].for \in Users /\ invite[i].status = "NONE"
  BY <1>2 DEF Insert, IInv, TypeOK
<1>4. InvitesSpareOwner'
  BY <1>1, <1>3 DEF Insert, JobOK, IInv, InvitesSpareOwner
<1>5. /\ OwnerStays' /\ role' \in [Users -> Role \union {NoMember}]
      /\ founder' = founder /\ Owners' = Owners
  BY DEF Insert, Done, IInv, TypeOK, OwnerStays, Owners
<1>6. req' = [req EXCEPT ![c] = IdleJob]
  BY DEF Insert, Done, IdleJob
<1>7. OwnersAreClaimed'
  BY <1>5, <1>6, ClaimIsSpent DEF IdleJob
<1> QED
  BY <1>3, <1>4, <1>5, <1>6, <1>7, IdleJobOK, JobStep

LEMMA AddStep ==
  ASSUME IInv, NEW c \in Clients, CheckAdd(c) \/ AddMember(c)
  PROVE  IInv'
<1>1. JobOK(req[c]) /\ OwnerStays
  BY DEF IInv, JobsSpareOwner
<1>2. req[c] \in [pc : {"seated", "inviting", "adding"}, op : {"invite", "add"},
                  for : Users, role : Role]
  BY DEF CheckAdd, AddMember, IInv, TypeOK, Job
<1>3. CASE CheckAdd(c)
  <2> DEFINE job == [req[c] EXCEPT !.pc = "adding"]
  <2>1. /\ job \in [pc : {"adding"}, op : {"invite", "add"}, for : Users, role : Role]
        /\ job.role = req[c].role
    BY <1>2
  <2>2. job \in Job
    BY <2>1 DEF Job
  <2>3. CASE canAssignRole(req[c].role, Cardinality(Owners), NoMember)
    <3>1. req[c].role = "OWNER" => Owners = {} /\ founder = NoMember
      BY <2>3, NoneIsCounted DEF canAssignRole
    <3>2. JobOK(job)
      BY <2>1, <3>1 DEF JobOK
    <3> QED
      BY <1>3, <2>1, <2>2, <2>3, <3>1, <3>2, BeginStep DEF CheckAdd
  <2>4. CASE ~canAssignRole(req[c].role, Cardinality(Owners), NoMember)
    BY <1>3, <2>4, FailStep DEF CheckAdd
  <2> QED
    BY <2>3, <2>4
<1>4. CASE AddMember(c)
  <2>1. CASE Member(req[c].for)
    BY <1>4, <2>1, FailStep DEF AddMember
  <2>2. CASE ~Member(req[c].for)
    <3>1. req[c].for # founder
      BY <1>1, <1>2, <2>2 DEF OwnerStays, Owners, Member
    <3>2. req[c].role = "OWNER" => c \in Claims /\ founder = NoMember
      BY <1>1, <1>4 DEF AddMember, JobOK, Claims
    <3> QED
      BY <1>2, <1>4, <2>2, <3>1, <3>2, RoleStep DEF AddMember
  <2> QED
    BY <2>1, <2>2
<1> QED
  BY <1>3, <1>4

LEMMA AcceptStep ==
  ASSUME IInv, NEW c \in Clients, CommitAccept(c)
  PROVE  IInv'
<1>1. JobOK(req[c])
  BY DEF IInv, JobsSpareOwner
<1>2. req[c] \in [pc : {"accepting"}, invite : Invites, for : Users, role : Role]
  BY DEF CommitAccept, IInv, TypeOK, Job
<1>3. CASE ~Member(req[c].for) /\ OnFile(req[c].invite)
  <2>1. /\ role' = [role EXCEPT ![req[c].for] = req[c].role]
        /\ invite' = [invite EXCEPT ![req[c].invite].status = "ACCEPTED"]
        /\ req' = [req EXCEPT ![c] = IdleJob]
    BY <1>3 DEF CommitAccept, Done, IdleJob
  <2>2. req[c].role # "OWNER" /\ founder' = founder /\ invite[req[c].invite].status # "NONE"
    BY <1>1, <1>3 DEF JobOK, CommitAccept, Done, OnFile
  <2>3. /\ OwnerStays' /\ role' \in [Users -> Role \union {NoMember}]
        /\ Owners' = Owners
    BY <1>2, <1>3, <2>1, <2>2 DEF IInv, TypeOK, OwnerStays, Owners, Member
  <2>4. /\ invite' \in [Invites -> [status : InvitationStatus \union {"NONE", "DELETED"},
                                    for : Users \union {NoMember}, role : Role, late : BOOLEAN]]
        /\ \A j \in Invites : /\ invite[j].status # "NONE" => invite'[j].status # "NONE"
                              /\ invite'[j].for = invite[j].for /\ invite'[j].role = invite[j].role
    BY <1>2, <2>1 DEF IInv, TypeOK
  <2>5. InvitesSpareOwner'
    <3>1. \A j \in Invites : invite'[j].status # "NONE" => invite[j].status # "NONE"
      BY <1>2, <2>1, <2>2 DEF IInv, TypeOK
    <3> QED
      BY <2>4, <3>1 DEF IInv, InvitesSpareOwner
  <2>6. OwnersAreClaimed'
    BY <2>1, <2>3, ClaimIsSpent DEF IdleJob
  <2> QED
    BY <2>1, <2>2, <2>3, <2>4, <2>5, <2>6, IdleJobOK, JobStep
<1>4. CASE ~(~Member(req[c].for) /\ OnFile(req[c].invite))
  BY <1>4, FailStep DEF CommitAccept
<1> QED
  BY <1>3, <1>4

LEMMA MarkStep ==
  ASSUME IInv, NEW c \in Clients, MarkExpired(c) \/ Withdraw(c)
  PROVE  IInv'
<1>1. req[c].invite \in Invites
  BY DEF MarkExpired, Withdraw, IInv, TypeOK, Job
<1>2. CASE OnFile(req[c].invite)
  <2>0. invite[req[c].invite].status # "NONE"
    BY <1>2 DEF OnFile
  <2>1. PICK s \in {"EXPIRED", "DELETED"} :
          invite' = [invite EXCEPT ![req[c].invite].status = s] /\ Done(c) /\ role' = role
    BY <1>2 DEF MarkExpired, Withdraw
  <2> QED
    BY <1>1, <2>0, <2>1, StatusStep
<1>3. CASE ~OnFile(req[c].invite)
  BY <1>3, FailStep DEF MarkExpired, Withdraw
<1> QED
  BY <1>2, <1>3

LEMMA ChangeStep ==
  ASSUME IInv, NEW c \in Clients,
         \/ \E actor, u \in Users, new \in Role \union {NoMember} : StartChange(c, actor, u, new)
         \/ CheckRank(c) \/ CommitChange(c)
  PROVE  IInv'
<1>1. JobOK(req[c]) /\ OwnerStays
  BY DEF IInv, JobsSpareOwner
<1>2. ASSUME NEW actor \in Users, NEW u \in Users, NEW new \in Role \union {NoMember},
             StartChange(c, actor, u, new)
      PROVE  IInv'
  <2> DEFINE job == [pc |-> "ranking", actor |-> actor, for |-> u, was |-> role[u], role |-> new]
  <2>1. role[u] \in Role /\ role[u] # "OWNER" /\ u # founder
    BY <1>1, <1>2 DEF StartChange, IInv, TypeOK, Member, OwnerStays, Owners
  <2>2. job \in Job
    BY <2>1 DEF Job
  <2>3. JobOK(job)
    BY <2>1 DEF JobOK
  <2> QED
    BY <1>2, <2>2, <2>3, BeginStep DEF StartChange
<1>3. CASE CheckRank(c)
  <2> DEFINE job == [pc |-> "changing", for |-> req[c].for, role |-> req[c].role]
  <2>1. req[c] \in [pc : {"ranking"}, actor : Users, for : Users, was : Role,
                    role : Role \union {NoMember}]
    BY <1>3 DEF CheckRank, IInv, TypeOK, Job
  <2>2. job \in Job
    BY <2>1 DEF Job
  <2>3. CASE Begin(c, job) /\ canAssignRole(req[c].role, Cardinality(Owners), req[c].was)
    <3>1. /\ req[c].role = "OWNER" => Owners = {} /\ founder = NoMember
          /\ req[c].for # founder
      BY <1>1, <1>3, <2>3, NoneIsCounted DEF canAssignRole, JobOK, CheckRank
    <3>2. JobOK(job)
      BY <3>1 DEF JobOK
    <3> QED
      BY <2>2, <2>3, <3>1, <3>2, BeginStep
  <2>4. CASE Fail(c)
    BY <2>4, FailStep
  <2> QED
    BY <1>3, <2>3, <2>4 DEF CheckRank
<1>4. CASE CommitChange(c)
  <2>1. req[c] \in [pc : {"changing"}, for : Users, role : Role \union {NoMember}]
    BY <1>4 DEF CommitChange, IInv, TypeOK, Job
  <2>2. /\ req[c].for # founder
        /\ req[c].role = "OWNER" => c \in Claims /\ founder = NoMember
    BY <1>1, <1>4 DEF CommitChange, JobOK, Claims
  <2> QED
    BY <1>4, <2>1, <2>2, RoleStep, FailStep DEF CommitChange
<1> QED
  BY <1>2, <1>3, <1>4

\* Time passes, and lists sweep what is late.
LEMMA ClockStep ==
  ASSUME IInv, NEW i \in Invites, Sweep \/ Tick(i)
  PROVE  IInv'
<1>1. ASSUME NEW j \in Invites
      PROVE  /\ invite'[j] \in [status : InvitationStatus \union {"NONE", "DELETED"},
                                for : Users \union {NoMember}, role : Role, late : BOOLEAN]
             /\ invite[j].status # "NONE" <=> invite'[j].status # "NONE"
             /\ invite'[j].for = invite[j].for /\ invite'[j].role = invite[j].role
  <2> DEFINE Columns == [status : InvitationStatus \union {"NONE", "DELETED"},
                         for : Users \union {NoMember}, role : Role, late : BOOLEAN]
  <2>1. invite \in [Invites -> Columns] /\ invite[j] \in Columns
    BY DEF IInv, TypeOK
  <2>2. CASE Sweep
    BY <2>1, <2>2 DEF Sweep, Pending
  <2>3. CASE Tick(i)
    BY <2>1, <2>3 DEF Tick, OnFile
  <2> QED
    BY <2>2, <2>3
<1>fun. invite' = [j \in Invites |-> invite'[j]]
  BY DEF Sweep, Tick, IInv, TypeOK
<1>2. role' = role /\ req' = req /\ founder' = founder
  BY DEF Sweep, Tick
<1>3. TypeOK' /\ OwnerStays' /\ InvitesSpareOwner' /\ OwnersAreClaimed'
  BY <1>1, <1>2, <1>fun
     DEF IInv, TypeOK, OwnerStays, InvitesSpareOwner, OwnersAreClaimed, Owners, Claims
<1>4. JobsSpareOwner'
  <2> SUFFICES ASSUME NEW c \in Clients PROVE JobOK(req[c])'
    BY DEF JobsSpareOwner
  <2>1. JobOK(req[c]) /\ (req[c].pc = "accepting" => req[c].invite \in Invites)
    BY DEF IInv, JobsSpareOwner, TypeOK, Job
  <2> QED
    BY <1>1, <1>2, <2>1 DEF JobOK
<1> QED
  BY <1>3, <1>4 DEF IInv

LEMMA InvStep == IInv /\ [Next]_vars => IInv'
<1> SUFFICES ASSUME IInv, [Next]_vars PROVE IInv'
    OBVIOUS
<1>1. ASSUME NEW c \in Clients, Invitation(c) PROVE IInv'
  BY <1>1, StartCountingStep, InviteFindStep, InviteInsertStep, StartMarkStep, StartAcceptStep,
     MarkStep, AcceptStep DEF Invitation
<1>2. ASSUME NEW c \in Clients, Membership(c) PROVE IInv'
  BY <1>2, StartCountingStep, AddStep, ChangeStep DEF Membership
<1>3. ASSUME NEW c \in Clients, NEW kind \in {"members", "pending"},
             CountFirst(c, kind) \/ CountSecond(c, kind)
      PROVE  IInv'
  BY <1>3, CountingStep
<1>4. ASSUME NEW c \in Clients, Abort(c) PROVE IInv'
  BY <1>4, FailStep DEF Abort
<1>5. ASSUME Sweep \/ \E i \in Invites : Tick(i) PROVE IInv'
  BY <1>5, ClockStep DEF Sweep, Pending
<1>6. CASE UNCHANGED vars
  BY <1>6 DEF vars, IInv, TypeOK, OwnerStays, InvitesSpareOwner, JobsSpareOwner, JobOK,
             OwnersAreClaimed, Owners, Claims
<1> QED
  BY <1>1, <1>2, <1>3, <1>4, <1>5, <1>6 DEF Next
-----------------------------------------------------------------------------
\* A founder stays the owner, and no request under way is about to change that; where
\* nobody founded it, there are no more owners than requests that overlapped.
THEOREM MembersInvariant == Spec => []IInv
<1>1. Init => IInv
  <2> SUFFICES ASSUME Init PROVE IInv
      OBVIOUS
  <2>1. TypeOK
    BY DEF Init, TypeOK, Job
  <2>2. OwnerStays /\ InvitesSpareOwner /\ JobsSpareOwner
    BY DEF Init, OwnerStays, Owners, InvitesSpareOwner, JobsSpareOwner, JobOK
  <2>3. OwnersAreClaimed
    <3>1. Claims = {} /\ (founder \in Users => Owners = {founder}) /\ (founder = NoMember => Owners = {})
      BY DEF Init, Claims, Owners
    <3>2. Cardinality(Claims) = 0 /\ Cardinality(Owners) \in {0, 1}
      <4>1. Cardinality({}) = 0 /\ Cardinality({founder}) = 1
        BY FS_EmptySet, FS_Singleton
      <4> QED
        BY <3>1, <4>1 DEF Init
    <3>3. Cardinality(Clients) # 0
      BY OwnersAreFinite, FS_EmptySet
    <3> QED
      BY <3>2, <3>3, OwnersAreFinite DEF OwnersAreClaimed
  <2> QED
    BY <2>1, <2>2, <2>3 DEF IInv
<1> QED
  BY <1>1, InvStep, PTL DEF Spec

\* An organization keeps the one OWNER it came with, however many requests overlap; where
\* it came with none, each of those that overlapped makes one at most
\* (OrganizationUsersService, canAssignRole).
THEOREM OwnerIsUnique == Spec => []OneOwner
<1>1. IInv => OneOwner
  BY DEF IInv, OwnerStays, OwnersAreClaimed, OneOwner
<1> QED
  BY <1>1, MembersInvariant, PTL

\* Whoever comes in was added by hand, or accepted an invitation that names them and is on
\* file (InvitationsService.acceptInvitation).
THEOREM GuestsAreInvited == Spec => JoinedByInvitation
<1> DEFINE Joins ==
      \A u \in Users : role[u] = NoMember /\ role'[u] # NoMember =>
         \/ \E c \in Clients : AddMember(c) /\ req[c].for = u
         \/ \E i \in Invites : JoinsBy(u, i)
<1>1. IInv /\ [Next]_vars => [Joins]_vars
  <2> SUFFICES ASSUME IInv, [Next]_vars, NEW u \in Users, role[u] = NoMember, role'[u] # NoMember
               PROVE  \/ \E c \in Clients : AddMember(c) /\ req[c].for = u
                      \/ \E i \in Invites : JoinsBy(u, i)
      BY DEF Joins
  <2>1. role' # role
    BY SMTT(30)
  <2>2. PICK c \in Clients : AddMember(c) \/ CommitAccept(c) \/ CommitChange(c)
    BY ZenonT(40), <2>1 DEF Next, vars, Invitation, Membership, Begin, Fail, Counting, CountFirst, CountSecond,
                StartInvite, StartAdd, StartChange, FindPending, Insert, CheckAdd, StartVerify,
                MarkExpired, StartAccept, StartWithdraw, Withdraw, Sweep, Tick, CheckRank, Abort
  <2>3. CASE AddMember(c)
    <3>1. req[c] \in [pc : {"adding"}, op : {"invite", "add"}, for : Users, role : Role]
      BY <2>3 DEF AddMember, IInv, TypeOK, Job
    <3>2. req[c].for = u
      BY <2>3, <3>1 DEF AddMember, Fail, IInv, TypeOK
    <3> QED
      BY <2>3, <3>2
  <2>4. CASE CommitAccept(c)
    <3>1. req[c] \in [pc : {"accepting"}, invite : Invites, for : Users, role : Role]
      BY <2>4 DEF CommitAccept, IInv, TypeOK, Job
    <3>2. /\ OnFile(req[c].invite)
          /\ role' = [role EXCEPT ![req[c].for] = req[c].role]
          /\ invite' = [invite EXCEPT ![req[c].invite].status = "ACCEPTED"]
      BY <2>1, <2>4 DEF CommitAccept, Fail
    <3>3. u = req[c].for
      BY <3>1, <3>2 DEF IInv, TypeOK
    <3>4. invite[req[c].invite].for = req[c].for /\ invite[req[c].invite].role = req[c].role
      BY <2>4 DEF CommitAccept, IInv, JobsSpareOwner, JobOK
    <3>5. role'[u] = req[c].role /\ invite'[req[c].invite].status = "ACCEPTED"
      BY <3>1, <3>2, <3>3 DEF IInv, TypeOK
    <3> QED
      BY <3>1, <3>2, <3>3, <3>4, <3>5 DEF JoinsBy
  <2>5. CASE CommitChange(c)
    <3>1. req[c] \in [pc : {"changing"}, for : Users, role : Role \union {NoMember}]
      BY <2>5 DEF CommitChange, IInv, TypeOK, Job
    <3>2. Member(req[c].for) /\ role' = [role EXCEPT ![req[c].for] = req[c].role]
      BY <2>1, <2>5 DEF CommitChange, Fail
    <3> QED
      BY <3>1, <3>2 DEF Member, IInv, TypeOK
  <2> QED
    BY <2>2, <2>3, <2>4, <2>5
<1> QED
  BY <1>1, MembersInvariant, PTL DEF Spec, JoinedByInvitation

HIDE MembersAssumption DEF Role, InvitationStatus

-----------------------------------------------------------------------------
(* Wallet: few default cards, and a price that is on record.               *)

CardStatus == {"none", "plain", "default", "gone"}

CardEdit == [pc : {"clearing", "marking"}, card : Cards, new : BOOLEAN]

PriceWork == {"created", "recording", "pricing"}

PriceEdit == [pc : PriceWork, price : Prices, sent : SUBSET PriceColumns]

WalletTypeOK ==
  /\ card \in [Cards -> CardStatus]
  /\ price \in Prices \union {NoPrice} /\ mixed \in BOOLEAN
  /\ edit \in [Editors -> [pc : {"idle"}] \union CardEdit \union PriceEdit]

Defaults == {c \in Cards : card[c] = "default"}

Marking == {e \in Editors : Doing(e, "marking")}

Marked == {edit[e].card : e \in Marking}

\* A default card belongs to whoever is about to mark it again, or else to a request that has
\* nothing left to mark.
FewDefaults ==
  /\ IsFiniteSet(Defaults \ Marked)
  /\ Cardinality(Defaults \ Marked) + Cardinality(Marking) <= Cardinality(Editors)

\* A price is known by its columns, and as a whole unless changes have been mixed.
Held(new) ==
  /\ \E known \in Known : known.amount = new.amount
  /\ \E known \in Known : known.currency = new.currency
  /\ mixed \/ new \in Known

\* A change of half a price is over what the row holds, and nobody else's is under way, unless
\* changes have been mixed.
Alone(e) ==
  \/ mixed
  \/ edit[e].sent = PriceColumns
  \/ /\ edit[e].price = Merge(price, edit[e].price, edit[e].sent)
     /\ \A f \in Editors \ {e} : ~Repricing(f)

PricesOnRecord ==
  price # NoPrice =>
    /\ Held(price)
    /\ \A e \in Editors : Doing(e, "pricing") => Held(edit[e].price)
    /\ \A e \in Editors : Repricing(e) => Alone(e)

WalletInv == WalletTypeOK /\ FewDefaults /\ PricesOnRecord

LEMMA IdleEdit == NoEdit \in [pc : {"idle"}] /\ NoEdit.pc = "idle"
BY DEF NoEdit

\* What an edit at some point holds.
LEMMA EditShape ==
  ASSUME WalletTypeOK, NEW e \in Editors
  PROVE  /\ edit[e].pc \in {"idle", "clearing", "marking", "created", "recording", "pricing"}
         /\ edit[e].pc \in {"clearing", "marking"} => edit[e] \in CardEdit /\ edit[e].card \in Cards
         /\ edit[e].pc \in PriceWork =>
              /\ edit[e] \in PriceEdit /\ edit[e].price \in Prices /\ edit[e].sent \in SUBSET PriceColumns
              /\ "price" \in DOMAIN edit[e]
BY DEF WalletTypeOK, CardEdit, PriceEdit, PriceWork

LEMMA MarkersAreFew ==
  ASSUME NEW S \in SUBSET Editors
  PROVE  /\ IsFiniteSet(S) /\ Cardinality(S) \in Nat /\ Cardinality(Editors) \in Nat
         /\ Cardinality(S) <= Cardinality(Editors)
BY WalletAssumption, FS_Subset, FS_CardinalityType

\* The marked cards are no more than the requests that mark them.
LEMMA MarkedAreFew ==
  /\ IsFiniteSet(Marked) /\ Cardinality(Marked) \in Nat
  /\ Cardinality(Marked) <= Cardinality(Marking)
<1> DEFINE f == [e \in Marking |-> edit[e].card]
<1>1. f \in Surjection(Marking, Marked)
  BY DEF Surjection, Marked
<1>2. IsFiniteSet(Marking)
  BY MarkersAreFew DEF Marking
<1>. HIDE DEF f
<1>. QED
  BY <1>1, <1>2, FS_Surjection, FS_CardinalityType

LEMMA FewDefaultsSuffice == FewDefaults => DefaultsNearlyUnique
<1>. SUFFICES ASSUME FewDefaults PROVE DefaultsNearlyUnique
  OBVIOUS
<1>1. PICK D : D = Defaults \ Marked
  OBVIOUS
<1>2. IsFiniteSet(D) /\ Cardinality(D) + Cardinality(Marking) <= Cardinality(Editors)
  BY <1>1 DEF FewDefaults
<1>3. Defaults \subseteq D \union Marked
  BY <1>1
<1>4. /\ IsFiniteSet(D \union Marked)
      /\ Cardinality(D \union Marked) = Cardinality(D) + Cardinality(Marked) - Cardinality(D \intersect Marked)
  BY <1>2, MarkedAreFew, FS_Union
<1>5. Cardinality(D \intersect Marked) \in Nat
  BY <1>2, FS_Intersection, FS_CardinalityType
<1>6. Cardinality(Defaults) <= Cardinality(D \union Marked) /\ IsFiniteSet(Defaults)
  BY <1>3, <1>4, FS_Subset
<1>7. /\ Cardinality(Defaults) \in Nat /\ Cardinality(D) \in Nat /\ Cardinality(Marking) \in Nat
      /\ Cardinality(D \union Marked) \in Nat /\ Cardinality(Editors) \in Nat
  BY <1>2, <1>4, <1>6, FS_CardinalityType, MarkersAreFew DEF Marking
<1>8. Cardinality(Defaults) <= Cardinality(Editors)
  BY <1>2, <1>4, <1>5, <1>6, <1>7, MarkedAreFew
<1>. QED
  BY <1>8 DEF DefaultsNearlyUnique, Defaults

\* No default appears and nobody starts to mark.
LEMMA FewerDefaults ==
  ASSUME FewDefaults, (Defaults \ Marked)' \subseteq Defaults \ Marked, Marking' \subseteq Marking
  PROVE  FewDefaults'
<1>1. PICK D, E : D = Defaults \ Marked /\ E = (Defaults \ Marked)'
  OBVIOUS
<1>2. PICK M, N : M = Marking /\ N = Marking'
  OBVIOUS
<1>3. /\ IsFiniteSet(E) /\ Cardinality(E) <= Cardinality(D)
      /\ Cardinality(E) \in Nat /\ Cardinality(D) \in Nat
  BY <1>1, FS_Subset, FS_CardinalityType DEF FewDefaults
<1>4. M \subseteq Editors /\ N \subseteq M
  BY <1>2 DEF Marking
<1>5. Cardinality(N) <= Cardinality(M) /\ Cardinality(N) \in Nat /\ Cardinality(M) \in Nat
  BY <1>4, MarkersAreFew, FS_Subset
<1>6. Cardinality(Editors) \in Nat
  BY <1>4, MarkersAreFew
<1>7. Cardinality(D) + Cardinality(M) <= Cardinality(Editors)
  BY <1>1, <1>2 DEF FewDefaults
<1>8. Cardinality(E) + Cardinality(N) <= Cardinality(Editors)
  BY <1>3, <1>5, <1>6, <1>7
<1>. QED
  BY <1>1, <1>2, <1>3, <1>8 DEF FewDefaults

\* Somebody has marked, and leaves one default at most.
LEMMA OneDefaultMore ==
  ASSUME FewDefaults, NEW e \in Marking, NEW c, Marking' = Marking \ {e},
         (Defaults \ Marked)' \subseteq (Defaults \ Marked) \union {c}
  PROVE  FewDefaults'
<1>1. PICK D, E : D = Defaults \ Marked /\ E = (Defaults \ Marked)'
  OBVIOUS
<1>2. PICK M, N : M = Marking /\ N = Marking'
  OBVIOUS
<1>3. IsFiniteSet(D) /\ Cardinality(D) \in Nat
  BY <1>1, FS_CardinalityType DEF FewDefaults
<1>4. /\ IsFiniteSet(D \union {c}) /\ Cardinality(D \union {c}) <= Cardinality(D) + 1
      /\ Cardinality(D \union {c}) \in Nat
  <2>1. c \in D => D \union {c} = D
    OBVIOUS
  <2>2. c \in D => Cardinality(D \union {c}) = Cardinality(D)
    BY <2>1
  <2>3. c \notin D => Cardinality(D \union {c}) = Cardinality(D) + 1
    BY <1>3, FS_AddElement
  <2>4. IsFiniteSet(D \union {c})
    BY <1>3, FS_AddElement
  <2>. QED
    BY <1>3, <2>2, <2>3, <2>4
<1>5. IsFiniteSet(E) /\ Cardinality(E) <= Cardinality(D) + 1 /\ Cardinality(E) \in Nat
  BY <1>1, <1>3, <1>4, FS_Subset, FS_CardinalityType
<1>6. M \subseteq Editors /\ e \in M /\ N = M \ {e}
  BY <1>2 DEF Marking
<1>7. IsFiniteSet(M) /\ Cardinality(M) \in Nat /\ Cardinality(Editors) \in Nat
  BY <1>6, MarkersAreFew
<1>8. Cardinality(N) = Cardinality(M) - 1
  BY <1>6, <1>7, FS_RemoveElement
<1>9. Cardinality(D) + Cardinality(M) <= Cardinality(Editors)
  BY <1>1, <1>2 DEF FewDefaults
<1>10. Cardinality(E) + Cardinality(N) <= Cardinality(Editors)
  BY <1>3, <1>5, <1>7, <1>8, <1>9
<1>. QED
  BY <1>1, <1>2, <1>5, <1>10 DEF FewDefaults

\* A step of one editor: its own record is the only one that changes.
LEMMA EditorStep ==
  ASSUME WalletTypeOK, NEW e \in Editors, NEW j \in [pc : {"idle"}] \union CardEdit \union PriceEdit,
         edit' = [edit EXCEPT ![e] = j]
  PROVE  /\ edit' \in [Editors -> [pc : {"idle"}] \union CardEdit \union PriceEdit]
         /\ \A f \in Editors : edit'[f] = IF f = e THEN j ELSE edit[f]
BY DEF WalletTypeOK

\* Whoever else is about to mark a card still is.
LEMMA OthersMark ==
  ASSUME NEW e \in Editors, Marking' = Marking \ {e}, \A f \in Editors \ {e} : edit'[f] = edit[f]
  PROVE  Marked \subseteq Marked' \union {edit[e].card}
<1>1. Marking \subseteq Editors
  BY DEF Marking
<1>2. ASSUME NEW f \in Marking PROVE edit[f].card \in Marked' \union {edit[e].card}
  <2>1. CASE f = e
    BY <2>1
  <2>2. CASE f # e
    <3>1. f \in Marking' /\ edit'[f] = edit[f]
      BY <1>1, <2>2
    <3>. QED
      BY <3>1 DEF Marked
  <2>. QED
    BY <2>1, <2>2
<1>. QED
  BY <1>2 DEF Marked

LEMMA CardsUntouched ==
  ASSUME WalletTypeOK, FewDefaults, NEW e \in Editors,
         NEW j \in [pc : {"idle"}] \union CardEdit \union PriceEdit,
         edit' = [edit EXCEPT ![e] = j], j.pc # "marking", edit[e].pc # "marking", card' = card
  PROVE  FewDefaults'
<1>1. \A f \in Editors : edit'[f] = IF f = e THEN j ELSE edit[f]
  BY EditorStep
<1>2. Marking' = Marking
  BY <1>1 DEF Marking, Doing
<1>3. ASSUME NEW f \in Marking PROVE edit'[f] = edit[f]
  BY <1>1, <1>3 DEF Marking, Doing
<1>4. Marked' = Marked
  BY <1>2, <1>3 DEF Marked
<1>5. Defaults' = Defaults
  BY DEF Defaults
<1>. QED
  BY <1>2, <1>4, <1>5, FewerDefaults

\* Who is at work on the price, and on what, is as it was.
LEMMA PricesUntouched ==
  ASSUME PricesOnRecord, UNCHANGED priceVars,
         \A f \in Editors : \/ edit'[f] = edit[f]
                            \/ edit[f].pc \notin PriceWork /\ edit'[f].pc \notin PriceWork
  PROVE  PricesOnRecord'
<1>1. /\ price' = price /\ history' = history /\ orphan' = orphan /\ mixed' = mixed
  BY DEF priceVars
<1>2. \A f \in Editors :
          /\ Doing(f, "created")' <=> Doing(f, "created")
          /\ Doing(f, "pricing")' <=> Doing(f, "pricing")
          /\ Repricing(f)' <=> Repricing(f)
          /\ Doing(f, "created") \/ Repricing(f) => edit'[f] = edit[f]
  BY DEF Doing, Repricing, PriceWork
<1>3. Known' = Known
  <2>1. {f \in Editors : Doing(f, "created")}' = {f \in Editors : Doing(f, "created")}
    BY <1>2
  <2>. QED
    BY <1>1, <1>2, <2>1 DEF Known
<1>4. SUFFICES ASSUME price # NoPrice PROVE PricesOnRecord'
  BY <1>1 DEF PricesOnRecord
<1>5. Held(price)'
  BY <1>1, <1>3, <1>4 DEF PricesOnRecord, Held
<1>6. ASSUME NEW f \in Editors, Doing(f, "pricing")' PROVE Held(edit[f].price)'
  <2>1. Doing(f, "pricing") /\ edit'[f] = edit[f]
    BY <1>2, <1>6 DEF Repricing
  <2>. QED
    BY <1>1, <1>3, <1>4, <2>1 DEF PricesOnRecord, Held
<1>7. ASSUME NEW f \in Editors, Repricing(f)' PROVE Alone(f)'
  <2>1. Repricing(f) /\ edit'[f] = edit[f]
    BY <1>2, <1>7
  <2>2. Alone(f)
    BY <1>4, <2>1 DEF PricesOnRecord
  <2>. QED
    BY <1>1, <1>2, <2>1, <2>2 DEF Alone
<1>. QED
  BY <1>5, <1>6, <1>7 DEF PricesOnRecord

LEMMA CardStep ==
  ASSUME WalletInv,
         \/ \E e \in Editors : ClearDefault(e) \/ MarkDefault(e) \/ \E c \in Cards : StartDefault(e, c)
         \/ \E c \in Cards, to \in {"plain", "gone"} : EditCard(c, to)
  PROVE  WalletInv'
<1>1. WalletTypeOK /\ FewDefaults /\ PricesOnRecord
  BY DEF WalletInv
<1>2. ASSUME NEW e \in Editors, NEW c \in Cards, StartDefault(e, c) PROVE WalletInv'
  <2>1. PICK new \in BOOLEAN : new <=> card[c] = "none"
    OBVIOUS
  <2>2. PICK j \in CardEdit : j = [pc |-> "clearing", card |-> c, new |-> new] /\ j.pc = "clearing"
    <3>1. [pc |-> "clearing", card |-> c, new |-> new] \in CardEdit
      BY <2>1 DEF CardEdit
    <3>. QED
      BY <3>1
  <2>3. /\ edit' = [edit EXCEPT ![e] = j] /\ edit[e].pc = "idle"
        /\ UNCHANGED <<card, priceVars>>
    BY <1>2, <2>1, <2>2 DEF StartDefault, Doing
  <2>4. \A f \in Editors : edit'[f] = IF f = e THEN j ELSE edit[f]
    BY <1>1, <2>3, EditorStep
  <2>5. FewDefaults'
    BY <1>1, <2>2, <2>3, CardsUntouched
  <2>6. WalletTypeOK'
    BY <1>1, <2>3, EditorStep DEF WalletTypeOK, priceVars
  <2>7. PricesOnRecord'
    BY <1>1, <2>2, <2>3, <2>4, PricesUntouched DEF PriceWork
  <2>. QED
    BY <2>5, <2>6, <2>7 DEF WalletInv
<1>3. ASSUME NEW e \in Editors, ClearDefault(e) PROVE WalletInv'
  <2>1. PICK i \in CardEdit : i = edit[e] /\ i.pc = "clearing"
    BY <1>1, <1>3, EditShape DEF ClearDefault, Doing
  <2>2. PICK j : j = [i EXCEPT !.pc = "marking"]
    OBVIOUS
  <2>3. j \in CardEdit /\ j.pc = "marking" /\ j.card = i.card /\ j.card \in Cards
    BY <2>1, <2>2 DEF CardEdit
  <2>4. /\ edit' = [edit EXCEPT ![e] = j] /\ UNCHANGED priceVars
        /\ card' = [c \in Cards |-> IF card[c] = "default" /\ c # j.card THEN "plain" ELSE card[c]]
    BY <1>1, <1>3, <2>1, <2>2, <2>3 DEF ClearDefault, WalletTypeOK
  <2>5. \A f \in Editors : edit'[f] = IF f = e THEN j ELSE edit[f]
    BY <1>1, <2>3, <2>4, EditorStep
  <2>6. WalletTypeOK'
    <3>1. edit' \in [Editors -> [pc : {"idle"}] \union CardEdit \union PriceEdit]
      BY <1>1, <2>3, <2>4, EditorStep
    <3>2. card' \in [Cards -> CardStatus]
      BY <1>1, <2>4 DEF WalletTypeOK, CardStatus
    <3>. QED
      BY <1>1, <2>4, <3>1, <3>2 DEF WalletTypeOK, priceVars
  <2>7. (Defaults \ Marked)' = {}
    <3>1. \A c \in Defaults' : c = j.card
      BY <2>4 DEF Defaults
    <3>2. j.card \in Marked'
      BY <2>3, <2>5 DEF Marked, Marking, Doing
    <3>. QED
      BY <3>1, <3>2
  <2>8. FewDefaults'
    <3>1. PICK N : N = Marking' /\ N \subseteq Editors
      BY DEF Marking
    <3>2. Cardinality(N) <= Cardinality(Editors) /\ Cardinality(N) \in Nat
      BY <3>1, MarkersAreFew
    <3>3. IsFiniteSet({}) /\ Cardinality({}) = 0
      BY FS_EmptySet
    <3>. QED
      BY <2>7, <3>1, <3>2, <3>3 DEF FewDefaults
  <2>9. PricesOnRecord'
    BY <1>1, <2>1, <2>3, <2>4, <2>5, PricesUntouched DEF PriceWork
  <2>. QED
    BY <2>6, <2>8, <2>9 DEF WalletInv
<1>4. ASSUME NEW e \in Editors, MarkDefault(e) PROVE WalletInv'
  <2>1. PICK i \in CardEdit : i = edit[e] /\ i.pc = "marking" /\ i.card \in Cards
    BY <1>1, <1>4, EditShape DEF MarkDefault, Doing
  <2>2. PICK j \in [pc : {"idle"}] : j = NoEdit /\ j.pc = "idle"
    BY IdleEdit
  <2>3. /\ edit' = [edit EXCEPT ![e] = j] /\ UNCHANGED priceVars
        /\ card' = [card EXCEPT ![i.card] = IF @ = "gone" THEN @ ELSE "default"]
    BY <1>4, <2>1, <2>2 DEF MarkDefault, Finish
  <2>4. \A f \in Editors : edit'[f] = IF f = e THEN j ELSE edit[f]
    BY <1>1, <2>2, <2>3, EditorStep
  <2>5. WalletTypeOK'
    <3>1. edit' \in [Editors -> [pc : {"idle"}] \union CardEdit \union PriceEdit]
      BY <1>1, <2>2, <2>3, EditorStep
    <3>2. card' \in [Cards -> CardStatus]
      BY <1>1, <2>1, <2>3 DEF WalletTypeOK, CardStatus
    <3>. QED
      BY <1>1, <2>3, <3>1, <3>2 DEF WalletTypeOK, priceVars
  <2>6. e \in Marking /\ Marking' = Marking \ {e}
    BY <2>1, <2>2, <2>4 DEF Marking, Doing
  <2>7. Marked \subseteq Marked' \union {i.card}
    BY <2>1, <2>6, <2>4, OthersMark
  <2>8. Defaults' \subseteq Defaults \union {i.card}
    BY <1>1, <2>1, <2>3 DEF Defaults, WalletTypeOK
  <2>9. (Defaults \ Marked)' \subseteq (Defaults \ Marked) \union {i.card}
    BY <2>7, <2>8
  <2>10. FewDefaults'
    BY <1>1, <2>6, <2>9, OneDefaultMore
  <2>11. PricesOnRecord'
    BY <1>1, <2>1, <2>2, <2>3, <2>4, PricesUntouched DEF PriceWork
  <2>. QED
    BY <2>5, <2>10, <2>11 DEF WalletInv
<1>5. ASSUME NEW c \in Cards, NEW to \in {"plain", "gone"}, EditCard(c, to) PROVE WalletInv'
  <2>1. card' = [card EXCEPT ![c] = to] /\ UNCHANGED <<edit, priceVars>>
    BY <1>5 DEF EditCard
  <2>2. WalletTypeOK'
    BY <1>1, <2>1 DEF WalletTypeOK, CardStatus, priceVars
  <2>3. Defaults' \subseteq Defaults /\ Marked' = Marked /\ Marking' = Marking
    BY <1>1, <2>1 DEF Defaults, Marked, Marking, Doing, WalletTypeOK
  <2>4. FewDefaults'
    BY <1>1, <2>3, FewerDefaults
  <2>5. PricesOnRecord'
    BY <1>1, <2>1, PricesUntouched
  <2>. QED
    BY <2>2, <2>4, <2>5 DEF WalletInv
<1>. QED
  BY <1>2, <1>3, <1>4, <1>5

\* A step of one editor that leaves the cards and ends nothing but work on the price.
LEMMA PriceEdited ==
  ASSUME WalletInv, NEW e \in Editors,
         NEW j \in [pc : {"idle"}] \union CardEdit \union PriceEdit,
         edit' = [edit EXCEPT ![e] = j], j.pc # "marking", edit[e].pc # "marking", card' = card,
         price' \in Prices \union {NoPrice}, mixed' \in BOOLEAN
  PROVE  /\ WalletTypeOK' /\ FewDefaults'
         /\ \A f \in Editors : edit'[f] = IF f = e THEN j ELSE edit[f]
<1>1. WalletTypeOK /\ FewDefaults
  BY DEF WalletInv
<1>2. FewDefaults'
  BY <1>1, CardsUntouched
<1>3. /\ edit' \in [Editors -> [pc : {"idle"}] \union CardEdit \union PriceEdit]
      /\ \A f \in Editors : edit'[f] = IF f = e THEN j ELSE edit[f]
  BY <1>1, EditorStep
<1>. QED
  BY <1>1, <1>2, <1>3 DEF WalletTypeOK

\* What is known by its columns stays so while what is known grows.
LEMMA HeldKept ==
  ASSUME NEW new, Held(new), Known \subseteq Known', mixed => mixed'
  PROVE  Held(new)'
BY DEF Held

\* What is known stays known when one editor goes on and leaves on record, or orphaned, what
\* its creation was to record.
LEMMA KnownGrows ==
  ASSUME NEW e \in Editors, history \subseteq history', orphan \subseteq orphan',
         \A f \in Editors \ {e} : edit'[f] = edit[f],
         Doing(e, "created") => edit[e].price \in history' \union orphan'
  PROVE  Known \subseteq Known'
<1>. SUFFICES ASSUME NEW known \in Known PROVE known \in Known'
  OBVIOUS
<1>1. CASE known \in history \union orphan
  BY <1>1 DEF Known
<1>2. CASE \E f \in Editors : Doing(f, "created") /\ known = edit[f].price
  <2>1. PICK f \in Editors : Doing(f, "created") /\ known = edit[f].price
    BY <1>2
  <2>2. CASE f = e
    BY <2>1, <2>2 DEF Known
  <2>3. CASE f # e
    <3>1. edit'[f] = edit[f] /\ Doing(f, "created")'
      BY <2>1, <2>3 DEF Doing
    <3>. QED
      BY <2>1, <3>1 DEF Known
  <2>. QED
    BY <2>2, <2>3
<1>. QED
  BY <1>1, <1>2 DEF Known

\* The price is as it was, and one editor goes on with what it was doing, or ends.
LEMMA GoesOn ==
  ASSUME PricesOnRecord, NEW e \in Editors, price' = price, mixed' = mixed, Known \subseteq Known',
         \A f \in Editors \ {e} : edit'[f] = edit[f],
         edit'[e].pc \in {"recording", "pricing"} =>
             Repricing(e) /\ edit'[e].price = edit[e].price /\ edit'[e].sent = edit[e].sent,
         edit'[e].pc = "pricing" => edit'[e].price \in Known'
  PROVE  PricesOnRecord'
<1>. SUFFICES ASSUME price # NoPrice PROVE PricesOnRecord'
  BY DEF PricesOnRecord
<1>1. Held(price)'
  BY HeldKept DEF PricesOnRecord, Held
<1>2. ASSUME NEW f \in Editors, Doing(f, "pricing")' PROVE Held(edit[f].price)'
  <2>1. CASE f = e
    BY <1>2, <2>1 DEF Held, Doing
  <2>2. CASE f # e
    <3>1. edit'[f] = edit[f] /\ Held(edit[f].price)
      BY <1>2, <2>2 DEF PricesOnRecord, Doing
    <3>. QED
      BY <3>1 DEF Held
  <2>. QED
    BY <2>1, <2>2
<1>3. ASSUME NEW f \in Editors, Repricing(f)' PROVE Alone(f)'
  <2>1. \A g \in Editors : Repricing(g)' => /\ Repricing(g)
                                          /\ edit'[g].price = edit[g].price
                                          /\ edit'[g].sent = edit[g].sent
    BY DEF Repricing, Doing
  <2>2. Alone(f)
    BY <1>3, <2>1 DEF PricesOnRecord
  <2>. QED
    BY <1>3, <2>1, <2>2 DEF Alone
<1>. QED
  BY <1>1, <1>2, <1>3 DEF PricesOnRecord

LEMMA InsertStep ==
  ASSUME WalletInv, NEW e \in Editors, NEW new \in Prices, InsertRow(e, new) PROVE WalletInv'
<1>1. PICK j \in PriceEdit :
          /\ j = [pc |-> "created", price |-> new, sent |-> PriceColumns]
          /\ j.pc = "created" /\ j.price = new
  <2>1. [pc |-> "created", price |-> new, sent |-> PriceColumns] \in PriceEdit
    BY DEF PriceEdit, PriceWork
  <2>. QED
    BY <2>1
<1>2. /\ edit' = [edit EXCEPT ![e] = j] /\ edit[e].pc = "idle" /\ price' = new
      /\ UNCHANGED <<card, history, orphan, mixed>>
      /\ \A f \in Editors : "price" \notin DOMAIN edit[f]
  BY <1>1 DEF InsertRow, Doing
<1>3. /\ WalletTypeOK' /\ FewDefaults'
      /\ \A f \in Editors : edit'[f] = IF f = e THEN j ELSE edit[f]
  <2>1. /\ j.pc # "marking" /\ edit[e].pc # "marking" /\ card' = card
        /\ price' \in Prices \union {NoPrice} /\ mixed' \in BOOLEAN
    BY <1>1, <1>2 DEF WalletInv, WalletTypeOK
  <2>2. j \in [pc : {"idle"}] \union CardEdit \union PriceEdit
    OBVIOUS
  <2>. QED
    BY <1>2, <2>1, <2>2, PriceEdited
<1>4. \A f \in Editors : edit[f].pc \notin PriceWork
  BY <1>2, EditShape DEF WalletInv
<1>5. \A f \in Editors : edit'[f].pc \notin {"recording", "pricing"}
  BY <1>1, <1>3, <1>4 DEF PriceWork
<1>6. Held(price)'
  <2>1. edit'[e].price = new /\ Doing(e, "created")'
    BY <1>1, <1>3 DEF Doing
  <2>2. new \in Known'
    BY <2>1 DEF Known
  <2>. QED
    BY <1>2, <2>2 DEF Held
<1>. QED
  BY <1>3, <1>5, <1>6 DEF WalletInv, PricesOnRecord, Doing, Repricing

LEMMA RecordFirstStep ==
  ASSUME WalletInv, NEW e \in Editors, RecordFirst(e) PROVE WalletInv'
<1>1. PICK j \in [pc : {"idle"}] : j = NoEdit /\ j.pc = "idle"
  BY IdleEdit
<1>2. /\ edit' = [edit EXCEPT ![e] = j] /\ edit[e].pc = "created" /\ price # NoPrice
      /\ history' = history \union {edit[e].price} /\ UNCHANGED <<card, price, orphan, mixed>>
  BY <1>1 DEF RecordFirst, Finish, Doing
<1>3. /\ WalletTypeOK' /\ FewDefaults'
      /\ \A f \in Editors : edit'[f] = IF f = e THEN j ELSE edit[f]
  BY <1>1, <1>2, PriceEdited DEF WalletInv, WalletTypeOK
<1>4. Known \subseteq Known'
  BY <1>2, <1>3, KnownGrows
<1>5. PricesOnRecord'
  BY <1>1, <1>2, <1>3, <1>4, GoesOn DEF WalletInv
<1>. QED
  BY <1>3, <1>5 DEF WalletInv

LEMMA MergeFacts ==
  ASSUME NEW old \in Prices, NEW new \in Prices, NEW sent \in SUBSET PriceColumns
  PROVE  /\ Merge(old, new, sent) \in Prices
         /\ Merge(old, new, sent).amount \in {old.amount, new.amount}
         /\ Merge(old, new, sent).currency \in {old.currency, new.currency}
         /\ Merge(old, Merge(old, new, sent), sent) = Merge(old, new, sent)
         /\ sent = PriceColumns => Merge(old, new, sent) = new
BY DEF Merge, Prices, PriceColumns

LEMMA StartPriceStep ==
  ASSUME WalletInv, NEW e \in Editors, NEW new \in Prices, NEW sent \in SUBSET PriceColumns,
         StartPrice(e, new, sent)
  PROVE  WalletInv'
<1>1. price \in Prices /\ price # NoPrice /\ mixed \in BOOLEAN /\ edit[e].pc = "idle"
  BY DEF StartPrice, WalletInv, WalletTypeOK, Doing
<1>2. PICK next \in Prices : next = Merge(price, new, sent) /\ next = Merge(price, next, sent)
  BY <1>1, MergeFacts
<1>3. PICK pc \in {"pricing", "recording"} : pc = IF next = price THEN "pricing" ELSE "recording"
  OBVIOUS
<1>4. PICK j \in PriceEdit :
          /\ j = [pc |-> pc, price |-> next, sent |-> sent]
          /\ j.pc = pc /\ j.price = next /\ j.sent = sent
  <2>1. [pc |-> pc, price |-> next, sent |-> sent] \in PriceEdit
    BY DEF PriceEdit, PriceWork
  <2>. QED
    BY <2>1
<1>5. /\ edit' = [edit EXCEPT ![e] = j] /\ mixed' = (mixed \/ Mixes(sent))
      /\ UNCHANGED <<card, price, history, orphan>>
  BY <1>2, <1>3, <1>4 DEF StartPrice
<1>6. /\ WalletTypeOK' /\ FewDefaults'
      /\ \A f \in Editors : edit'[f] = IF f = e THEN j ELSE edit[f]
  <2>1. /\ j.pc # "marking" /\ edit[e].pc # "marking" /\ card' = card
        /\ price' \in Prices \union {NoPrice}
    BY <1>1, <1>3, <1>4, <1>5
  <2>2. mixed' \in BOOLEAN
    BY <1>5
  <2>3. j \in [pc : {"idle"}] \union CardEdit \union PriceEdit
    OBVIOUS
  <2>. QED
    BY <1>5, <2>1, <2>2, <2>3, PriceEdited
<1>7. Known \subseteq Known' /\ (mixed => mixed')
  BY <1>1, <1>5, <1>6, KnownGrows DEF Doing
<1>8. Held(price) /\ Held(price)'
  <2>1. Held(price)
    BY <1>1 DEF WalletInv, PricesOnRecord
  <2>. QED
    BY <1>5, <1>7, <2>1 DEF Held
<1>9. ASSUME NEW f \in Editors, Doing(f, "pricing")' PROVE Held(edit[f].price)'
  <2>1. CASE f = e
    <3>1. edit'[f].price = price'
      BY <1>3, <1>4, <1>5, <1>6, <1>9, <2>1 DEF Doing
    <3>. QED
      BY <1>8, <3>1 DEF Held
  <2>2. CASE f # e
    <3>1. edit'[f] = edit[f] /\ Held(edit[f].price)
      BY <1>1, <1>6, <1>9, <2>2 DEF WalletInv, PricesOnRecord, Doing
    <3>. QED
      BY <1>7, <3>1 DEF Held
  <2>. QED
    BY <2>1, <2>2
<1>10. ASSUME NEW f \in Editors, Repricing(f)' PROVE Alone(f)'
  <2>. SUFFICES ASSUME ~mixed' PROVE Alone(f)'
    BY DEF Alone
  <2>1. \A g \in Editors : Repricing(g) => sent = PriceColumns /\ edit[g].sent = PriceColumns
    BY <1>5 DEF Mixes
  <2>2. CASE f = e
    <3>1. edit'[e].sent = sent /\ edit'[e].price = next
      BY <1>4, <1>6
    <3>2. CASE sent = PriceColumns
      BY <2>2, <3>1, <3>2 DEF Alone
    <3>3. CASE sent # PriceColumns
      <4>1. \A g \in Editors \ {e} : ~Repricing(g)'
        BY <1>6, <2>1, <3>3 DEF Repricing, Doing
      <4>2. edit'[e].price = Merge(price', edit'[e].price, edit'[e].sent)
        BY <1>2, <1>5, <3>1
      <4>. QED
        BY <2>2, <4>1, <4>2 DEF Alone
    <3>. QED
      BY <3>2, <3>3
  <2>3. CASE f # e
    BY <1>6, <1>10, <2>1, <2>3 DEF Alone, Repricing, Doing
  <2>. QED
    BY <2>2, <2>3
<1>. QED
  BY <1>6, <1>8, <1>9, <1>10 DEF WalletInv, PricesOnRecord

LEMMA RecordStep ==
  ASSUME WalletInv, NEW e \in Editors, Record(e) PROVE WalletInv'
<1>1. PICK i \in PriceEdit : i = edit[e] /\ i.pc = "recording" /\ i.price \in Prices /\ i.sent \in SUBSET PriceColumns
  BY EditShape DEF Record, Doing, WalletInv, PriceWork
<1>2. PICK j \in PriceEdit :
          /\ j = [pc |-> "pricing", price |-> i.price, sent |-> i.sent]
          /\ j.pc = "pricing" /\ j.price = i.price /\ j.sent = i.sent
  <2>1. i.price \in Prices /\ i.sent \in SUBSET PriceColumns
    BY <1>1
  <2>2. [pc |-> "pricing", price |-> i.price, sent |-> i.sent] \in PriceEdit
    BY <2>1 DEF PriceEdit, PriceWork
  <2>. QED
    BY <2>2
<1>3. j = [i EXCEPT !.pc = "pricing"]
  BY <1>1, <1>2 DEF PriceEdit
<1>4. /\ edit' = [edit EXCEPT ![e] = j] /\ price # NoPrice
      /\ history' = history \union {i.price} /\ UNCHANGED <<card, price, orphan, mixed>>
  BY <1>1, <1>3 DEF Record, WalletInv, WalletTypeOK
<1>5. /\ WalletTypeOK' /\ FewDefaults'
      /\ \A f \in Editors : edit'[f] = IF f = e THEN j ELSE edit[f]
  <2>1. /\ j.pc # "marking" /\ edit[e].pc # "marking" /\ card' = card
        /\ price' \in Prices \union {NoPrice} /\ mixed' \in BOOLEAN
    BY <1>1, <1>2, <1>4 DEF WalletInv, WalletTypeOK
  <2>2. j \in [pc : {"idle"}] \union CardEdit \union PriceEdit
    OBVIOUS
  <2>. QED
    BY <1>4, <2>1, <2>2, PriceEdited
<1>6. Known \subseteq Known'
  BY <1>1, <1>4, <1>5, KnownGrows DEF Doing
<1>7. edit'[e].price \in Known'
  BY <1>2, <1>4, <1>5 DEF Known
<1>8. PricesOnRecord'
  BY <1>1, <1>2, <1>4, <1>5, <1>6, <1>7, GoesOn DEF WalletInv, Repricing, Doing
<1>. QED
  BY <1>5, <1>8 DEF WalletInv

LEMMA WritePriceStep ==
  ASSUME WalletInv, NEW e \in Editors, WritePrice(e) PROVE WalletInv'
<1>1. PICK j \in [pc : {"idle"}] : j = NoEdit /\ j.pc = "idle"
  BY IdleEdit
<1>2. /\ edit' = [edit EXCEPT ![e] = j] /\ edit[e].pc = "pricing" /\ price # NoPrice
      /\ UNCHANGED <<card, history, orphan, mixed>>
      /\ price' = Merge(price, edit[e].price, edit[e].sent)
  BY <1>1 DEF WritePrice, Finish, Doing
<1>3. /\ price \in Prices /\ edit[e].price \in Prices /\ edit[e].sent \in SUBSET PriceColumns
      /\ price' \in Prices
      /\ price'.amount \in {price.amount, edit[e].price.amount}
      /\ price'.currency \in {price.currency, edit[e].price.currency}
      /\ edit[e].sent = PriceColumns => price' = edit[e].price
  BY <1>2, EditShape, MergeFacts DEF WalletInv, WalletTypeOK, PriceWork
<1>4. /\ WalletTypeOK' /\ FewDefaults'
      /\ \A f \in Editors : edit'[f] = IF f = e THEN j ELSE edit[f]
  BY <1>1, <1>2, <1>3, PriceEdited DEF WalletInv, WalletTypeOK
<1>5. Known \subseteq Known'
  BY <1>2, <1>4, KnownGrows DEF Doing
<1>6. Held(price) /\ Held(edit[e].price) /\ Alone(e) /\ Repricing(e)
  BY <1>2 DEF WalletInv, PricesOnRecord, Doing, Repricing
<1>7. Held(price)'
  <2>1. mixed \/ price' = edit[e].price
    BY <1>2, <1>3, <1>6 DEF Alone
  <2>2. mixed \/ price' \in Known'
    BY <1>5, <1>6, <2>1 DEF Held
  <2>3. \E known \in Known' : known.amount = price'.amount
    BY <1>3, <1>5, <1>6 DEF Held
  <2>4. \E known \in Known' : known.currency = price'.currency
    BY <1>3, <1>5, <1>6 DEF Held
  <2>. QED
    BY <1>2, <2>2, <2>3, <2>4 DEF Held
<1>8. ASSUME NEW f \in Editors, Doing(f, "pricing")' PROVE Held(edit[f].price)'
  <2>1. edit'[f] = edit[f] /\ Held(edit[f].price)
    BY <1>1, <1>2, <1>4, <1>8 DEF WalletInv, PricesOnRecord, Doing
  <2>. QED
    BY <1>2, <1>5, <2>1 DEF Held
<1>9. ASSUME NEW f \in Editors, Repricing(f)' PROVE Alone(f)'
  <2>1. f # e /\ edit'[f] = edit[f] /\ Repricing(f)
    BY <1>1, <1>4, <1>9 DEF Repricing, Doing
  <2>2. Alone(f)
    BY <1>2, <2>1 DEF WalletInv, PricesOnRecord
  <2>3. mixed \/ edit[f].sent = PriceColumns
    BY <1>6, <2>1, <2>2 DEF Alone
  <2>. QED
    BY <1>2, <2>1, <2>3 DEF Alone
<1>. QED
  BY <1>4, <1>7, <1>8, <1>9 DEF WalletInv, PricesOnRecord

LEMMA DieStep ==
  ASSUME WalletInv, NEW e \in Editors, Die(e) PROVE WalletInv'
<1>1. PICK j \in [pc : {"idle"}] : j = NoEdit /\ j.pc = "idle"
  BY IdleEdit
<1>2. /\ edit' = [edit EXCEPT ![e] = j] /\ UNCHANGED <<card, price, history, mixed>>
      /\ orphan \subseteq orphan'
      /\ edit[e].pc = "created" /\ price # NoPrice => edit[e].price \in orphan'
  BY <1>1 DEF Die, Finish, Doing
<1>3. WalletTypeOK /\ FewDefaults /\ PricesOnRecord
  BY DEF WalletInv
<1>4. WalletTypeOK' /\ \A f \in Editors : edit'[f] = IF f = e THEN j ELSE edit[f]
  <2>1. j \in [pc : {"idle"}] \union CardEdit \union PriceEdit
    OBVIOUS
  <2>2. /\ edit' \in [Editors -> [pc : {"idle"}] \union CardEdit \union PriceEdit]
        /\ \A f \in Editors : edit'[f] = IF f = e THEN j ELSE edit[f]
    BY <1>2, <1>3, <2>1, EditorStep
  <2>. QED
    BY <1>2, <1>3, <2>2 DEF WalletTypeOK
<1>5. PricesOnRecord'
  <2>1. CASE price = NoPrice
    BY <1>2, <2>1 DEF PricesOnRecord
  <2>2. CASE price # NoPrice
    <3>1. Known \subseteq Known'
      BY <1>2, <1>4, <2>2, KnownGrows DEF Doing
    <3>. QED
      BY <1>1, <1>2, <1>3, <1>4, <3>1, GoesOn
  <2>. QED
    BY <2>1, <2>2
<1>6. CASE edit[e].pc # "marking"
  <2>1. j \in [pc : {"idle"}] \union CardEdit \union PriceEdit /\ j.pc # "marking" /\ card' = card
    BY <1>1, <1>2
  <2>2. FewDefaults'
    BY <1>2, <1>3, <1>6, <2>1, CardsUntouched
  <2>. QED
    BY <1>4, <1>5, <2>2 DEF WalletInv
<1>7. CASE edit[e].pc = "marking"
  <2>1. e \in Marking /\ Marking' = Marking \ {e}
    BY <1>1, <1>4, <1>7 DEF Marking, Doing
  <2>2. Marked \subseteq Marked' \union {edit[e].card}
    BY <1>4, <2>1, OthersMark
  <2>3. Defaults' = Defaults
    BY <1>2 DEF Defaults
  <2>4. (Defaults \ Marked)' \subseteq (Defaults \ Marked) \union {edit[e].card}
    BY <2>2, <2>3
  <2>5. FewDefaults'
    BY <1>3, <2>1, <2>4, OneDefaultMore
  <2>. QED
    BY <1>4, <1>5, <2>5 DEF WalletInv
<1>. QED
  BY <1>6, <1>7

LEMMA RemoveStep == WalletInv /\ RemoveSubscription => WalletInv'
<1>. SUFFICES ASSUME WalletInv, RemoveSubscription PROVE WalletInv'
  OBVIOUS
<1>1. price' = NoPrice /\ mixed' = FALSE /\ card' = card /\ edit' = edit
  BY DEF RemoveSubscription
<1>2. Defaults' = Defaults /\ Marked' = Marked /\ Marking' = Marking
  BY <1>1 DEF Defaults, Marked, Marking, Doing
<1>3. FewDefaults'
  BY <1>2, FewerDefaults DEF WalletInv
<1>4. WalletTypeOK'
  BY <1>1 DEF WalletInv, WalletTypeOK
<1>. QED
  BY <1>1, <1>3, <1>4 DEF WalletInv, PricesOnRecord

LEMMA WalletBegins == WalletInit => WalletInv
<1>. SUFFICES ASSUME WalletInit PROVE WalletInv
  OBVIOUS
<1>1. WalletTypeOK
  BY IdleEdit DEF WalletInit, WalletTypeOK, CardStatus
<1>2. Defaults = {} /\ Marking = {}
  BY IdleEdit DEF WalletInit, Defaults, Marking, Doing
<1>3. Defaults \ Marked = {}
  BY <1>2
<1>4. IsFiniteSet({}) /\ Cardinality({}) = 0 /\ Cardinality(Editors) \in Nat
  BY FS_EmptySet, FS_CardinalityType, WalletAssumption
<1>. QED
  BY <1>1, <1>2, <1>3, <1>4 DEF WalletInv, FewDefaults, PricesOnRecord, WalletInit

\* A wallet is off by no more than what is under way, whatever overlaps or dies: the
\* invariant a proof by induction needs.
THEOREM WalletInvariant == WalletSpec => []WalletInv
<1>1. WalletInv /\ [WalletNext]_walletVars => WalletInv'
  <2>. SUFFICES ASSUME WalletInv, [WalletNext]_walletVars PROVE WalletInv'
    OBVIOUS
  <2>1. CASE \E e \in Editors : ClearDefault(e) \/ MarkDefault(e) \/ \E c \in Cards : StartDefault(e, c)
    BY <2>1, CardStep
  <2>2. CASE \E c \in Cards, to \in {"plain", "gone"} : EditCard(c, to)
    BY <2>2, CardStep
  <2>3. CASE \E e \in Editors, new \in Prices :
             InsertRow(e, new) \/ \E sent \in (SUBSET PriceColumns) \ {{}} : StartPrice(e, new, sent)
    BY <2>3, InsertStep, StartPriceStep
  <2>4. CASE \E e \in Editors : RecordFirst(e) \/ Record(e) \/ WritePrice(e) \/ Die(e)
    BY <2>4, RecordFirstStep, RecordStep, WritePriceStep, DieStep
  <2>5. CASE RemoveSubscription
    BY <2>5, RemoveStep
  <2>6. CASE UNCHANGED walletVars
    <3>1. UNCHANGED <<card, edit, priceVars>>
      BY <2>6 DEF walletVars
    <3>2. WalletTypeOK'
      BY <3>1 DEF WalletInv, WalletTypeOK, priceVars
    <3>3. Defaults' = Defaults /\ Marked' = Marked /\ Marking' = Marking
      BY <3>1 DEF Defaults, Marked, Marking, Doing
    <3>4. FewDefaults'
      BY <3>3, FewerDefaults DEF WalletInv
    <3>5. PricesOnRecord'
      BY <3>1, PricesUntouched DEF WalletInv
    <3>. QED
      BY <3>2, <3>4, <3>5 DEF WalletInv
  <2>. QED
    BY <2>1, <2>2, <2>3, <2>4, <2>5, <2>6 DEF WalletNext, CardsNext, PricesNext
<1>. QED
  BY <1>1, WalletBegins, PTL DEF WalletSpec

\* UserPaymentCardsService and UserSubscriptionsService: requests that overlap leave no more
\* default cards than there are such requests, and the amount and the currency in force have
\* their snapshot, one snapshot unless changes were mixed, for any number of requests, cards,
\* amounts and currencies.
THEOREM WalletStaysKept == WalletSpec => []WalletIsKept
<1>1. WalletInv => WalletIsKept
  <2>. SUFFICES ASSUME WalletInv PROVE WalletIsKept
    OBVIOUS
  <2>1. DefaultsNearlyUnique
    BY FewDefaultsSuffice DEF WalletInv
  <2>2. PriceOnRecord
    BY DEF WalletInv, PricesOnRecord, Held, PriceOnRecord
  <2>. QED
    BY <2>1, <2>2 DEF WalletIsKept
<1>. QED
  BY <1>1, WalletInvariant, PTL

-----------------------------------------------------------------------------
(* Imports: a file is imported once, for any number of requests, clerks,   *)
(* keys and files, although rows are entered and edited by hand meanwhile. *)

\* Who has validated under the lock still holds it.
LockHeld == \A r \in Requests : request[r].at \in {"locked", "valid"} => lock = r

\* What the second validation found is still so: only the holder of the lock imports.
StillValid ==
  \A r \in Requests : request[r].at = "valid" =>
    /\ recordOf[request[r].key] = Nobody
    /\ \A row \in ByImport \ renamed : row.identity \notin request[r].file

ImportsInv == ImportsTypeOK /\ LockHeld /\ StillValid /\ NoTwinImports /\ KeyMeansOneImport

USE ImportsAssumption
-----------------------------------------------------------------------------
LEMMA ImportsInitType == ImportsInit => ImportsTypeOK
  BY DEF ImportsInit, ImportsTypeOK, Waiting

LEMMA ImportsTypeStep == ImportsTypeOK /\ [ImportsNext]_importVars => ImportsTypeOK'
<1> SUFFICES ASSUME ImportsTypeOK, [ImportsNext]_importVars PROVE ImportsTypeOK'
    OBVIOUS
<1> USE DEF ImportsTypeOK
<1>file. \A f \in Files : \A i : i \in f => i \in Identities
  OBVIOUS
<1>1. ASSUME NEW r \in Requests, NEW key \in Keys, NEW file \in Files, Start(r, key, file)
      PROVE  ImportsTypeOK'
  BY <1>1 DEF Start, Leave, Waiting
<1>2. ASSUME NEW r \in Requests, Lock(r) PROVE ImportsTypeOK'
  <2>1. request[r] \in [at : {"prepared", "locked", "valid"}, file : Files, key : Keys]
    BY <1>2 DEF Lock, Waiting
  <2>2. [request[r] EXCEPT !.at = "locked"] \in Waiting
    BY <2>1 DEF Waiting
  <2> QED
    BY <1>2, <2>2 DEF Lock, Step
<1>3. ASSUME NEW r \in Requests, Recheck(r) PROVE ImportsTypeOK'
  <2>1. request[r] \in [at : {"prepared", "locked", "valid"}, file : Files, key : Keys]
    BY <1>3 DEF Recheck, Waiting
  <2>2. [request[r] EXCEPT !.at = "valid"] \in Waiting /\ [at |-> "done"] \in Waiting
    BY <2>1 DEF Waiting
  <2> QED
    BY <1>3, <2>2 DEF Recheck, Step, Leave, Release
<1>4. ASSUME NEW r \in Requests, CommitImport(r) PROVE ImportsTypeOK'
  <2>1. request[r] \in [at : {"prepared", "locked", "valid"}, file : Files, key : Keys]
    BY <1>4 DEF CommitImport, Waiting
  <2>2. request' \in [Requests -> Waiting] /\ lock' \in Requests \cup {Nobody}
    BY <1>4 DEF CommitImport, Leave, Release, Waiting
  <2>3. {Entered(r, i) : i \in request[r].file} \subseteq Row
    BY <2>1, <1>file DEF Entered, Row
  <2> QED
    BY <1>4, <2>1, <2>2, <2>3 DEF CommitImport
<1>5. ASSUME NEW r \in Requests, Undo(r) PROVE ImportsTypeOK'
  BY <1>5 DEF Undo, Leave, Release, Waiting
<1>6. ASSUME NEW c \in Clerks, NEW i \in Identities, Enter(c, i) PROVE ImportsTypeOK'
  <2>1. Entered(c, i) \in Row
    BY DEF Entered, Row
  <2> QED
    BY <1>6, <2>1 DEF Enter
<1>7. ASSUME NEW row \in catalogue, NEW i \in Identities, Rename(row, i) PROVE ImportsTypeOK'
  <2>1. [row EXCEPT !.identity = StoredAs[i]] \in Row
    BY DEF Row
  <2> QED
    BY <1>7, <2>1 DEF Rename
<1>8. ASSUME NEW row \in catalogue, RemoveRow(row) PROVE ImportsTypeOK'
  BY <1>8 DEF RemoveRow
<1>9. CASE UNCHANGED importVars
  BY <1>9 DEF importVars
<1> QED
  BY <1>1, <1>2, <1>3, <1>4, <1>5, <1>6, <1>7, <1>8, <1>9 DEF ImportsNext, ImportStep
-----------------------------------------------------------------------------
\* Rows that leave the catalogue, or are renamed, or come from a clerk, add nothing that
\* the invariant speaks of.
LEMMA FewerImports ==
  ASSUME ImportsInv, ImportsTypeOK', UNCHANGED <<recordOf, lock, request>>,
         \A row \in (ByImport \ renamed)' : row \in ByImport \ renamed,
         \A row \in ByImport' : \E old \in ByImport : row.by = old.by
  PROVE  ImportsInv'
<1>1. LockHeld'
  BY DEF ImportsInv, LockHeld
<1>2. StillValid'
  BY DEF ImportsInv, StillValid
<1>3. NoTwinImports'
  BY DEF ImportsInv, NoTwinImports, Faithful
<1>4. KeyMeansOneImport'
  BY DEF ImportsInv, KeyMeansOneImport
<1> QED
  BY <1>1, <1>2, <1>3, <1>4 DEF ImportsInv

LEMMA ImportsInvStep == ImportsInv /\ [ImportsNext]_importVars => ImportsInv'
<1> SUFFICES ASSUME ImportsInv, [ImportsNext]_importVars PROVE ImportsInv'
    OBVIOUS
<1>type. ImportsTypeOK /\ ImportsTypeOK'
  BY ImportsTypeStep DEF ImportsInv
<1>1. ASSUME NEW r \in Requests, NEW key \in Keys, NEW file \in Files, Start(r, key, file)
      PROVE  ImportsInv'
  <2>1. \A q \in Requests : request'[q].at \in {"locked", "valid"} =>
            request'[q] = request[q]
    BY <1>1, <1>type DEF Start, Leave, ImportsTypeOK
  <2>2. LockHeld' /\ StillValid'
    BY <1>1, <2>1 DEF Start, ImportsInv, LockHeld, StillValid, ByImport
  <2>3. NoTwinImports' /\ KeyMeansOneImport'
    BY <1>1 DEF Start, ImportsInv, NoTwinImports, Faithful, KeyMeansOneImport, ByImport
  <2> QED
    BY <1>type, <2>2, <2>3 DEF ImportsInv
<1>2. ASSUME NEW r \in Requests, Lock(r) PROVE ImportsInv'
  <2>1. request' = [request EXCEPT ![r].at = "locked"]
    BY <1>2 DEF Lock, Step
  <2>2. \A q \in Requests \ {r} : request'[q] = request[q]
    BY <2>1, <1>type DEF ImportsTypeOK
  <2>3. request'[r].at = "locked"
    BY <2>1, <1>2, <1>type DEF Lock, ImportsTypeOK, Waiting
  <2>4. LockHeld'
    BY <1>2, <2>2, <2>3 DEF Lock, ImportsInv, LockHeld
  <2>5. StillValid'
    BY <1>2, <2>2, <2>3 DEF Lock, ImportsInv, StillValid, ByImport
  <2>6. NoTwinImports' /\ KeyMeansOneImport'
    BY <1>2 DEF Lock, ImportsInv, NoTwinImports, Faithful, KeyMeansOneImport, ByImport
  <2> QED
    BY <1>type, <2>4, <2>5, <2>6 DEF ImportsInv
<1>3. ASSUME NEW r \in Requests, Recheck(r) PROVE ImportsInv'
  <2>1. \A q \in Requests \ {r} : request'[q] = request[q]
    BY <1>3, <1>type DEF Recheck, Step, Leave, ImportsTypeOK
  <2>2. lock = r
    BY <1>3 DEF Recheck, ImportsInv, LockHeld
  <2>3. \A q \in Requests \ {r} : request[q].at \notin {"locked", "valid"}
    BY <2>2 DEF ImportsInv, LockHeld
  <2>4. request'[r].at \in {"locked", "valid"} =>
            /\ lock' = r
            /\ request'[r].key = request[r].key /\ request'[r].file = request[r].file
            /\ recordOf[request[r].key] = Nobody /\ Prepared(request[r].file)
    BY <1>3, <2>2, <1>type DEF Recheck, Step, Leave, ImportsTypeOK, Waiting
  <2>5. LockHeld'
    BY <2>1, <2>3, <2>4 DEF LockHeld
  <2>6. StillValid'
    BY <1>3, <2>1, <2>3, <2>4 DEF Recheck, StillValid, ByImport, Prepared
  <2>7. NoTwinImports' /\ KeyMeansOneImport'
    BY <1>3 DEF Recheck, ImportsInv, NoTwinImports, Faithful, KeyMeansOneImport, ByImport
  <2> QED
    BY <1>type, <2>5, <2>6, <2>7 DEF ImportsInv
<1>4. ASSUME NEW r \in Requests, CommitImport(r) PROVE ImportsInv'
  <2> DEFINE file == request[r].file
             key == request[r].key
  <2>1. request' = [request EXCEPT ![r] = [at |-> "done"]]
    BY <1>4 DEF CommitImport, Leave
  <2>2. lock = r
    BY <1>4 DEF CommitImport, ImportsInv, LockHeld
  <2>3. \A q \in Requests : request'[q].at \notin {"locked", "valid"}
    BY <2>1, <2>2, <1>type DEF ImportsInv, LockHeld, ImportsTypeOK
  <2>4. LockHeld' /\ StillValid'
    BY <2>3 DEF LockHeld, StillValid
  <2>5. /\ key \in Keys /\ recordOf[key] = Nobody
        /\ \A row \in ByImport \ renamed : row.identity \notin file
    BY <1>4, <1>type DEF CommitImport, ImportsInv, StillValid, ImportsTypeOK, Waiting
  <2>6. /\ catalogue' = catalogue \cup {Entered(r, i) : i \in file}
        /\ recordOf' = [recordOf EXCEPT ![key] = r] /\ renamed' = renamed
    BY <1>4, <2>5 DEF CommitImport
  <2>7. \A row \in ByImport' : row \in ByImport \/ \E i \in file : row = Entered(r, i)
    BY <2>6 DEF ByImport
  <2>8. NoTwinImports'
    <3> SUFFICES ASSUME NEW a \in Faithful', NEW b \in Faithful',
                        a.identity = b.identity
                 PROVE  a = b
      BY DEF NoTwinImports
    <3>1. CASE a \in ByImport /\ b \in ByImport
      BY <3>1, <2>6 DEF ImportsInv, NoTwinImports, Faithful
    <3>2. \A i \in file : Entered(r, i).line = i /\ Entered(r, i).identity = StoredAs[i]
      BY DEF Entered
    <3>3. CASE \E i \in file : a = Entered(r, i)
      BY <3>2, <3>3, <2>5, <2>6, <2>7 DEF Faithful
    <3>4. CASE \E i \in file : b = Entered(r, i)
      BY <3>2, <3>4, <2>5, <2>6, <2>7 DEF Faithful
    <3> QED
      BY <2>7, <3>1, <3>3, <3>4 DEF Faithful
  <2>9. KeyMeansOneImport'
    <3> SUFFICES ASSUME NEW row \in ByImport' PROVE \E k \in Keys : recordOf'[k] = row.by
      BY DEF KeyMeansOneImport
    <3>1. recordOf'[key] = r
      BY <2>5, <2>6, <1>type DEF ImportsTypeOK
    <3>2. CASE row \in ByImport
      <4>1. PICK k \in Keys : recordOf[k] = row.by
        BY <3>2 DEF ImportsInv, KeyMeansOneImport
      <4>2. k # key
        BY <4>1, <2>5, <3>2 DEF ByImport
      <4> QED
        BY <4>1, <4>2, <2>6, <1>type DEF ImportsTypeOK
    <3>3. CASE \E i \in file : row = Entered(r, i)
      BY <3>1, <3>3, <2>5 DEF Entered
    <3> QED
      BY <2>7, <3>2, <3>3
  <2> QED
    BY <1>type, <2>4, <2>8, <2>9 DEF ImportsInv
<1>5. ASSUME NEW r \in Requests, Undo(r) PROVE ImportsInv'
  <2>1. request' = [request EXCEPT ![r] = [at |-> "done"]]
    BY <1>5 DEF Undo, Leave
  <2>2. \A q \in Requests : request'[q].at \in {"locked", "valid"} =>
            q # r /\ request'[q] = request[q] /\ lock' = lock
    BY <1>5, <2>1, <1>type DEF Undo, Release, ImportsInv, LockHeld, ImportsTypeOK
  <2>3. LockHeld' /\ StillValid'
    BY <1>5, <2>2 DEF Undo, ImportsInv, LockHeld, StillValid, ByImport
  <2>4. NoTwinImports' /\ KeyMeansOneImport'
    BY <1>5 DEF Undo, ImportsInv, NoTwinImports, Faithful, KeyMeansOneImport, ByImport
  <2> QED
    BY <1>type, <2>3, <2>4 DEF ImportsInv
<1>6. ASSUME NEW c \in Clerks, NEW i \in Identities, Enter(c, i) PROVE ImportsInv'
  <2>1. ByImport' = ByImport
    BY <1>6 DEF Enter, ByImport, Entered
  <2> QED
    BY <1>6, <1>type, <2>1, FewerImports DEF Enter
<1>7. ASSUME NEW row \in catalogue, NEW i \in Identities, Rename(row, i) PROVE ImportsInv'
  <2> DEFINE edited == [row EXCEPT !.identity = StoredAs[i]]
  <2>1. edited.by = row.by
    BY <1>type DEF ImportsTypeOK, Row
  <2>2. \A x \in ByImport' : x \in ByImport \/ (x = edited /\ row \in ByImport)
    BY <1>7, <2>1 DEF Rename, ByImport
  <2>3. \A x \in (ByImport \ renamed)' : x \in ByImport \ renamed
    BY <1>7, <2>1, <2>2 DEF Rename, ByImport
  <2>4. \A x \in ByImport' : \E old \in ByImport : x.by = old.by
    BY <2>1, <2>2
  <2> QED
    BY <1>7, <1>type, <2>3, <2>4, FewerImports DEF Rename
<1>8. ASSUME NEW row \in catalogue, RemoveRow(row) PROVE ImportsInv'
  <2>1. ByImport' \subseteq ByImport /\ renamed' = renamed
    BY <1>8 DEF RemoveRow, ByImport
  <2> QED
    BY <1>8, <1>type, <2>1, FewerImports DEF RemoveRow
<1>9. CASE UNCHANGED importVars
  BY <1>9, <1>type, FewerImports DEF importVars, ByImport
<1> QED
  BY <1>1, <1>2, <1>3, <1>4, <1>5, <1>6, <1>7, <1>8, <1>9 DEF ImportsNext, ImportStep
-----------------------------------------------------------------------------
\* The lock is held from the second validation to COMMIT, and what the validation found
\* stays true under it (ImportsService.confirm).
THEOREM ImportsInvariant == ImportsSpec => []ImportsInv
<1>1. ImportsInit => ImportsInv
  BY ImportsInitType DEF ImportsInit, ImportsInv, LockHeld, StillValid, NoTwinImports, Faithful,
                  KeyMeansOneImport, ByImport
<1> QED
  BY <1>1, ImportsInvStep, PTL DEF ImportsSpec

\* No two requests create one record twice, unless it is stored otherwise than it was written,
\* and a key stands for one import.
THEOREM ImportsOnce == ImportsSpec => []ImportedOnce
<1>1. ImportsInv => ImportedOnce
  BY DEF ImportsInv, ImportedOnce
<1> QED
  BY <1>1, ImportsInvariant, PTL

HIDE ImportsAssumption
-----------------------------------------------------------------------------
(* Tenancy: no request sees the rows of another organization, for any      *)
(* number of requests, connections and organizations: what a request       *)
(* leaves behind on a connection ends with its transaction.                *)

\* A connection in the pool says nothing.
FreeSaysNothing == \A c \in Connections : pool[c].by = Free => pool[c].setting = Unset

\* Only a transaction has a connection, and it says nothing before it has published.
HeldByTransactions ==
  \A c \in Connections, r \in Callers : pool[c].by = r =>
    /\ caller[r].at \in {"begun", "running", "reading"}
    /\ caller[r].at = "begun" => pool[c].setting = Unset

TenancyInv == TenancyTypeOK /\ FreeSaysNothing /\ HeldByTransactions /\ OwnTenantOnly

USE TenancyAssumption
-----------------------------------------------------------------------------
InTransaction == [at : {"queued", "begun", "running", "reading"}, context : Contexts, form : Forms]

LEMMA SettingType ==
  ASSUME NEW r \in Callers, caller[r] \in InTransaction
  PROVE  SettingOf(r) \in Orgs \cup {Bypass, Unset}
BY DEF InTransaction, SettingOf, Published, Contexts

LEMMA MoveType ==
  ASSUME NEW r \in Callers, caller[r] \in InTransaction,
         NEW pc \in {"queued", "begun", "running", "reading"}
  PROVE  [caller[r] EXCEPT !.at = pc] \in InTransaction
BY DEF InTransaction

LEMMA TenancyTypeStep == TenancyTypeOK /\ [TenancyNext]_tenancyVars => TenancyTypeOK'
<1> SUFFICES ASSUME TenancyTypeOK, [TenancyNext]_tenancyVars PROVE TenancyTypeOK'
    OBVIOUS
<1>1. \A r \in Callers : caller[r].at \notin {"new", "done"} => caller[r] \in InTransaction
  BY DEF TenancyTypeOK, InTransaction, Fresh, Ended
<1>2. ASSUME NEW r \in Callers, NEW context \in Contexts, NEW form \in Forms,
             Enters(r, context, form)
      PROVE  TenancyTypeOK'
  BY <1>2 DEF Enters, TenancyTypeOK
<1>3. ASSUME NEW r \in Callers, Begins(r) PROVE TenancyTypeOK'
  <2>1. [caller[r] EXCEPT !.at = "begun"] \in InTransaction
    BY <1>1, <1>3, MoveType DEF Begins
  <2> QED
    BY <1>3, <2>1 DEF Begins, TenancyTypeOK, InTransaction
<1>4. ASSUME NEW r \in Callers, Publishes(r) PROVE TenancyTypeOK'
  <2>1. caller[r] \in InTransaction
    BY <1>1, <1>4 DEF Publishes
  <2>2. SettingOf(r) \in Orgs \cup {Bypass, Unset}
    BY <2>1, SettingType
  <2>3. caller' \in [Callers -> {Fresh, Ended} \cup InTransaction]
    <3>1. [caller[r] EXCEPT !.at = "reading"] \in InTransaction
      BY <2>1, MoveType
    <3>2. [caller[r] EXCEPT !.at = "running"] \in InTransaction
      BY <2>1, MoveType
    <3> QED
      BY <1>4, <3>1, <3>2 DEF Publishes, TenancyTypeOK, InTransaction
  <2>4. pool' \in [Connections -> [by : Callers \cup {Free}, setting : Orgs \cup {Bypass, Unset}]]
    BY <1>4, <2>2 DEF Publishes, TenancyTypeOK
  <2> QED
    BY <2>3, <2>4 DEF TenancyTypeOK, InTransaction
<1>5. ASSUME NEW r \in Callers, ReadsAside(r) PROVE TenancyTypeOK'
  <2>1. [caller[r] EXCEPT !.at = "running"] \in InTransaction
    BY <1>1, <1>5, MoveType DEF ReadsAside
  <2> QED
    BY <1>5, <2>1 DEF ReadsAside, TenancyTypeOK, InTransaction
<1>6. ASSUME NEW r \in Callers, Ends(r) \/ CutOff(r) PROVE TenancyTypeOK'
  BY <1>6 DEF Ends, CutOff, GiveBack, TenancyTypeOK
<1>7. ASSUME NEW r \in Callers, GivesUp(r) PROVE TenancyTypeOK'
  BY <1>7 DEF GivesUp, TenancyTypeOK
<1>8. CASE UNCHANGED tenancyVars
  BY <1>8 DEF tenancyVars, TenancyTypeOK
<1> QED
  BY <1>2, <1>3, <1>4, <1>5, <1>6, <1>7, <1>8 DEF TenancyNext, TenancyStep
-----------------------------------------------------------------------------
\* What a request publishes depends on nothing but its own context and form.
LEMMA OthersSettings ==
  ASSUME NEW r, caller'[r] = caller[r]
  PROVE  SettingOf(r)' = SettingOf(r)
BY DEF SettingOf, Published

LEMMA TenancyInvStep == TenancyInv /\ [TenancyNext]_tenancyVars => TenancyInv'
<1> SUFFICES ASSUME TenancyInv, [TenancyNext]_tenancyVars PROVE TenancyInv'
    OBVIOUS
<1>type. TenancyTypeOK /\ TenancyTypeOK'
  BY TenancyTypeStep DEF TenancyInv
<1>1. \A r \in Callers : caller[r].at \notin {"new", "done"} => caller[r] \in InTransaction
  BY <1>type DEF TenancyTypeOK, InTransaction, Fresh, Ended
<1>2. ASSUME NEW r \in Callers, NEW context \in Contexts, NEW form \in Forms,
             Enters(r, context, form)
      PROVE  TenancyInv'
  <2>1. \A q \in Callers : q # r => caller'[q] = caller[q]
    BY <1>2, <1>type DEF Enters, TenancyTypeOK
  <2>2. caller'[r].at = "queued" /\ Mine(r) = {} /\ pool' = pool
    BY <1>2, <1>type DEF Enters, TenancyTypeOK, TenancyInv, HeldByTransactions, Mine, Fresh
  <2>3. FreeSaysNothing' /\ HeldByTransactions'
    BY <2>1, <2>2 DEF TenancyInv, FreeSaysNothing, HeldByTransactions, Mine
  <2>4. OwnTenantOnly'
    BY <2>1, <2>2, OthersSettings DEF TenancyInv, OwnTenantOnly, Mine
  <2> QED
    BY <1>type, <2>3, <2>4 DEF TenancyInv
<1>3. ASSUME NEW r \in Callers, Begins(r) PROVE TenancyInv'
  <2>1. \A q \in Callers : q # r => caller'[q] = caller[q]
    BY <1>3, <1>type DEF Begins, TenancyTypeOK
  <2>2. caller'[r].at = "begun"
    BY <1>1, <1>3, <1>type DEF Begins, TenancyTypeOK, InTransaction
  <2>3. PICK c \in Connections : pool[c].by = Free /\ pool' = [pool EXCEPT ![c].by = r]
    BY <1>3 DEF Begins
  <2>4. /\ pool'[c].by = r /\ pool'[c].setting = Unset
        /\ \A d \in Connections : d # c => pool'[d] = pool[d]
    BY <2>3, <1>type DEF TenancyTypeOK, TenancyInv, FreeSaysNothing
  <2>5. \A d \in Connections : pool[d].by # r
    BY <1>3 DEF Begins, TenancyInv, HeldByTransactions
  <2>6. FreeSaysNothing'
    BY <2>4 DEF TenancyInv, FreeSaysNothing
  <2>7. HeldByTransactions'
    BY <2>1, <2>2, <2>4, <2>5 DEF TenancyInv, HeldByTransactions
  <2>8. OwnTenantOnly'
    BY <2>1, <2>2, <2>4, OthersSettings DEF TenancyInv, OwnTenantOnly, Mine
  <2> QED
    BY <1>type, <2>6, <2>7, <2>8 DEF TenancyInv
<1>4. ASSUME NEW r \in Callers, Publishes(r) PROVE TenancyInv'
  <2>1. \A q \in Callers : q # r => caller'[q] = caller[q]
    BY <1>4, <1>type DEF Publishes, TenancyTypeOK
  <2>2. caller'[r].at \in {"reading", "running"} /\ SettingOf(r)' = SettingOf(r)
    <3>1. caller[r] \in InTransaction
      BY <1>1, <1>4 DEF Publishes
    <3>2. /\ caller'[r].at \in {"reading", "running"}
          /\ caller'[r].form = caller[r].form /\ caller'[r].context = caller[r].context
      BY <1>4, <1>type, <3>1 DEF Publishes, TenancyTypeOK, InTransaction
    <3> QED
      BY <3>2 DEF SettingOf, Published
  <2>3. \A c \in Connections :
            IF pool[c].by = r
            THEN pool'[c].by = r /\ pool'[c].setting \in {SettingOf(r), Unset}
            ELSE pool'[c] = pool[c]
    BY <1>4, <1>type DEF Publishes, TenancyTypeOK, TenancyInv, HeldByTransactions
  <2>4. FreeSaysNothing'
    BY <2>3 DEF TenancyInv, FreeSaysNothing
  <2>5. HeldByTransactions'
    BY <2>1, <2>2, <2>3 DEF TenancyInv, HeldByTransactions
  <2>6. OwnTenantOnly'
    BY <2>1, <2>2, <2>3, OthersSettings DEF TenancyInv, OwnTenantOnly, Mine
  <2> QED
    BY <1>type, <2>4, <2>5, <2>6 DEF TenancyInv
<1>5. ASSUME NEW r \in Callers, ReadsAside(r) PROVE TenancyInv'
  <2>1. \A q \in Callers : q # r => caller'[q] = caller[q]
    BY <1>5, <1>type DEF ReadsAside, TenancyTypeOK
  <2>2. caller'[r].at = "running" /\ SettingOf(r)' = SettingOf(r)
    <3>1. caller[r] \in InTransaction
      BY <1>1, <1>5 DEF ReadsAside
    <3>2. /\ caller'[r].at = "running"
          /\ caller'[r].form = caller[r].form /\ caller'[r].context = caller[r].context
      BY <1>5, <1>type, <3>1 DEF ReadsAside, TenancyTypeOK, InTransaction
    <3> QED
      BY <3>2 DEF SettingOf, Published
  <2>3. FreeSaysNothing' /\ HeldByTransactions'
    BY <1>5, <2>1, <2>2 DEF ReadsAside, TenancyInv, FreeSaysNothing, HeldByTransactions
  <2>4. OwnTenantOnly'
    BY <1>5, <2>1, <2>2, OthersSettings DEF ReadsAside, TenancyInv, OwnTenantOnly, Mine
  <2> QED
    BY <1>type, <2>3, <2>4 DEF TenancyInv
<1>6. ASSUME NEW r \in Callers, Ends(r) \/ CutOff(r) PROVE TenancyInv'
  <2>1. \A q \in Callers : q # r => caller'[q] = caller[q]
    BY <1>6, <1>type DEF Ends, CutOff, TenancyTypeOK
  <2>2. caller'[r].at = "done"
    BY <1>6, <1>type DEF Ends, CutOff, TenancyTypeOK, Ended
  <2>3. \A c \in Connections :
            IF pool[c].by = r THEN pool'[c] = [by |-> Free, setting |-> Unset]
                              ELSE pool'[c] = pool[c]
    BY <1>6, <1>type DEF Ends, CutOff, GiveBack, TenancyTypeOK
  <2>4. FreeSaysNothing' /\ HeldByTransactions'
    BY <2>1, <2>3 DEF TenancyInv, FreeSaysNothing, HeldByTransactions
  <2>5. OwnTenantOnly'
    BY <2>1, <2>2, <2>3, OthersSettings DEF TenancyInv, OwnTenantOnly, Mine
  <2> QED
    BY <1>type, <2>4, <2>5 DEF TenancyInv
<1>7. ASSUME NEW r \in Callers, GivesUp(r) PROVE TenancyInv'
  <2>1. \A q \in Callers : q # r => caller'[q] = caller[q]
    BY <1>7, <1>type DEF GivesUp, TenancyTypeOK
  <2>2. caller'[r].at = "done" /\ pool' = pool /\ caller[r].at = "queued"
    BY <1>7, <1>type DEF GivesUp, TenancyTypeOK, Ended
  <2>3. FreeSaysNothing' /\ HeldByTransactions'
    BY <2>1, <2>2 DEF TenancyInv, FreeSaysNothing, HeldByTransactions
  <2>4. OwnTenantOnly'
    BY <2>1, <2>2, OthersSettings DEF TenancyInv, OwnTenantOnly, Mine
  <2> QED
    BY <1>type, <2>3, <2>4 DEF TenancyInv
<1>8. CASE UNCHANGED tenancyVars
  <2>1. \A r : SettingOf(r)' = SettingOf(r)
    BY <1>8, OthersSettings DEF tenancyVars
  <2> QED
    BY <1>8, <1>type, <2>1 DEF tenancyVars, TenancyInv, FreeSaysNothing, HeldByTransactions,
                               OwnTenantOnly, Mine
<1> QED
  BY <1>2, <1>3, <1>4, <1>5, <1>6, <1>7, <1>8 DEF TenancyNext, TenancyStep
-----------------------------------------------------------------------------
\* A connection that nobody holds has forgotten its last tenant, however the
\* transaction ended (PrismaService, set_config with is_local TRUE).
THEOREM TenancyInvariant == TenancySpec => []TenancyInv
<1>1. TenancyInit => TenancyInv
  BY DEF TenancyInit, TenancyInv, TenancyTypeOK, FreeSaysNothing, HeldByTransactions, OwnTenantOnly,
         Mine, Fresh
<1> QED
  BY <1>1, TenancyInvStep, PTL DEF TenancySpec

\* No statement runs under the tenant of another request.
THEOREM TenantsAreApart == TenancySpec => []OwnTenantOnly
<1>1. TenancyInv => OwnTenantOnly
  BY DEF TenancyInv
<1> QED
  BY <1>1, TenancyInvariant, PTL

HIDE TenancyAssumption

-----------------------------------------------------------------------------
(* OrgConfig: the logo on record is in storage, however uploads, removals  *)
(* and failures overlap, for any number of requests and names.             *)

Changing(s) == serving[s].at \in {"replacing", "cleared", "stored"}

Named == named \cup {NoLogo}

\* A name that an upload has made up is nobody else's, and not on record yet.
NewIsNew(s) ==
  LET new == serving[s].new IN
  new # NoLogo =>
    /\ config.logo # new
    /\ \A t \in Servers : Changing(t) => serving[t].old # new /\ (t # s => serving[t].new # new)

LogosAreNamed ==
  /\ config.logo \in Named
  /\ \A s \in Servers : Changing(s) =>
       /\ serving[s].old \in Named /\ serving[s].new \in Named
       /\ NewIsNew(s)
       /\ serving[s].at = "stored" => serving[s].new \in bucket \cup {NoLogo}

ConfigInv == ConfigTypeOK /\ LogosAreNamed /\ LogoOnRecordExists

Change == [at : {"replacing", "cleared", "stored"}, old : Logos \cup {NoLogo}, new : Logos \cup {NoLogo}]

Serving == {AtRest} \cup [at : {"missed", "written"}] \cup [at : {"read"}, config : Config] \cup Change

LEMMA ConfigInitInv == ConfigInit => ConfigInv
<1> SUFFICES ASSUME ConfigInit PROVE ConfigInv
  OBVIOUS
<1>1. ConfigTypeOK
  BY ConfigAssumption DEF ConfigInit, ConfigTypeOK, Config
<1>2. LogosAreNamed /\ LogoOnRecordExists
  BY DEF ConfigInit, LogosAreNamed, LogoOnRecordExists, Changing, Named, AtRest
<1>. QED
  BY <1>1, <1>2 DEF ConfigInv

\* A request that comes to rest, or to a state that has nothing to do with logos.
LEMMA LeavesLogos ==
  ASSUME ConfigInv, NEW s \in Servers, NEW state \in Serving \ Change, Goes(s, state),
         config'.logo = config.logo, config' \in Config, cached' \in Config \cup {NoConfig},
         bucket' = bucket, named' = named, spoilt \subseteq spoilt', spoilt' \subseteq Logos,
         serving[s].at \in {"cleared", "stored"} => serving[s].old \in spoilt' \cup {NoLogo}
  PROVE  ConfigInv'
<1>1. state.at \notin {"replacing", "cleared", "stored"}
  BY DEF Serving, Change, AtRest
<1>2. \A t \in Servers : serving'[t] = IF t = s THEN state ELSE serving[t]
  BY DEF Goes, ConfigInv, ConfigTypeOK
<1>3. ConfigTypeOK'
  BY <1>2 DEF Goes, ConfigInv, ConfigTypeOK, Serving, Change
<1>4. \A t \in Servers : Changing(t)' => t # s /\ Changing(t) /\ serving'[t] = serving[t]
  BY <1>1, <1>2 DEF Changing
<1>5. LogosAreNamed'
  BY <1>4 DEF ConfigInv, LogosAreNamed, NewIsNew, Named
<1>6. LogoOnRecordExists'
  <2>1. \A l \in BeingReplaced : l \in BeingReplaced' \cup spoilt' \cup {NoLogo}
    BY <1>2 DEF BeingReplaced
  <2>. QED
    BY <2>1 DEF ConfigInv, LogoOnRecordExists
<1>. QED
  BY <1>3, <1>5, <1>6 DEF ConfigInv

\* Whoever changes the logo holds two names.
LEMMA ChangeType ==
  ASSUME ConfigTypeOK, NEW s \in Servers, Changing(s)
  PROVE  serving[s] \in Change
BY DEF ConfigTypeOK, Changing, Change, AtRest

LEMMA StartLogoStep ==
  ASSUME ConfigInv, NEW s \in Servers, NEW new \in Logos \cup {NoLogo}, StartLogo(s, new)
  PROVE  ConfigInv'
<1>1. /\ serving[s] = AtRest /\ named' = named \cup ({new} \ {NoLogo})
      /\ new \notin named /\ config' = config /\ cached' = cached /\ bucket' = bucket
      /\ spoilt' = spoilt
  BY ConfigAssumption DEF StartLogo, ConfigInv, ConfigTypeOK
<1>2. config.logo \in Logos \cup {NoLogo} /\ ConfigTypeOK
  BY DEF ConfigInv, ConfigTypeOK, Config
<1>3. ~Changing(s)
  BY <1>1 DEF Changing, AtRest
<1>4. CASE new = NoLogo /\ config.logo = NoLogo
  <2>1. PICK state : state = [at |-> "written"]
    OBVIOUS
  <2>2. state \in Serving \ Change /\ Goes(s, state)
    BY <1>4, <2>1 DEF StartLogo, Serving, Change
  <2>. QED
    BY <1>1, <1>3, <1>4, <2>2, LeavesLogos DEF ConfigInv, ConfigTypeOK, Changing
<1>5. CASE ~(new = NoLogo /\ config.logo = NoLogo)
  <2>1. PICK state : state = [at |-> "replacing", old |-> config.logo, new |-> new]
    OBVIOUS
  <2>2. state \in Change /\ state.old = config.logo /\ state.new = new /\ state.at = "replacing"
    BY <1>2, <2>1 DEF Change
  <2>3. \A t \in Servers : serving'[t] = IF t = s THEN state ELSE serving[t]
    BY <1>2, <1>5, <2>1 DEF StartLogo, Goes, ConfigTypeOK
  <2>4. ConfigTypeOK'
    BY <1>1, <1>2, <1>5, <2>1, <2>2 DEF StartLogo, Goes, ConfigTypeOK, Change
  <2>5. \A t \in Servers : Changing(t)' <=> t = s \/ Changing(t)
    BY <2>2, <2>3 DEF Changing
  <2>6. \A t \in Servers : Changing(t) =>
           /\ t # s
           /\ serving[t].old \in Named /\ serving[t].new \in Named
           /\ NewIsNew(t)
           /\ serving[t].at = "stored" => serving[t].new \in bucket \cup {NoLogo}
    BY <1>3 DEF ConfigInv, LogosAreNamed
  <2>7. config.logo \in Named /\ (new # NoLogo => new \notin Named) /\ new \in Named'
    BY <1>1 DEF ConfigInv, LogosAreNamed, Named
  <2>8. Named \subseteq Named'
    BY <1>1 DEF Named
  <2>9. ASSUME NEW t \in Servers, Changing(t)'
        PROVE  NewIsNew(t)'
    <3>1. CASE t = s
      BY <1>1, <2>2, <2>3, <2>5, <2>6, <2>7, <3>1 DEF NewIsNew
    <3>2. CASE t # s
      BY <1>1, <2>2, <2>3, <2>5, <2>6, <2>7, <2>9, <3>2 DEF NewIsNew
    <3>. QED
      BY <3>1, <3>2
  <2>10. LogosAreNamed'
    BY <1>1, <2>2, <2>3, <2>5, <2>6, <2>7, <2>8, <2>9 DEF LogosAreNamed
  <2>11. LogoOnRecordExists'
    <3>1. BeingReplaced \subseteq BeingReplaced'
      BY <1>3, <2>3 DEF BeingReplaced, Changing
    <3>. QED
      BY <1>1, <3>1 DEF ConfigInv, LogoOnRecordExists
  <2>. QED
    BY <2>4, <2>10, <2>11 DEF ConfigInv
<1>. QED
  BY <1>4, <1>5

\* Deleting the old object takes away a logo that is on record only from under its replacement.
LEMMA ClearOldStep ==
  ASSUME ConfigInv, NEW s \in Servers, ClearOld(s)
  PROVE  ConfigInv'
<1>1. /\ serving[s].at = "replacing" /\ Changing(s) /\ config' = config /\ cached' = cached
      /\ named' = named /\ spoilt' = spoilt /\ ConfigTypeOK
  BY DEF ClearOld, Changing, ConfigInv
<1>2. PICK state : state = [serving[s] EXCEPT !.at = "cleared"]
  OBVIOUS
<1>3. /\ state \in Change /\ state.at = "cleared"
      /\ state.old = serving[s].old /\ state.new = serving[s].new
  BY <1>1, <1>2, ChangeType DEF Change
<1>4. /\ \A t \in Servers : serving'[t] = IF t = s THEN state ELSE serving[t]
      /\ bucket' \subseteq bucket
      /\ \A l \in bucket : l \in bucket' \/ l = serving[s].old
  BY <1>1, <1>2 DEF ClearOld, Goes, ConfigTypeOK
<1>5. ConfigTypeOK'
  BY <1>1, <1>2, <1>3, <1>4 DEF ClearOld, Goes, ConfigTypeOK, Change
<1>6. \A t \in Servers : /\ Changing(t)' <=> Changing(t)
                         /\ Changing(t) => serving'[t].old = serving[t].old /\ serving'[t].new = serving[t].new
                         /\ serving'[t].at = "stored" => t # s /\ serving[t].at = "stored"
  BY <1>1, <1>3, <1>4 DEF Changing
<1>7. \A t \in Servers : Changing(t) => NewIsNew(t)'
  BY <1>1, <1>6 DEF ConfigInv, LogosAreNamed, NewIsNew
<1>8. ASSUME NEW t \in Servers, serving'[t].at = "stored"
      PROVE  serving'[t].new \in bucket' \cup {NoLogo}
  <2>1. Changing(t) /\ serving[t].at = "stored" /\ serving'[t].new = serving[t].new
    BY <1>6, <1>8 DEF Changing
  <2>2. serving[t].new # NoLogo => serving[s].old # serving[t].new
    BY <1>1, <2>1 DEF ConfigInv, LogosAreNamed, NewIsNew
  <2>3. serving[t].new \in bucket \cup {NoLogo}
    BY <2>1 DEF ConfigInv, LogosAreNamed
  <2>. QED
    BY <1>4, <2>1, <2>2, <2>3
<1>9. LogosAreNamed'
  BY <1>1, <1>6, <1>7, <1>8 DEF ConfigInv, LogosAreNamed, Named
<1>10. LogoOnRecordExists'
  <2>1. BeingReplaced \subseteq BeingReplaced' /\ serving[s].old \in BeingReplaced'
    BY <1>1, <1>3, <1>4 DEF BeingReplaced
  <2>. QED
    BY <1>1, <1>4, <2>1 DEF ConfigInv, LogoOnRecordExists
<1>. QED
  BY <1>5, <1>9, <1>10 DEF ConfigInv

LEMMA StoreNewStep ==
  ASSUME ConfigInv, NEW s \in Servers, StoreNew(s)
  PROVE  ConfigInv'
<1>1. /\ serving[s].at = "cleared" /\ Changing(s) /\ config' = config /\ cached' = cached
      /\ named' = named /\ spoilt' = spoilt /\ ConfigTypeOK
      /\ bucket' = bucket \cup ({serving[s].new} \ {NoLogo})
  BY DEF StoreNew, Changing, ConfigInv
<1>2. PICK state : state = [serving[s] EXCEPT !.at = "stored"]
  OBVIOUS
<1>3. /\ state \in Change /\ state.at = "stored"
      /\ state.old = serving[s].old /\ state.new = serving[s].new
  BY <1>1, <1>2, ChangeType DEF Change
<1>4. \A t \in Servers : serving'[t] = IF t = s THEN state ELSE serving[t]
  BY <1>1, <1>2 DEF StoreNew, Goes, ConfigTypeOK
<1>5. ConfigTypeOK'
  BY <1>1, <1>2, <1>3, <1>4 DEF StoreNew, Goes, ConfigTypeOK, Change
<1>6. \A t \in Servers : /\ Changing(t)' <=> Changing(t)
                         /\ Changing(t) => serving'[t].old = serving[t].old /\ serving'[t].new = serving[t].new
                         /\ serving'[t].at = "stored" => t = s \/ serving[t].at = "stored"
  BY <1>1, <1>3, <1>4 DEF Changing
<1>7. \A t \in Servers : Changing(t) => NewIsNew(t)'
  BY <1>1, <1>6 DEF ConfigInv, LogosAreNamed, NewIsNew
<1>8. LogosAreNamed'
  BY <1>1, <1>3, <1>4, <1>6, <1>7 DEF ConfigInv, LogosAreNamed, Named
<1>9. LogoOnRecordExists'
  <2>1. BeingReplaced \subseteq BeingReplaced'
    BY <1>1, <1>3, <1>4 DEF BeingReplaced
  <2>. QED
    BY <1>1, <2>1 DEF ConfigInv, LogoOnRecordExists
<1>. QED
  BY <1>5, <1>8, <1>9 DEF ConfigInv

LEMMA RecordLogoStep ==
  ASSUME ConfigInv, NEW s \in Servers, RecordLogo(s)
  PROVE  ConfigInv'
<1>1. /\ serving[s].at = "stored" /\ Changing(s) /\ cached' = cached /\ bucket' = bucket
      /\ named' = named /\ spoilt' = spoilt /\ ConfigTypeOK
  BY DEF RecordLogo, Changing, ConfigInv
<1>2. PICK new : new = serving[s].new
  OBVIOUS
<1>3. new \in Logos \cup {NoLogo} /\ new \in Named /\ new \in bucket \cup {NoLogo}
  BY <1>1, <1>2, ChangeType DEF Change, ConfigInv, LogosAreNamed
<1>4. config'.logo = new /\ config' \in Config
  BY <1>1, <1>2, <1>3 DEF RecordLogo, ConfigTypeOK, Config
<1>5. PICK state : state = [at |-> "written"]
  OBVIOUS
<1>6. /\ state.at = "written" /\ Goes(s, state)
      /\ \A t \in Servers : serving'[t] = IF t = s THEN state ELSE serving[t]
  BY <1>1, <1>5 DEF RecordLogo, Goes, ConfigTypeOK
<1>7. ConfigTypeOK'
  BY <1>1, <1>4, <1>5, <1>6 DEF Goes, ConfigTypeOK
<1>8. \A t \in Servers : Changing(t)' => t # s /\ Changing(t) /\ serving'[t] = serving[t]
  BY <1>6 DEF Changing
<1>9. ASSUME NEW t \in Servers, Changing(t)'
      PROVE  NewIsNew(t)'
  <2>1. NewIsNew(t) /\ t # s /\ Changing(t) /\ serving'[t] = serving[t]
    BY <1>8, <1>9 DEF ConfigInv, LogosAreNamed
  <2>2. serving[t].new # NoLogo => serving[t].new # new
    BY <1>1, <1>2, <2>1 DEF NewIsNew
  <2>. QED
    BY <1>4, <1>8, <2>1, <2>2 DEF NewIsNew
<1>10. LogosAreNamed'
  BY <1>1, <1>3, <1>4, <1>8, <1>9 DEF ConfigInv, LogosAreNamed, Named
<1>11. LogoOnRecordExists'
  BY <1>1, <1>3, <1>4 DEF LogoOnRecordExists
<1>. QED
  BY <1>7, <1>10, <1>11 DEF ConfigInv

LEMMA ConfigStep == ConfigInv /\ [ConfigNext]_configVars => ConfigInv'
<1> SUFFICES ASSUME ConfigInv, [ConfigNext]_configVars PROVE ConfigInv'
  OBVIOUS
<1>1. /\ config \in Config /\ cached \in Config \cup {NoConfig} /\ spoilt \subseteq Logos
      /\ \A s \in Servers : serving[s] \in Serving
  BY DEF ConfigInv, ConfigTypeOK, Serving, Change
<1>2. AtRest \in Serving \ Change /\ [at |-> "missed"] \in Serving \ Change
      /\ [at |-> "written"] \in Serving \ Change
      /\ \A c \in Config : [at |-> "read", config |-> c] \in Serving \ Change
  BY DEF AtRest, Serving, Change
<1>3. ASSUME NEW s \in Servers, LookUp(s) \/ ReadRow(s) \/ Fill(s) \/ Invalidate(s)
      PROVE  ConfigInv'
  <2>1. serving[s].at \notin {"cleared", "stored"}
    BY <1>3 DEF LookUp, ReadRow, Fill, Invalidate, AtRest
  <2>2. PICK state \in Serving \ Change : Goes(s, state)
    BY <1>1, <1>2, <1>3 DEF LookUp, ReadRow, Fill, Invalidate
  <2>3. /\ config' = config /\ bucket' = bucket /\ named' = named /\ spoilt' = spoilt
        /\ cached' \in Config \cup {NoConfig}
    <3>1. serving[s].at = "read" => serving[s].config \in Config
      BY <1>1 DEF Serving, Change, AtRest
    <3>. QED
      BY <1>1, <1>3, <3>1 DEF LookUp, ReadRow, Fill, Invalidate
  <2>. QED
    BY <1>1, <2>1, <2>2, <2>3, LeavesLogos
<1>4. ASSUME NEW s \in Servers, ChangeSettings(s)
      PROVE  ConfigInv'
  <2>1. /\ config' \in Config /\ config'.logo = config.logo
        /\ serving[s].at \notin {"cleared", "stored"}
    BY <1>1, <1>4, ConfigAssumption DEF ChangeSettings, Config, AtRest
  <2>. QED
    BY <1>1, <1>2, <1>4, <2>1, LeavesLogos DEF ChangeSettings
<1>5. ASSUME NEW s \in Servers, Fails(s)
      PROVE  ConfigInv'
  <2>1. serving[s].at \in {"cleared", "stored"} => serving[s].old \in Logos \cup {NoLogo}
    BY <1>1 DEF Serving, Change, AtRest
  <2>2. /\ spoilt \subseteq spoilt' /\ spoilt' \subseteq Logos
        /\ serving[s].at \in {"cleared", "stored"} => serving[s].old \in spoilt' \cup {NoLogo}
    BY <1>1, <1>5, <2>1 DEF Fails
  <2>. QED
    BY <1>1, <1>2, <1>5, <2>2, LeavesLogos DEF Fails
<1>6. ASSUME NEW s \in Servers, NEW new \in Logos \cup {NoLogo}, StartLogo(s, new)
      PROVE  ConfigInv'
  BY <1>6, StartLogoStep
<1>7. ASSUME NEW s \in Servers, ClearOld(s) \/ StoreNew(s) \/ RecordLogo(s)
      PROVE  ConfigInv'
  BY <1>7, ClearOldStep, StoreNewStep, RecordLogoStep
<1>8. CASE CopyExpires
  BY <1>1, <1>8 DEF CopyExpires, ConfigInv, ConfigTypeOK, LogosAreNamed, NewIsNew, Named, Changing,
                    LogoOnRecordExists, BeingReplaced
<1>9. CASE UNCHANGED configVars
  BY <1>9 DEF configVars, ConfigInv, ConfigTypeOK, LogosAreNamed, NewIsNew, Named, Changing,
              LogoOnRecordExists, BeingReplaced
<1>. QED
  BY <1>3, <1>4, <1>5, <1>6, <1>7, <1>8, <1>9 DEF ConfigNext, ServeStep

\* The logo on record is in storage, but for a request that is about to replace it or has failed
\* in between, whatever uploads and removals overlap.
THEOREM LogoIsInStorage == ConfigSpec => []LogoOnRecordExists
<1>1. ConfigInv => LogoOnRecordExists
  BY DEF ConfigInv
<1>. QED
  BY <1>1, ConfigInitInv, ConfigStep, PTL DEF ConfigSpec

-----------------------------------------------------------------------------
(* The calendar of charges: months and the days in them.                   *)

LEMMA YearAndMonth ==
    ASSUME NEW m \in Int
    PROVE  /\ m \div 12 \in Int /\ m % 12 \in 0..11 /\ m = 12 * (m \div 12) + (m % 12)
           /\ (m + 1) \div 12 = IF m % 12 = 11 THEN m \div 12 + 1 ELSE m \div 12
           /\ (m + 1) % 12 = IF m % 12 = 11 THEN 0 ELSE (m % 12) + 1
<1>1. m \div 12 \in Int /\ m % 12 \in 0..11 /\ m = 12 * (m \div 12) + (m % 12)
  <2>1. m \div 12 \in Int
    OBVIOUS
  <2>2. m % 12 \in 0..11
    OBVIOUS
  <2>3. m = 12 * (m \div 12) + (m % 12)
    OBVIOUS
  <2> QED
    BY <2>1, <2>2, <2>3
<1>2. CASE m % 12 = 11
  <2>1. (m + 1) \div 12 = m \div 12 + 1
    BY <1>2
  <2>2. (m + 1) % 12 = 0
    BY <1>2
  <2> QED
    BY <1>1, <1>2, <2>1, <2>2
<1>3. CASE m % 12 # 11
  <2>1. (m + 1) \div 12 = m \div 12
    BY <1>1, <1>3
  <2>2. (m + 1) % 12 = (m % 12) + 1
    BY <1>1, <1>3
  <2> QED
    BY <1>1, <1>3, <2>1, <2>2
<1> QED
  BY <1>2, <1>3

LEMMA DaysBeforeFacts ==
    /\ DaysBefore[1] = 0 /\ DaysBefore[2] = 31 /\ DaysBefore[3] = 59 /\ DaysBefore[4] = 90
    /\ DaysBefore[5] = 120 /\ DaysBefore[6] = 151 /\ DaysBefore[7] = 181 /\ DaysBefore[8] = 212
    /\ DaysBefore[9] = 243 /\ DaysBefore[10] = 273 /\ DaysBefore[11] = 304 /\ DaysBefore[12] = 334
BY DEF DaysBefore

LEMMA LeapFacts ==
    ASSUME NEW m \in Int
    PROVE  /\ (m + 10) \div 48 \in Int
           /\ (m + 11) \div 48 = (m + 10) \div 48 + IF m % 48 = 37 THEN 1 ELSE 0
           /\ m % 48 = 37 => m % 12 = 1
           /\ 48 * ((m + 10) \div 48) <= m + 10 /\ m + 10 < 48 * ((m + 10) \div 48) + 48
OBVIOUS

LEMMA FirstDayType == \A m \in Int : FirstDay(m) \in Int
<1> TAKE m \in Int
<1>1. m % 12 \in 0..11 /\ m \div 12 \in Int
  BY YearAndMonth
<1>2. DaysBefore[(m % 12) + 1] \in Int
  BY <1>1, DaysBeforeFacts
<1>3. (m + 10) \div 48 \in Int
  BY LeapFacts
<1>4. \A x, y, z \in Int : 365 * x + y + z \in Int
  OBVIOUS
<1> QED
  BY <1>1, <1>2, <1>3, <1>4 DEF FirstDay

LEMMA MonthLengthType == \A m \in Int : MonthLength(m) \in 28..31
BY DEF MonthLength

\* A month begins where the one before it ends.
LEMMA NextMonth == \A m \in Int : FirstDay(m + 1) = FirstDay(m) + MonthLength(m)
<1> TAKE m \in Int
<1> DEFINE y == m \div 12
           k == m % 12
           leap == (m + 10) \div 48
<1>1. y \in Int /\ k \in 0..11 /\ leap \in Int
  BY YearAndMonth, LeapFacts
<1>2. FirstDay(m) = 365 * y + DaysBefore[k + 1] + leap
  BY DEF FirstDay
<1>3. FirstDay(m + 1) = 365 * (IF k = 11 THEN y + 1 ELSE y) + DaysBefore[(IF k = 11 THEN 0 ELSE k + 1) + 1]
                            + (leap + IF m % 48 = 37 THEN 1 ELSE 0)
  <2>1. FirstDay(m + 1) = 365 * ((m + 1) \div 12) + DaysBefore[((m + 1) % 12) + 1] + ((m + 1) + 10) \div 48
    BY DEF FirstDay
  <2>2. (m + 1) + 10 = m + 11
    OBVIOUS
  <2>3. ((m + 1) + 10) \div 48 = leap + IF m % 48 = 37 THEN 1 ELSE 0
    BY <2>2, LeapFacts
  <2> QED
    BY <2>1, <2>3, YearAndMonth
<1>4. m % 48 = 37 => k = 1
  BY LeapFacts
<1>5. MonthLength(m) = CASE k = 1 -> IF m % 48 = 37 THEN 29 ELSE 28
                         [] k \in {3, 5, 8, 10} -> 30
                         [] OTHER -> 31
  BY DEF MonthLength
<1> HIDE DEF y, k, leap
<1> QED
  BY <1>1, <1>2, <1>3, <1>4, <1>5, DaysBeforeFacts

\* n months are between 28 and 31 days each.
LEMMA MonthsApart ==
    \A n \in Nat, m \in Int : FirstDay(m) + 28 * n <= FirstDay(m + n)
<1> DEFINE Good == {n \in Nat : \A m \in Int : FirstDay(m) + 28 * n <= FirstDay(m + n)}
<1>1. 0 \in Good
  BY FirstDayType
<1>2. ASSUME NEW n \in Nat, n \in Good PROVE n + 1 \in Good
  <2> SUFFICES ASSUME NEW m \in Int PROVE FirstDay(m) + 28 * (n + 1) <= FirstDay(m + (n + 1))
    OBVIOUS
  <2>1. FirstDay(m) + 28 * n <= FirstDay(m + n)
    BY <1>2
  <2>2. FirstDay((m + n) + 1) = FirstDay(m + n) + MonthLength(m + n) /\ MonthLength(m + n) \in 28..31
    BY NextMonth, MonthLengthType
  <2>3. (m + n) + 1 = m + (n + 1) /\ FirstDay(m) \in Int /\ FirstDay(m + n) \in Int
    BY FirstDayType
  <2> QED
    BY <2>1, <2>2, <2>3
<1> HIDE DEF Good
<1>3. \A n \in Nat : n \in Good
  BY <1>1, <1>2, NatSetInduction
<1> QED
  BY <1>3 DEF Good

LEMMA MonthOrder == \A m, n \in Int : m < n => LastDay(m) < FirstDay(n)
<1> TAKE m, n \in Int
<1> HAVE m < n
<1> DEFINE d == n - (m + 1)
<1>1. d \in Nat /\ (m + 1) + d = n /\ m + 1 \in Int
  OBVIOUS
<1> HIDE DEF d
<1>2. FirstDay(m + 1) + 28 * d <= FirstDay((m + 1) + d)
  BY <1>1, MonthsApart
<1> QED
  BY <1>1, <1>2, FirstDayType DEF LastDay

LEMMA DaysBeforeBounds ==
    \A k \in 0..11 : /\ DaysBefore[k + 1] \in Int
                     /\ 304375 * k - 30000 <= 10000 * DaysBefore[k + 1]
                     /\ 10000 * DaysBefore[k + 1] <= 304375 * k + 10000
BY DaysBeforeFacts

\* The guess of MonthOf: a month of 30.4375 days is never a whole month wrong.
LEMMA MeanMonth ==
    \A m \in Int : /\ 304375 * m - 100000 <= 10000 * FirstDay(m)
                   /\ 10000 * FirstDay(m) <= 304375 * m + 100000
<1> TAKE m \in Int
<1> DEFINE y == m \div 12
           k == m % 12
           leap == (m + 10) \div 48
<1>1. y \in Int /\ k \in 0..11 /\ leap \in Int /\ m = 12 * y + k
      /\ 48 * leap <= m + 10 /\ m + 10 < 48 * leap + 48
  BY YearAndMonth, LeapFacts
<1>2. FirstDay(m) = 365 * y + DaysBefore[k + 1] + leap
  BY DEF FirstDay
<1> HIDE DEF y, k, leap
<1> QED
  BY <1>1, <1>2, DaysBeforeBounds

Within(day, m) == FirstDay(m) <= day /\ day <= LastDay(m)

LEMMA MonthFound ==
    ASSUME NEW day \in Int
    PROVE  LET guess == (10000 * day) \div 304375
           IN  guess \in Int /\ \E m \in guess - 1..guess + 1 : Within(day, m)
<1> DEFINE g == (10000 * day) \div 304375
<1>1. g \in Int /\ 304375 * g <= 10000 * day /\ 10000 * day < 304375 * (g + 1)
  OBVIOUS
<1> HIDE DEF g
<1>2. FirstDay(g - 1) <= day
  BY <1>1, MeanMonth, FirstDayType
<1>3. day < FirstDay(g + 2)
  BY <1>1, MeanMonth, FirstDayType
<1>4. LastDay(g - 1) = FirstDay(g) - 1 /\ LastDay(g) = FirstDay(g + 1) - 1 /\ LastDay(g + 1) = FirstDay(g + 2) - 1
  BY <1>1 DEF LastDay
<1>5. Within(day, g - 1) \/ Within(day, g) \/ Within(day, g + 1)
  BY <1>1, <1>2, <1>3, <1>4, FirstDayType DEF Within
<1> QED
  BY <1>1, <1>5 DEF g

\* A day is in one month, and MonthOf finds it.
LEMMA MonthOfFacts ==
    \A day \in Int : MonthOf(day) \in Int /\ \A m \in Int : Within(day, m) <=> m = MonthOf(day)
<1> TAKE day \in Int
<1> DEFINE guess == (10000 * day) \div 304375
<1>1. guess \in Int /\ \E m \in guess - 1..guess + 1 : Within(day, m)
  BY MonthFound
<1>2. MonthOf(day) = CHOOSE m \in guess - 1..guess + 1 : Within(day, m)
  BY DEF MonthOf, Within
<1> HIDE DEF guess
<1>3. MonthOf(day) \in guess - 1..guess + 1 /\ Within(day, MonthOf(day))
  BY <1>1, <1>2
<1>4. MonthOf(day) \in Int
  BY <1>1, <1>3
<1>5. ASSUME NEW m \in Int, Within(day, m) PROVE m = MonthOf(day)
  <2>1. ~(m < MonthOf(day)) /\ ~(MonthOf(day) < m)
    BY <1>3, <1>4, <1>5, MonthOrder, FirstDayType DEF Within, LastDay
  <2> QED
    BY <1>4, <2>1
<1> QED
  BY <1>3, <1>4, <1>5

\* A date moved by months comes out that many months away.
LEMMA AddMonthsFacts ==
    \A day \in Int, n \in Int : AddMonths(day, n) \in Int /\ MonthOf(AddMonths(day, n)) = MonthOf(day) + n
<1> TAKE day \in Int, n \in Int
<1> DEFINE target == MonthOf(day) + n
           inMonth == day - FirstDay(MonthOf(day))
<1>1. target \in Int /\ MonthOf(day) \in Int /\ Within(day, MonthOf(day))
  BY MonthOfFacts
<1>2. inMonth \in Nat
  BY <1>1, FirstDayType DEF Within
<1>3. FirstDay(target) \in Int /\ LastDay(target) = FirstDay(target) + MonthLength(target) - 1
      /\ MonthLength(target) \in 28..31
  BY <1>1, NextMonth, FirstDayType, MonthLengthType DEF LastDay
<1>4. AddMonths(day, n) = IF inMonth < MonthLength(target) THEN FirstDay(target) + inMonth ELSE LastDay(target)
  BY DEF AddMonths
<1> HIDE DEF target, inMonth
<1>5. AddMonths(day, n) \in Int /\ Within(AddMonths(day, n), target)
  BY <1>2, <1>3, <1>4 DEF Within
<1> QED
  BY <1>1, <1>5, MonthOfFacts DEF target

-----------------------------------------------------------------------------
(* The schedule and the two loops.                                         *)

LEMMA RecurrenceFacts ==
    \A r \in Recurrences : /\ r.unit \in {"DAY", "WEEK", "MONTH", "QUARTER", "SEMESTER", "YEAR"}
                           /\ r.interval \in Nat \ {0} /\ r.isRecurring \in BOOLEAN
<1> TAKE r \in Recurrences
<1>1. PICK u \in Units, i \in Intervals, b \in BOOLEAN : r = NormalizeRecurrence(u, i, b)
  BY DEF Recurrences
<1>2. CASE b
  <2>1. r = [unit |-> u, interval |-> i, isRecurring |-> TRUE]
    BY <1>1, <1>2 DEF NormalizeRecurrence
  <2> QED
    BY <2>1, CalendarAssumption
<1>3. CASE ~b
  <2>1. r = [unit |-> "MONTH", interval |-> 1, isRecurring |-> FALSE]
    BY <1>1, <1>3 DEF NormalizeRecurrence
  <2> QED
    BY <2>1
<1> QED
  BY <1>2, <1>3

Daily(r) == r.unit \in {"DAY", "WEEK"}

\* Days, or months, from one charge to the next.
Stride(r) == IF Daily(r) THEN DaysOf[r.unit] * r.interval ELSE MonthsOf[r.unit] * r.interval

\* A charge's place in a walk: its day, or its month.
Place(r) == [day \in Int |-> IF Daily(r) THEN day ELSE MonthOf(day)]

LEMMA StepFacts ==
    \A r \in Recurrences : Stride(r) \in Nat \ {0} /\ Stride(r) >= 1
<1> TAKE r \in Recurrences
<1>1. r.interval \in Nat \ {0} /\ r.unit \in {"DAY", "WEEK", "MONTH", "QUARTER", "SEMESTER", "YEAR"}
  BY RecurrenceFacts
<1>2. \A k \in {1, 3, 6, 7, 12}, i \in Nat \ {0} : k * i \in Nat \ {0} /\ k * i >= 1
  OBVIOUS
<1>3. Daily(r) => DaysOf[r.unit] \in {1, 7}
  BY DEF Daily, DaysOf
<1>4. ~Daily(r) => MonthsOf[r.unit] \in {1, 3, 6, 12}
  BY <1>1 DEF Daily, MonthsOf
<1> QED
  BY <1>1, <1>2, <1>3, <1>4 DEF Stride

LEMMA PlaceType == \A r \in Recurrences : Place(r) \in [Int -> Int]
BY MonthOfFacts DEF Place

LEMMA ShiftFacts ==
    \A r \in Recurrences, day \in Int, k \in {-1, 1} :
        Shift(day, r, k) \in Int /\ Place(r)[Shift(day, r, k)] = Place(r)[day] + k * Stride(r)
<1> TAKE r \in Recurrences, day \in Int, k \in {-1, 1}
<1>1. Stride(r) \in Nat /\ k \in Int
  BY StepFacts
<1>2. CASE Daily(r)
  <2>1. Shift(day, r, k) = day + DaysOf[r.unit] * r.interval * k
    BY <1>2 DEF Shift, DaysOf, Daily
  <2>2. Shift(day, r, k) = day + Stride(r) * k
    BY <1>2, <2>1 DEF Stride
  <2>3. Shift(day, r, k) \in Int /\ Shift(day, r, k) = day + k * Stride(r)
    BY <1>1, <2>2
  <2> QED
    BY <1>2, <2>3 DEF Place
<1>3. CASE ~Daily(r)
  <2>1. Shift(day, r, k) = AddMonths(day, MonthsOf[r.unit] * r.interval * k)
    BY <1>3 DEF Shift, DaysOf, Daily
  <2>2. Shift(day, r, k) = AddMonths(day, Stride(r) * k)
    BY <1>3, <2>1 DEF Stride
  <2>3. Stride(r) * k \in Int /\ Stride(r) * k = k * Stride(r)
    BY <1>1
  <2> QED
    BY <1>3, <2>2, <2>3, AddMonthsFacts DEF Place
<1> QED
  BY <1>2, <1>3

LEMMA FromBelow == \A n \in Nat : n = 0 \/ \E m \in Nat : n = m + 1
<1> TAKE n \in Nat
<1>1. n # 0 => n - 1 \in Nat /\ n = (n - 1) + 1
  OBVIOUS
<1> QED
  BY <1>1

Backs == [Recurrences -> [Int -> [Int -> Int]]]

BackLevel(f, left) ==
    [recurrence \in Recurrences |-> [start \in Int |-> [cursor \in Int |->
        LET previous == Shift(cursor, recurrence, -1) IN
        IF cursor <= start \/ left = 0 \/ previous < start THEN cursor
        ELSE f[left - 1][recurrence][start][previous]]]]

OneBack(further) ==
    [recurrence \in Recurrences |-> [start \in Int |-> [cursor \in Int |->
        LET previous == Shift(cursor, recurrence, -1) IN
        IF cursor <= start \/ previous < start THEN cursor
        ELSE further[recurrence][start][previous]]]]

NoneBack == [recurrence \in Recurrences |-> [start \in Int |-> [cursor \in Int |-> cursor]]]

LEMMA WalkBackUnfolds ==
    /\ WalkBack \in [Nat -> Backs] /\ WalkBack[0] = NoneBack
    /\ \A n \in Nat : WalkBack[n + 1] = OneBack(WalkBack[n])
<1> DEFINE step == [v \in Backs |-> OneBack(v)]
           Unfolds(f) == f = [left \in Nat |-> BackLevel(f, left)]
<1>1. NoneBack \in Backs
  BY DEF NoneBack, Backs
<1>2. step \in [Backs -> Backs]
  <2> SUFFICES ASSUME NEW v \in Backs PROVE OneBack(v) \in Backs
    OBVIOUS
  <2>1. ASSUME NEW r \in Recurrences, NEW start \in Int, NEW c \in Int
        PROVE  v[r][start][Shift(c, r, -1)] \in Int
    <3>1. Shift(c, r, -1) \in Int
      BY ShiftFacts
    <3> QED
      BY <3>1 DEF Backs
  <2> QED
    BY <2>1 DEF OneBack, Backs
<1>3. PICK f \in [Nat -> Backs] : f[0] = NoneBack /\ \A n \in Nat : f[n + 1] = step[f[n]]
  <2> HIDE DEF step
  <2> QED
    BY <1>1, <1>2, Iteration
<1>4. ASSUME NEW g PROVE BackLevel(g, 0) = NoneBack
  BY DEF BackLevel, NoneBack
<1>5. ASSUME NEW g, NEW n \in Nat PROVE BackLevel(g, n + 1) = OneBack(g[n])
  <2>1. n + 1 # 0 /\ (n + 1) - 1 = n
    OBVIOUS
  <2> QED
    BY <2>1 DEF BackLevel, OneBack
<1>7. Unfolds(f)
  <2>1. \A n \in Nat : f[n + 1] = OneBack(f[n])
    BY <1>3
  <2>2. ASSUME NEW n \in Nat PROVE f[n] = BackLevel(f, n)
    <3>1. CASE n = 0
      BY <1>3, <1>4, <3>1
    <3>2. ASSUME NEW m \in Nat, n = m + 1 PROVE f[n] = BackLevel(f, n)
      BY <1>5, <2>1, <3>2
    <3> QED
      BY <3>1, <3>2, FromBelow
  <2> QED
    BY <1>3, <2>2
<1>8. Unfolds(WalkBack)
  <2>1. WalkBack = CHOOSE g : Unfolds(g)
    BY DEF WalkBack, BackLevel
  <2> HIDE DEF Unfolds
  <2> QED
    BY <1>7, <2>1
<1>9. \A n \in Nat : WalkBack[n] = BackLevel(WalkBack, n)
  BY <1>8
<1>10. WalkBack[0] = NoneBack /\ \A n \in Nat : WalkBack[n + 1] = OneBack(WalkBack[n])
  BY <1>4, <1>5, <1>9
<1>11. WalkBack \in [Nat -> Backs]
  <2>1. DOMAIN WalkBack = Nat /\ WalkBack = [n \in Nat |-> WalkBack[n]]
    BY <1>8
  <2> DEFINE Good == {n \in Nat : WalkBack[n] \in Backs}
  <2>2. 0 \in Good /\ \A n \in Nat : n \in Good => n + 1 \in Good
    BY <1>1, <1>2, <1>10
  <2> HIDE DEF Good
  <2>3. \A n \in Nat : n \in Good
    BY <2>2, NatSetInduction
  <2> QED
    BY <2>1, <2>3 DEF Good
<1> QED
  BY <1>10, <1>11

Ons == [Recurrences -> [Int -> [Int -> [Int -> Seq(Int)]]]]

OnLevel(f, left) ==
    [recurrence \in Recurrences |-> [start \in Int |-> [end \in Int |-> [cursor \in Int |->
        IF cursor > end \/ left = 0 THEN <<>>
        ELSE (IF cursor >= start THEN <<cursor>> ELSE <<>>)
             \o f[left - 1][recurrence][start][end][Shift(cursor, recurrence, 1)]]]]]

OneOn(further) ==
    [recurrence \in Recurrences |-> [start \in Int |-> [end \in Int |-> [cursor \in Int |->
        IF cursor > end THEN <<>>
        ELSE (IF cursor >= start THEN <<cursor>> ELSE <<>>)
             \o further[recurrence][start][end][Shift(cursor, recurrence, 1)]]]]]

NoneOn == [recurrence \in Recurrences |-> [start \in Int |-> [end \in Int |-> [cursor \in Int |-> <<>>]]]]

LEMMA WalkOnUnfolds ==
    /\ WalkOn \in [Nat -> Ons] /\ WalkOn[0] = NoneOn
    /\ \A n \in Nat : WalkOn[n + 1] = OneOn(WalkOn[n])
<1> DEFINE step == [v \in Ons |-> OneOn(v)]
           Unfolds(f) == f = [left \in Nat |-> OnLevel(f, left)]
<1>1. NoneOn \in Ons
  BY DEF NoneOn, Ons
<1>2. step \in [Ons -> Ons]
  <2> SUFFICES ASSUME NEW v \in Ons PROVE OneOn(v) \in Ons
    OBVIOUS
  <2>1. ASSUME NEW r \in Recurrences, NEW start \in Int, NEW end \in Int, NEW c \in Int
        PROVE  (IF c >= start THEN <<c>> ELSE <<>>) \o v[r][start][end][Shift(c, r, 1)] \in Seq(Int)
    <3>0. Shift(c, r, 1) \in Int
      BY ShiftFacts
    <3>1. v[r][start][end][Shift(c, r, 1)] \in Seq(Int)
      BY <3>0 DEF Ons
    <3>2. (IF c >= start THEN <<c>> ELSE <<>>) \in Seq(Int)
      OBVIOUS
    <3> QED
      BY <3>1, <3>2
  <2>2. ASSUME NEW r \in Recurrences, NEW start \in Int, NEW end \in Int
        PROVE  OneOn(v)[r][start][end] \in [Int -> Seq(Int)]
    <3> DEFINE row == [cursor \in Int |-> IF cursor > end THEN <<>>
                         ELSE (IF cursor >= start THEN <<cursor>> ELSE <<>>)
                              \o v[r][start][end][Shift(cursor, r, 1)]]
    <3>1. OneOn(v)[r][start][end] = row
      BY DEF OneOn
    <3>2. ASSUME NEW c \in Int PROVE row[c] \in Seq(Int)
      <4>1. CASE c > end
        BY <4>1
      <4>2. CASE ~(c > end)
        <5>1. row[c] = (IF c >= start THEN <<c>> ELSE <<>>) \o v[r][start][end][Shift(c, r, 1)]
          BY <4>2
        <5> QED
          BY <2>1, <5>1
      <4> QED
        BY <4>1, <4>2
    <3> QED
      BY <3>1, <3>2
  <2>3. ASSUME NEW r \in Recurrences PROVE OneOn(v)[r] \in [Int -> [Int -> [Int -> Seq(Int)]]]
    BY <2>2 DEF OneOn
  <2> QED
    BY <2>3 DEF OneOn, Ons
<1>3. PICK f \in [Nat -> Ons] : f[0] = NoneOn /\ \A n \in Nat : f[n + 1] = step[f[n]]
  <2> HIDE DEF step
  <2> QED
    BY <1>1, <1>2, Iteration
<1>4. ASSUME NEW g PROVE OnLevel(g, 0) = NoneOn
  BY DEF OnLevel, NoneOn
<1>5. ASSUME NEW g, NEW n \in Nat PROVE OnLevel(g, n + 1) = OneOn(g[n])
  <2>1. n + 1 # 0 /\ (n + 1) - 1 = n
    OBVIOUS
  <2> QED
    BY <2>1 DEF OnLevel, OneOn
<1>7. Unfolds(f)
  <2>1. \A n \in Nat : f[n + 1] = OneOn(f[n])
    BY <1>3
  <2>2. ASSUME NEW n \in Nat PROVE f[n] = OnLevel(f, n)
    <3>1. CASE n = 0
      BY <1>3, <1>4, <3>1
    <3>2. ASSUME NEW m \in Nat, n = m + 1 PROVE f[n] = OnLevel(f, n)
      BY <1>5, <2>1, <3>2
    <3> QED
      BY <3>1, <3>2, FromBelow
  <2> QED
    BY <1>3, <2>2
<1>8. Unfolds(WalkOn)
  <2>1. WalkOn = CHOOSE g : Unfolds(g)
    BY DEF WalkOn, OnLevel
  <2> HIDE DEF Unfolds
  <2> QED
    BY <1>7, <2>1
<1>9. \A n \in Nat : WalkOn[n] = OnLevel(WalkOn, n)
  BY <1>8
<1>10. WalkOn[0] = NoneOn /\ \A n \in Nat : WalkOn[n + 1] = OneOn(WalkOn[n])
  BY <1>4, <1>5, <1>9
<1>11. WalkOn \in [Nat -> Ons]
  <2>1. DOMAIN WalkOn = Nat /\ WalkOn = [n \in Nat |-> WalkOn[n]]
    BY <1>8
  <2> DEFINE Good == {n \in Nat : WalkOn[n] \in Ons}
  <2>2. 0 \in Good /\ \A n \in Nat : n \in Good => n + 1 \in Good
    BY <1>1, <1>2, <1>10
  <2> HIDE DEF Good
  <2>3. \A n \in Nat : n \in Good
    BY <2>2, NatSetInduction
  <2> QED
    BY <2>1, <2>3 DEF Good
<1> QED
  BY <1>10, <1>11

\* The range of a projection, in days and in places.
Span(r, start, end, first, last) ==
    /\ start \in Int /\ end \in Int /\ first \in Int /\ last \in Int
    /\ \A c \in Int : /\ c < start <=> Place(r)[c] < first
                      /\ c <= start => Place(r)[c] <= first
                      /\ c > end <=> Place(r)[c] > last

\* Back to the first charge of the range, or as far as left steps go.
Back(r, first, left, c, b) ==
    /\ b \in Int
    /\ \E k \in 0..left : /\ Place(r)[b] = Place(r)[c] - k * Stride(r)
                          /\ k = 0 \/ Place(r)[b] >= first
                          /\ k = left \/ Place(r)[b] <= first \/ Place(r)[b] - Stride(r) < first

LEMMA WalkedBack ==
    ASSUME NEW r \in Recurrences, NEW start, NEW end, NEW first, NEW last,
           Span(r, start, end, first, last)
    PROVE  \A n \in Nat : \A c \in Int : Back(r, first, n, c, WalkBack[n][r][start][c])
<1> DEFINE place == Place(r)
           period == Stride(r)
           Good == {n \in Nat : \A c \in Int : Back(r, first, n, c, WalkBack[n][r][start][c])}
<1>t. place \in [Int -> Int] /\ period \in Nat /\ start \in Int /\ first \in Int
  BY PlaceType, StepFacts DEF Span
<1>1. 0 \in Good
  <2> SUFFICES ASSUME NEW c \in Int PROVE Back(r, first, 0, c, WalkBack[0][r][start][c])
    OBVIOUS
  <2>1. WalkBack[0][r][start][c] = c
    BY <1>t, WalkBackUnfolds DEF NoneBack
  <2>2. 0 \in 0..0 /\ place[c] = place[c] - 0 * period
    BY <1>t
  <2> QED
    BY <2>1, <2>2 DEF Back
<1>2. ASSUME NEW n \in Nat, n \in Good PROVE n + 1 \in Good
  <2> SUFFICES ASSUME NEW c \in Int PROVE Back(r, first, n + 1, c, WalkBack[n + 1][r][start][c])
    OBVIOUS
  <2> DEFINE previous == Shift(c, r, -1)
             b == WalkBack[n + 1][r][start][c]
  <2>1. previous \in Int /\ place[previous] = place[c] - period
    <3>1. previous \in Int /\ place[previous] = place[c] + (-1) * period
      BY ShiftFacts
    <3> QED
      BY <1>t, <3>1
  <2>2. b = IF c <= start \/ previous < start THEN c ELSE WalkBack[n][r][start][previous]
    <3>1. WalkBack[n + 1] = OneBack(WalkBack[n])
      BY WalkBackUnfolds
    <3>2. \A v : OneBack(v)[r][start][c] = IF c <= start \/ previous < start THEN c ELSE v[r][start][previous]
      BY <1>t DEF OneBack
    <3> QED
      BY <3>1, <3>2
  <2>3. CASE c <= start \/ previous < start
    <3>1. b = c
      BY <2>2, <2>3
    <3>2. place[c] <= first \/ place[c] - period < first
      BY <2>1, <2>3 DEF Span
    <3>3. 0 \in 0..(n + 1) /\ place[c] = place[c] - 0 * period
      BY <1>t
    <3> QED
      BY <3>1, <3>2, <3>3 DEF Back
  <2>4. CASE ~(c <= start \/ previous < start)
    <3>1. b = WalkBack[n][r][start][previous]
      BY <2>2, <2>4
    <3>2. Back(r, first, n, previous, b)
      BY <1>2, <2>1, <3>1
    <3>3. PICK k \in 0..n : /\ place[b] = place[previous] - k * period
                            /\ k = 0 \/ place[b] >= first
                            /\ k = n \/ place[b] <= first \/ place[b] - period < first
      BY <3>2 DEF Back
    <3>4. b \in Int
      BY <3>2 DEF Back
    <3>5. place[previous] >= first
      BY <1>t, <2>1, <2>4 DEF Span
    <3>6. (k + 1) * period = k * period + period
      BY <1>t
    <3>7. k + 1 \in 0..(n + 1) /\ k * period \in Int
      BY <1>t
    <3>8. place[b] = place[c] - (k + 1) * period
      BY <1>t, <2>1, <3>3, <3>6, <3>7, <3>4
    <3>9. place[b] >= first
      <4>1. CASE k = 0
        BY <1>t, <2>1, <3>3, <3>5, <4>1
      <4> QED
        BY <3>3, <4>1
    <3>10. k + 1 = n + 1 \/ place[b] <= first \/ place[b] - period < first
      BY <3>3
    <3> QED
      BY <3>4, <3>7, <3>8, <3>9, <3>10 DEF Back
  <2> QED
    BY <2>3, <2>4
<1> HIDE DEF Good
<1>3. \A n \in Nat : n \in Good
  BY <1>1, <1>2, NatSetInduction
<1> QED
  BY <1>3 DEF Good

\* The charges of a range, in order, that left steps from c reach.
On(r, start, end, first, last, left, c, s) ==
    /\ s \in Seq(Int)
    /\ \A i \in 1..Len(s) : s[i] \in start..end
    /\ \A i \in 1..Len(s) : \E j \in 0..(left - 1) : Place(r)[s[i]] = Place(r)[c] + j * Stride(r)
    /\ \A p \in first..last, j \in 0..(left - 1) :
          p = Place(r)[c] + j * Stride(r) => \E i \in 1..Len(s) : Place(r)[s[i]] = p
    /\ \A i, j \in 1..Len(s) : i < j => Place(r)[s[i]] < Place(r)[s[j]]

LEMMA WalkedOn ==
    ASSUME NEW r \in Recurrences, NEW start, NEW end, NEW first, NEW last,
           Span(r, start, end, first, last)
    PROVE  \A n \in Nat : \A c \in Int : On(r, start, end, first, last, n, c, WalkOn[n][r][start][end][c])
<1> DEFINE place == Place(r)
           period == Stride(r)
           Good == {n \in Nat : \A c \in Int :
                       On(r, start, end, first, last, n, c, WalkOn[n][r][start][end][c])}
<1>t. place \in [Int -> Int] /\ period \in Nat /\ period >= 1
      /\ start \in Int /\ first \in Int /\ end \in Int /\ last \in Int
  BY PlaceType, StepFacts DEF Span
<1>1. 0 \in Good
  <2> SUFFICES ASSUME NEW c \in Int PROVE On(r, start, end, first, last, 0, c, WalkOn[0][r][start][end][c])
    OBVIOUS
  <2>1. WalkOn[0][r][start][end][c] = <<>>
    BY <1>t, WalkOnUnfolds DEF NoneOn
  <2>2. 0..(0 - 1) = {} /\ <<>> \in Seq(Int) /\ Len(<<>>) = 0 /\ 1..0 = {}
    OBVIOUS
  <2> QED
    BY <2>1, <2>2 DEF On
<1>2. ASSUME NEW n \in Nat, n \in Good PROVE n + 1 \in Good
  <2> SUFFICES ASSUME NEW c \in Int
               PROVE  On(r, start, end, first, last, n + 1, c, WalkOn[n + 1][r][start][end][c])
    OBVIOUS
  <2> DEFINE next == Shift(c, r, 1)
             s == WalkOn[n + 1][r][start][end][c]
             t == WalkOn[n][r][start][end][next]
             head == IF c >= start THEN <<c>> ELSE <<>>
  <2>1. next \in Int /\ place[next] = place[c] + period
    <3>1. next \in Int /\ place[next] = place[c] + 1 * period
      BY ShiftFacts
    <3> QED
      BY <1>t, <3>1
  <2>2. s = IF c > end THEN <<>> ELSE head \o t
    <3>1. WalkOn[n + 1] = OneOn(WalkOn[n])
      BY WalkOnUnfolds
    <3>2. \A v : OneOn(v)[r][start][end][c] = IF c > end THEN <<>> ELSE head \o v[r][start][end][next]
      BY <1>t DEF OneOn
    <3> QED
      BY <3>1, <3>2
  <2>j. \A j \in Nat : j * period \in Nat /\ (j + 1) * period = j * period + period
    BY <1>t
  <2>3. CASE c > end
    <3>1. s = <<>>
      BY <2>2, <2>3
    <3>2. place[c] > last
      BY <2>3 DEF Span
    <3>3. ASSUME NEW p \in first..last, NEW j \in 0..((n + 1) - 1) PROVE p # place[c] + j * period
      <4>1. j \in Nat /\ j * period >= 0
        BY <2>j
      <4> QED
        BY <1>t, <2>j, <3>2, <4>1
    <3>4. <<>> \in Seq(Int) /\ Len(<<>>) = 0 /\ 1..0 = {}
      OBVIOUS
    <3> QED
      BY <3>1, <3>3, <3>4 DEF On
  <2>4. CASE ~(c > end)
    <3> HIDE DEF t, s
    <3>1. On(r, start, end, first, last, n, next, t)
      BY <1>2, <2>1 DEF t
    <3>2. /\ t \in Seq(Int)
          /\ \A i \in 1..Len(t) : t[i] \in start..end
          /\ \A i \in 1..Len(t) : \E j \in 0..(n - 1) : place[t[i]] = place[next] + j * period
          /\ \A p \in first..last, j \in 0..(n - 1) :
                p = place[next] + j * period => \E i \in 1..Len(t) : place[t[i]] = p
          /\ \A i, j \in 1..Len(t) : i < j => place[t[i]] < place[t[j]]
      BY <3>1 DEF On
    <3>3. ASSUME NEW i \in 1..Len(t)
          PROVE  /\ \E j \in 0..((n + 1) - 1) : place[t[i]] = place[c] + j * period
                 /\ place[c] < place[t[i]]
      <4>1. PICK j \in 0..(n - 1) : place[t[i]] = place[next] + j * period
        BY <3>2
      <4>2. j + 1 \in 0..((n + 1) - 1) /\ j \in Nat
        OBVIOUS
      <4>a. j * period \in Nat /\ (j + 1) * period = j * period + period /\ place[c] \in Int
        BY <1>t, <2>j, <4>2
      <4> HIDE DEF place, period, next
      <4>b. place[t[i]] = (place[c] + period) + j * period
        BY <2>1, <4>1
      <4>3. place[t[i]] = place[c] + (j + 1) * period
        BY <1>t, <4>a, <4>b
      <4>c. \A a, q, x \in Int : q >= 1 /\ x >= 0 => a < (a + q) + x
        OBVIOUS
      <4>d. j * period \in Int /\ j * period >= 0 /\ period \in Int
        BY <1>t, <4>a
      <4>4. place[c] < place[t[i]]
        BY <1>t, <4>a, <4>b, <4>c, <4>d
      <4> QED
        BY <4>2, <4>3, <4>4
    <3>4. ASSUME NEW p \in first..last, NEW j \in 0..((n + 1) - 1), p = place[c] + j * period
          PROVE  (j = 0 /\ p = place[c]) \/ \E i \in 1..Len(t) : place[t[i]] = p
      <4>1. CASE j = 0
        BY <1>t, <3>4, <4>1
      <4>2. CASE j # 0
        <5>1. j - 1 \in 0..(n - 1) /\ j - 1 \in Nat /\ (j - 1) + 1 = j
          BY <4>2
        <5>2. j * period = (j - 1) * period + period
          BY <2>j, <5>1
        <5>3. p = place[next] + (j - 1) * period
          BY <1>t, <2>1, <2>j, <3>4, <5>1, <5>2
        <5> QED
          BY <3>2, <5>1, <5>3
      <4> QED
        BY <4>1, <4>2
    <3>5. CASE c >= start
      <4>1. s = <<c>> \o t
        BY <2>2, <2>4, <3>5
      <4>2. s \in Seq(Int) /\ Len(s) = Len(t) + 1 /\ s[1] = c /\ \A i \in 1..Len(t) : s[i + 1] = t[i]
        BY <3>2, <4>1
      <4>3. \A i \in 1..Len(s) : i = 1 \/ \E k \in 1..Len(t) : i = k + 1
        <5> TAKE i \in 1..Len(s)
        <5>1. Len(t) \in Nat /\ (i # 1 => i - 1 \in 1..Len(t) /\ i = (i - 1) + 1)
          BY <3>2, <4>2
        <5> QED
          BY <5>1
      <4>4. c \in start..end
        BY <1>t, <2>4, <3>5
      <4> HIDE DEF place, period, next, head
      <4>5. ASSUME NEW i \in 1..Len(s) PROVE s[i] \in start..end
        <5>1. CASE i = 1
          BY <4>2, <4>4, <5>1
        <5>2. ASSUME NEW k \in 1..Len(t), i = k + 1 PROVE s[i] \in start..end
          BY <3>2, <4>2, <5>2
        <5> QED
          BY <4>3, <5>1, <5>2
      <4>6. 0 \in 0..((n + 1) - 1) /\ place[c] = place[c] + 0 * period
        BY <1>t
      <4>7. ASSUME NEW i \in 1..Len(s) PROVE \E j \in 0..((n + 1) - 1) : place[s[i]] = place[c] + j * period
        <5>1. CASE i = 1
          BY <4>2, <4>6, <5>1
        <5>2. ASSUME NEW k \in 1..Len(t), i = k + 1
              PROVE  \E j \in 0..((n + 1) - 1) : place[s[i]] = place[c] + j * period
          <6>1. s[i] = t[k]
            BY <4>2, <5>2
          <6> QED
            BY <3>3, <6>1
        <5> QED
          BY <4>3, <5>1, <5>2
      <4>8. 1 \in 1..Len(s) /\ \A i \in 1..Len(t) : i + 1 \in 1..Len(s)
        BY <3>2, <4>2
      <4>9. ASSUME NEW p \in first..last, NEW j \in 0..((n + 1) - 1), p = place[c] + j * period
            PROVE  \E i \in 1..Len(s) : place[s[i]] = p
        <5>1. CASE j = 0 /\ p = place[c]
          BY <4>2, <4>8, <5>1
        <5>2. ASSUME NEW i \in 1..Len(t), place[t[i]] = p PROVE \E k \in 1..Len(s) : place[s[k]] = p
          <6>1. i + 1 \in 1..Len(s) /\ s[i + 1] = t[i]
            BY <4>2, <4>8
          <6> QED
            BY <5>2, <6>1
        <5> QED
          BY <3>4, <4>9, <5>1, <5>2
      <4>10. ASSUME NEW i \in 1..Len(s), NEW j \in 1..Len(s), i < j PROVE place[s[i]] < place[s[j]]
        <5>1. PICK l \in 1..Len(t) : j = l + 1
          BY <4>3, <4>10
        <5>2. s[j] = t[l]
          BY <4>2, <5>1
        <5>3. CASE i = 1
          BY <3>3, <4>2, <5>2, <5>3
        <5>4. CASE i # 1
          <6>1. PICK k \in 1..Len(t) : i = k + 1
            BY <4>3, <5>4
          <6>2. k < l /\ s[i] = t[k]
            BY <3>2, <4>2, <4>10, <5>1, <6>1
          <6> QED
            BY <3>2, <5>2, <6>2
        <5> QED
          BY <5>3, <5>4
      <4> QED
        BY <4>2, <4>5, <4>7, <4>9, <4>10 DEF On, s, place, period
    <3>6. CASE ~(c >= start)
      <4>1. s = t
        BY <2>2, <2>4, <3>2, <3>6
      <4>2. place[c] < first
        BY <1>t, <3>6 DEF Span
      <4>3. ASSUME NEW p \in first..last, NEW j \in 0..((n + 1) - 1), p = place[c] + j * period
            PROVE  \E i \in 1..Len(t) : place[t[i]] = p
        <5>1. place[c] # p
          BY <1>t, <4>2
        <5> QED
          BY <3>4, <4>3, <5>1
      <4>4. On(r, start, end, first, last, n + 1, c, t)
        BY <3>2, <3>3, <4>3 DEF On
      <4> QED
        BY <4>1, <4>4 DEF s
    <3> QED
      BY <3>5, <3>6
  <2> QED
    BY <2>3, <2>4
<1> HIDE DEF Good
<1>3. \A n \in Nat : n \in Good
  BY <1>1, <1>2, NatSetInduction
<1> QED
  BY <1>3 DEF Good

-----------------------------------------------------------------------------
(* What a projection holds.                                                *)

LEMMA DivFacts ==
    \A x \in Int, q \in Nat \ {0} :
        /\ x \div q \in Int /\ q * (x \div q) <= x /\ x < q * (x \div q) + q
        /\ x % q \in 0..(q - 1) /\ x = q * (x \div q) + (x % q)
<1>1. \A x \in Int, q \in Nat \ {0} : x \div q \in Int /\ q * (x \div q) <= x /\ x < q * (x \div q) + q
  OBVIOUS
<1>2. \A x \in Int, q \in Nat \ {0} : x % q \in 0..(q - 1) /\ x = q * (x \div q) + (x % q)
  OBVIOUS
<1> QED
  BY <1>1, <1>2

LEMMA MultipleOf ==
    \A x \in Int, q \in Nat \ {0} : x % q = 0 <=> \E k \in Int : x = k * q
<1> TAKE x \in Int, q \in Nat \ {0}
<1>1. \A k \in Int : x = k * q => x % q = 0
  OBVIOUS
<1>2. x % q = 0 => x = (x \div q) * q
  BY DivFacts
<1> QED
  BY <1>1, <1>2, DivFacts

LEMMA ProductOrder ==
    \A k, l \in Int, q \in Nat \ {0} :
        /\ k * q \in Int
        /\ k * q < l * q => k < l
        /\ k < l => k * q + q <= l * q
<1>1. \A k, l, q \in Int : q > 0 /\ k * q < l * q => k < l
  OBVIOUS
<1>2. \A k, l, q \in Int : q > 0 /\ k < l => k * q + q <= l * q
  OBVIOUS
<1> QED
  BY <1>1, <1>2

Multiples(x, q, a, b) == {p \in a..b : \E k \in Int : p = x + k * q}

LEMMA Enumerated ==
    ASSUME NEW n \in Nat, NEW T, NEW f \in [1..n -> T],
           \A y \in T : \E i \in 1..n : f[i] = y,
           \A i, j \in 1..n : i < j => f[i] # f[j]
    PROVE  IsFiniteSet(T) /\ Cardinality(T) = n
<1>1. f \in Surjection(1..n, T)
  BY DEF Surjection
<1>2. f \in Injection(1..n, T)
  <2>1. \A i, j \in 1..n : i < j \/ j < i \/ i = j
    OBVIOUS
  <2>2. \A i, j \in 1..n : f[i] = f[j] => i = j
    BY <2>1
  <2> QED
    BY <2>2 DEF Injection, IsInjective
<1>3. IsFiniteSet(1..n) /\ Cardinality(1..n) = n
  BY FS_Interval
<1> QED
  BY <1>1, <1>2, <1>3, FS_Surjection

\* The multiples of q, counted from x, between a and b.
LEMMA MultiplesCounted ==
    ASSUME NEW x \in Int, NEW q \in Nat \ {0}, NEW a \in Int, NEW b \in Int, a <= b + 1
    PROVE  IsFiniteSet(Multiples(x, q, a, b))
           /\ Cardinality(Multiples(x, q, a, b)) = ((b - x) \div q) - ((a - 1 - x) \div q)
<1> DEFINE lo == (a - 1 - x) \div q
           hi == (b - x) \div q
           M == Multiples(x, q, a, b)
           f == [i \in 1..(hi - lo) |-> x + (lo + i) * q]
<1>1. lo \in Int /\ q * lo <= a - 1 - x /\ a - 1 - x < q * lo + q
  BY DivFacts
<1>2. hi \in Int /\ q * hi <= b - x /\ b - x < q * hi + q
  BY DivFacts
<1> HIDE DEF lo, hi
<1>a. q * lo = lo * q /\ q * hi = hi * q /\ lo * q \in Int /\ hi * q \in Int
  BY <1>1, <1>2
<1>3. hi - lo \in Nat
  <2>1. lo * q < (hi + 1) * q
    <3>1. (hi + 1) * q = hi * q + q
      BY <1>2
    <3> QED
      BY <1>1, <1>2, <1>a, <3>1
  <2>2. lo < hi + 1
    BY <1>1, <1>2, <2>1, ProductOrder
  <2> QED
    BY <1>1, <1>2, <2>2
<1>4. ASSUME NEW i \in 1..(hi - lo) PROVE f[i] \in M
  <2>1. lo + i \in Int /\ lo < lo + i /\ lo + i <= hi
    BY <1>1, <1>2
  <2>2. lo * q + q <= (lo + i) * q /\ (lo + i) * q \in Int
    BY <1>1, <2>1, ProductOrder
  <2>3. (lo + i) * q <= hi * q
    BY <1>2, <2>1, ProductOrder
  <2>4. x + (lo + i) * q \in a..b
    BY <1>1, <1>2, <1>a, <2>2, <2>3
  <2>5. f[i] = x + (lo + i) * q
    OBVIOUS
  <2> QED
    BY <2>1, <2>4, <2>5 DEF Multiples
<1>5. ASSUME NEW p \in M PROVE \E i \in 1..(hi - lo) : f[i] = p
  <2>1. PICK k \in Int : p = x + k * q
    BY DEF Multiples
  <2>2. p \in a..b /\ k * q \in Int
    BY DEF Multiples
  <2>3. lo * q < k * q
    BY <1>1, <1>a, <2>1, <2>2
  <2>4. (hi + 1) * q = hi * q + q
    BY <1>2
  <2>5. k * q < (hi + 1) * q
    BY <1>2, <1>a, <2>1, <2>2, <2>4
  <2>6. lo < k /\ k < hi + 1
    BY <1>1, <1>2, <2>3, <2>5, ProductOrder
  <2>7. k - lo \in 1..(hi - lo) /\ lo + (k - lo) = k
    BY <1>1, <1>2, <2>6
  <2>8. f[k - lo] = x + (lo + (k - lo)) * q
    BY <2>7
  <2> QED
    BY <2>1, <2>7, <2>8
<1>6. ASSUME NEW i \in 1..(hi - lo), NEW j \in 1..(hi - lo), i < j PROVE f[i] # f[j]
  <2>1. lo + i \in Int /\ lo + j \in Int /\ lo + i < lo + j
    BY <1>1, <1>2, <1>6
  <2>2. (lo + i) * q + q <= (lo + j) * q /\ (lo + i) * q \in Int /\ (lo + j) * q \in Int
    BY <2>1, ProductOrder
  <2>3. f[i] = x + (lo + i) * q /\ f[j] = x + (lo + j) * q
    OBVIOUS
  <2> QED
    BY <2>2, <2>3
<1>7. f \in [1..(hi - lo) -> M]
  BY <1>4
<1> HIDE DEF f, M
<1>8. IsFiniteSet(M) /\ Cardinality(M) = hi - lo
  BY <1>3, <1>5, <1>6, <1>7, Enumerated
<1> QED
  BY <1>8 DEF M, lo, hi

Projected(r, next, start, end) ==
    WalkOn[MaxOccurrences][r][start][end][WalkBack[MaxOccurrences][r][start][next]]

\* In order, each in a place of its own, none out of the range.
Orderly(r, start, end, s) ==
    /\ s \in Seq(Int)
    /\ \A i \in 1..Len(s) : s[i] \in start..end
    /\ \A i, j \in 1..Len(s) : i < j => Place(r)[s[i]] < Place(r)[s[j]]

LEMMA ProjectedOrderly ==
    ASSUME NEW r \in Recurrences, NEW start, NEW end, NEW first, NEW last,
           Span(r, start, end, first, last), NEW next \in Int
    PROVE  Orderly(r, start, end, Projected(r, next, start, end))
<1>1. MaxOccurrences \in Nat
  BY CalendarAssumption
<1>2. WalkBack[MaxOccurrences][r][start][next] \in Int
  BY <1>1, WalkedBack DEF Back
<1>3. On(r, start, end, first, last, MaxOccurrences, WalkBack[MaxOccurrences][r][start][next],
         Projected(r, next, start, end))
  BY <1>1, <1>2, WalkedOn DEF Projected
<1> QED
  BY <1>3 DEF On, Orderly

\* Within reach, the places of a projection are the multiples of the period in the range.
LEMMA ProjectedComplete ==
    ASSUME NEW r \in Recurrences, NEW start, NEW end, NEW first, NEW last,
           Span(r, start, end, first, last), NEW next \in Int,
           first <= last, last - first < MaxOccurrences,
           Place(r)[next] - first <= MaxOccurrences * Stride(r),
           last - Place(r)[next] < MaxOccurrences * Stride(r)
    PROVE  LET s == Projected(r, next, start, end) IN
           \A p \in first..last :
              (\E i \in 1..Len(s) : Place(r)[s[i]] = p) <=> \E k \in Int : p = Place(r)[next] + k * Stride(r)
<1> DEFINE q == Stride(r)
           x == Place(r)[next]
           b == WalkBack[MaxOccurrences][r][start][next]
           y == Place(r)[b]
           s == Projected(r, next, start, end)
<1>1. MaxOccurrences \in Nat /\ q \in Nat \ {0} /\ x \in Int /\ first \in Int /\ last \in Int
  BY CalendarAssumption, StepFacts, PlaceType DEF Span
<1>2. Back(r, first, MaxOccurrences, next, b)
  BY <1>1, WalkedBack
<1>3. PICK k \in 0..MaxOccurrences : /\ y = x - k * q
                                     /\ k = 0 \/ y >= first
                                     /\ k = MaxOccurrences \/ y <= first \/ y - q < first
  BY <1>2 DEF Back
<1>4. b \in Int /\ y \in Int
  BY <1>2, PlaceType DEF Back
<1>5. On(r, start, end, first, last, MaxOccurrences, b, s)
  BY <1>1, <1>4, WalkedOn DEF Projected
<1>6. /\ s \in Seq(Int)
      /\ \A i \in 1..Len(s) : \E j \in 0..(MaxOccurrences - 1) : Place(r)[s[i]] = y + j * q
      /\ \A p \in first..last, j \in 0..(MaxOccurrences - 1) :
            p = y + j * q => \E i \in 1..Len(s) : Place(r)[s[i]] = p
  BY <1>5 DEF On
<1> HIDE DEF q, x, y, b, s
<1>7. \A i, j \in Int : /\ i * q \in Int /\ j * q \in Int
                        /\ (i + j) * q = i * q + j * q /\ (i - j) * q = i * q - j * q
  BY <1>1
<1>8. k \in Int /\ MaxOccurrences \in Int
  BY <1>1
<1>9. y - q < first \/ (k = 0 /\ y <= first)
  <2>1. CASE k = MaxOccurrences
    <3>0. x - first <= MaxOccurrences * q
      BY DEF x, q
    <3>1. y <= first
      BY <1>1, <1>3, <1>4, <1>7, <1>8, <2>1, <3>0
    <3> QED
      BY <1>1, <1>4, <3>1
  <2>2. CASE y <= first
    BY <1>1, <1>4, <2>2
  <2> QED
    BY <1>3, <2>1, <2>2
<1> SUFFICES ASSUME NEW p \in first..last
             PROVE  (\E i \in 1..Len(s) : Place(r)[s[i]] = p) <=> \E l \in Int : p = x + l * q
  BY DEF s, x, q
<1>10. ASSUME NEW i \in 1..Len(s), Place(r)[s[i]] = p PROVE \E l \in Int : p = x + l * q
  <2>1. PICK j \in 0..(MaxOccurrences - 1) : p = y + j * q
    BY <1>6, <1>10
  <2>2. j \in Int /\ j - k \in Int
    BY <1>8
  <2>3. p = x + (j - k) * q
    BY <1>1, <1>3, <1>7, <1>8, <2>1, <2>2
  <2> QED
    BY <2>2, <2>3
<1>11. ASSUME NEW l \in Int, p = x + l * q PROVE \E i \in 1..Len(s) : Place(r)[s[i]] = p
  <2>1. p = y + (l + k) * q /\ l + k \in Int
    BY <1>1, <1>3, <1>7, <1>8, <1>11
  <2>2. (-1) * q = -q /\ (-1) * q < (l + k) * q
    <3>1. (-1) * q = -q
      BY <1>1
    <3>2. p >= first /\ p \in Int
      BY <1>1
    <3>3. y - q < first
      BY <1>1, <1>4, <1>9
    <3> QED
      BY <1>1, <1>4, <1>7, <2>1, <3>1, <3>2, <3>3
  <2>3. l + k >= 0
    BY <1>1, <2>1, <2>2, ProductOrder
  <2>4. (l + k) * q < MaxOccurrences * q
    <3>1. p <= last /\ p \in Int /\ MaxOccurrences * q \in Int /\ (l + k) * q \in Int
      BY <1>1, <1>7, <1>8, <2>1
    <3>2. CASE k = 0
      <4>1. y = x
        BY <1>1, <1>3, <3>2
      <4>2. last - x < MaxOccurrences * q
        BY DEF x, q
      <4> QED
        BY <1>1, <2>1, <3>1, <4>1, <4>2
    <3>3. CASE k # 0
      <4>1. y >= first
        BY <1>3, <3>3
      <4>2. (l + k) * q < MaxOccurrences
        BY <1>1, <1>4, <2>1, <3>1, <4>1
      <4>3. MaxOccurrences <= MaxOccurrences * q
        BY <1>1
      <4> QED
        BY <1>1, <3>1, <4>2, <4>3
    <3> QED
      BY <3>2, <3>3
  <2>5. l + k < MaxOccurrences
    BY <1>1, <2>1, <2>4, ProductOrder
  <2>6. l + k \in 0..(MaxOccurrences - 1)
    BY <1>1, <2>1, <2>3, <2>5
  <2> QED
    BY <1>6, <2>1, <2>6
<1> QED
  BY <1>10, <1>11

\* A projection has as many charges as places, and as many as days.
LEMMA ProjectedCounted ==
    ASSUME NEW r \in Recurrences, NEW start \in Int, NEW end \in Int, NEW s, Orderly(r, start, end, s)
    PROVE  /\ Cardinality({s[i] : i \in DOMAIN s}) = Len(s)
           /\ Cardinality({Place(r)[s[i]] : i \in DOMAIN s}) = Len(s)
<1> DEFINE days == {s[i] : i \in DOMAIN s}
           places == {Place(r)[s[i]] : i \in DOMAIN s}
           f == [i \in 1..Len(s) |-> s[i]]
           g == [i \in 1..Len(s) |-> Place(r)[s[i]]]
<1>1. DOMAIN s = 1..Len(s) /\ Len(s) \in Nat
  BY DEF Orderly
<1>2. \A i \in 1..Len(s) : s[i] \in Int /\ Place(r)[s[i]] \in Int
  <2> TAKE i \in 1..Len(s)
  <2>1. s[i] \in Int
    BY DEF Orderly
  <2> QED
    BY <2>1, PlaceType
<1>3. \A i, j \in 1..Len(s) : i < j => g[i] # g[j] /\ f[i] # f[j]
  BY <1>2 DEF Orderly
<1>4. f \in [1..Len(s) -> days] /\ \A y \in days : \E i \in 1..Len(s) : f[i] = y
  BY <1>1
<1>5. g \in [1..Len(s) -> places] /\ \A y \in places : \E i \in 1..Len(s) : g[i] = y
  BY <1>1
<1>6. Cardinality(days) = Len(s)
  <2> HIDE DEF days, f, g
  <2> QED
    BY <1>1, <1>3, <1>4, Enumerated
<1>7. Cardinality(places) = Len(s)
  <2> HIDE DEF places, f, g
  <2> QED
    BY <1>1, <1>3, <1>5, Enumerated
<1> QED
  BY <1>6, <1>7

-----------------------------------------------------------------------------
(* One month of the calendar.                                              *)

\* A month as a range of places.
FirstPlace(r, m) == IF Daily(r) THEN FirstDay(m) ELSE m
LastPlace(r, m) == IF Daily(r) THEN LastDay(m) ELSE m

LEMMA LastDayFacts ==
    \A m \in Int : /\ LastDay(m) \in Int /\ LastDay(m) = FirstDay(m + 1) - 1
                   /\ FirstDay(m) <= LastDay(m) /\ LastDay(m) - FirstDay(m) <= 30
<1> TAKE m \in Int
<1>1. FirstDay(m) \in Int /\ FirstDay(m + 1) = FirstDay(m) + MonthLength(m) /\ MonthLength(m) \in 28..31
  BY FirstDayType, NextMonth, MonthLengthType
<1> QED
  BY <1>1 DEF LastDay

LEMMA MonthsOfDays ==
    \A c, m \in Int : /\ c < FirstDay(m) <=> MonthOf(c) < m
                      /\ c <= FirstDay(m) => MonthOf(c) <= m
                      /\ c > LastDay(m) <=> MonthOf(c) > m
<1> TAKE c, m \in Int
<1> DEFINE k == MonthOf(c)
<1>1. k \in Int /\ Within(c, k)
  BY MonthOfFacts
<1>2. FirstDay(m) \in Int /\ FirstDay(k) \in Int /\ LastDay(m) \in Int /\ LastDay(k) \in Int
      /\ FirstDay(m) <= LastDay(m)
  BY <1>1, FirstDayType, LastDayFacts
<1>3. (k < m => LastDay(k) < FirstDay(m)) /\ (m < k => LastDay(m) < FirstDay(k))
  BY <1>1, MonthOrder
<1> HIDE DEF k
<1>4. FirstDay(k) <= c /\ c <= LastDay(k)
  BY <1>1 DEF Within
<1>5. k < m \/ m < k \/ k = m
  BY <1>1
<1>6. CASE k < m
  BY <1>1, <1>2, <1>3, <1>4, <1>6 DEF k
<1>7. CASE m < k
  BY <1>1, <1>2, <1>3, <1>4, <1>7 DEF k
<1>8. CASE k = m
  BY <1>1, <1>2, <1>4, <1>8 DEF k
<1> QED
  BY <1>5, <1>6, <1>7, <1>8

LEMMA SpanOfMonth ==
    \A r \in Recurrences, m \in Int :
        /\ Span(r, FirstDay(m), LastDay(m), FirstPlace(r, m), LastPlace(r, m))
        /\ FirstPlace(r, m) <= LastPlace(r, m) /\ LastPlace(r, m) - FirstPlace(r, m) < MaxOccurrences
        /\ FirstPlace(r, m) \in Int /\ LastPlace(r, m) = FirstPlace(r, m + 1) - 1
<1> TAKE r \in Recurrences, m \in Int
<1>1. FirstDay(m) \in Int /\ LastDay(m) \in Int /\ FirstDay(m) <= LastDay(m)
      /\ LastDay(m) - FirstDay(m) <= 30 /\ LastDay(m) = FirstDay(m + 1) - 1
  BY FirstDayType, LastDayFacts
<1>2. MaxOccurrences \in Nat /\ MaxOccurrences >= 31
  BY CalendarAssumption
<1>3. CASE Daily(r)
  <2>1. \A c \in Int : Place(r)[c] = c
    BY <1>3 DEF Place
  <2>2. FirstPlace(r, m) = FirstDay(m) /\ LastPlace(r, m) = LastDay(m) /\ FirstPlace(r, m + 1) = FirstDay(m + 1)
    BY <1>3 DEF FirstPlace, LastPlace
  <2>3. Span(r, FirstDay(m), LastDay(m), FirstDay(m), LastDay(m))
    BY <1>1, <2>1 DEF Span
  <2> QED
    BY <1>1, <1>2, <2>2, <2>3
<1>4. CASE ~Daily(r)
  <2>1. \A c \in Int : Place(r)[c] = MonthOf(c)
    BY <1>4 DEF Place
  <2>2. FirstPlace(r, m) = m /\ LastPlace(r, m) = m /\ FirstPlace(r, m + 1) = m + 1
    BY <1>4 DEF FirstPlace, LastPlace
  <2>3. Span(r, FirstDay(m), LastDay(m), m, m)
    BY <1>1, <2>1, MonthsOfDays DEF Span
  <2> QED
    BY <1>2, <2>2, <2>3
<1> QED
  BY <1>3, <1>4

Reaches(r, next, m) ==
    /\ next - FirstDay(m) <= MaxOccurrences * Period(r)
    /\ LastDay(m) - next < MaxOccurrences * Period(r)

\* What is within reach in days is within reach in periods.
LEMMA ReachOfMonth ==
    \A r \in Recurrences, next, m \in Int :
        Reaches(r, next, m) => /\ Place(r)[next] - FirstPlace(r, m) <= MaxOccurrences * Stride(r)
                               /\ LastPlace(r, m) - Place(r)[next] < MaxOccurrences * Stride(r)
<1> TAKE r \in Recurrences, next, m \in Int
<1> HAVE Reaches(r, next, m)
<1>1. CASE Daily(r)
  <2>1. Period(r) = Stride(r)
    BY <1>1 DEF Period, Stride, Daily, DaysOf
  <2> QED
    BY <1>1, <2>1 DEF Reaches, FirstPlace, LastPlace, Place
<1>2. CASE ~Daily(r)
  <2> DEFINE k == MonthOf(next)
             reach == MaxOccurrences * Stride(r)
  <2>1. k \in Int /\ Within(next, k) /\ reach \in Nat
    <3>1. MaxOccurrences \in Nat /\ Stride(r) \in Nat
      BY CalendarAssumption, StepFacts
    <3>2. reach \in Nat
      BY <3>1
    <3> QED
      BY <3>2, MonthOfFacts
  <2>2. MaxOccurrences * Period(r) = 28 * reach
    <3>1. Period(r) = 28 * MonthsOf[r.unit] * r.interval /\ Stride(r) = MonthsOf[r.unit] * r.interval
      BY <1>2 DEF Period, Stride, Daily, DaysOf
    <3>2. MonthsOf[r.unit] \in {1, 3, 6, 12} /\ r.interval \in Nat
      BY <1>2, RecurrenceFacts DEF Daily, MonthsOf
    <3>3. Period(r) = 28 * Stride(r) /\ Stride(r) \in Nat
      <4>1. \A a \in {1, 3, 6, 12}, b \in Nat : 28 * a * b = 28 * (a * b) /\ a * b \in Nat
        OBVIOUS
      <4> QED
        BY <3>1, <3>2, <4>1
    <3>4. MaxOccurrences \in Nat
      BY CalendarAssumption
    <3> QED
      BY <3>3, <3>4
  <2>3. next - FirstDay(m) <= 28 * reach /\ LastDay(m) - next < 28 * reach
    BY <2>2 DEF Reaches
  <2> HIDE DEF k, reach
  <2>4. FirstDay(k) <= next /\ next <= LastDay(k) /\ FirstDay(k) \in Int /\ LastDay(k) = FirstDay(k + 1) - 1
        /\ FirstDay(k + 1) \in Int /\ FirstDay(m) \in Int /\ FirstDay(m + 1) \in Int
        /\ LastDay(m) = FirstDay(m + 1) - 1
    BY <2>1, FirstDayType, LastDayFacts DEF Within
  <2>5. k - m <= reach
    <3> SUFFICES ASSUME k - m > reach PROVE FALSE
      BY <2>1
    <3>1. k - m \in Nat /\ m + (k - m) = k
      BY <2>1
    <3>2. FirstDay(m) + 28 * (k - m) <= FirstDay(m + (k - m))
      BY <3>1, MonthsApart
    <3>3. FirstDay(m) + 28 * (k - m) <= FirstDay(k)
      BY <3>1, <3>2
    <3> QED
      BY <2>1, <2>3, <2>4, <3>3
  <2>6. m - k < reach
    <3> SUFFICES ASSUME m - k >= reach PROVE FALSE
      BY <2>1
    <3>1. m - k \in Nat /\ (k + 1) + (m - k) = m + 1 /\ k + 1 \in Int
      BY <2>1
    <3>2. FirstDay(k + 1) + 28 * (m - k) <= FirstDay((k + 1) + (m - k))
      BY <3>1, MonthsApart
    <3>3. FirstDay(k + 1) + 28 * (m - k) <= FirstDay(m + 1)
      BY <3>1, <3>2
    <3> QED
      BY <2>1, <2>3, <2>4, <3>3
  <2>7. Place(r)[next] = k /\ FirstPlace(r, m) = m /\ LastPlace(r, m) = m
    BY <1>2 DEF Place, FirstPlace, LastPlace, k
  <2> QED
    BY <2>5, <2>6, <2>7 DEF reach
<1> QED
  BY <1>1, <1>2

Month(r, next, m) == Projected(r, next, FirstDay(m), LastDay(m))

LEMMA MonthOrderly ==
    \A r \in Recurrences, next, m \in Int : Orderly(r, FirstDay(m), LastDay(m), Month(r, next, m))
BY SpanOfMonth, ProjectedOrderly DEF Month

LEMMA MonthComplete ==
    \A r \in Recurrences, next, m \in Int : Reaches(r, next, m) =>
        \A p \in FirstPlace(r, m)..LastPlace(r, m) :
            (\E i \in 1..Len(Month(r, next, m)) : Place(r)[Month(r, next, m)[i]] = p)
               <=> \E k \in Int : p = Place(r)[next] + k * Stride(r)
<1> TAKE r \in Recurrences, next, m \in Int
<1> HAVE Reaches(r, next, m)
<1>1. Place(r)[next] - FirstPlace(r, m) <= MaxOccurrences * Stride(r)
      /\ LastPlace(r, m) - Place(r)[next] < MaxOccurrences * Stride(r)
  BY ReachOfMonth
<1>2. Span(r, FirstDay(m), LastDay(m), FirstPlace(r, m), LastPlace(r, m))
      /\ FirstPlace(r, m) <= LastPlace(r, m) /\ LastPlace(r, m) - FirstPlace(r, m) < MaxOccurrences
  BY SpanOfMonth
<1> QED
  BY <1>1, <1>2, ProjectedComplete DEF Month

\* The places of a month's charges.
LEMMA MonthPlaces ==
    \A r \in Recurrences, next, m \in Int : Reaches(r, next, m) =>
        {Place(r)[Month(r, next, m)[i]] : i \in DOMAIN Month(r, next, m)}
          = Multiples(Place(r)[next], Stride(r), FirstPlace(r, m), LastPlace(r, m))
<1> TAKE r \in Recurrences, next, m \in Int
<1> HAVE Reaches(r, next, m)
<1> DEFINE s == Month(r, next, m)
<1>1. Orderly(r, FirstDay(m), LastDay(m), s)
  BY MonthOrderly
<1>2. DOMAIN s = 1..Len(s)
  BY <1>1 DEF Orderly
<1>3. ASSUME NEW i \in 1..Len(s) PROVE Place(r)[s[i]] \in FirstPlace(r, m)..LastPlace(r, m)
  <2>1. s[i] \in FirstDay(m)..LastDay(m)
    BY <1>1 DEF Orderly
  <2>0. FirstDay(m) \in Int /\ LastDay(m) \in Int
    BY FirstDayType, LastDayFacts
  <2> DEFINE c == s[i]
  <2> HIDE DEF s
  <2>2. c \in Int /\ FirstDay(m) <= c /\ c <= LastDay(m)
    BY <2>0, <2>1
  <2>3. CASE Daily(r)
    BY <2>0, <2>1, <2>2, <2>3 DEF Place, FirstPlace, LastPlace
  <2>4. CASE ~Daily(r)
    <3>0. Within(c, m)
      BY <2>2 DEF Within
    <3> HIDE DEF c
    <3>1. m = MonthOf(c)
      BY <2>2, <3>0, MonthOfFacts
    <3>2. Place(r)[c] = MonthOf(c) /\ FirstPlace(r, m) = m /\ LastPlace(r, m) = m
      BY <2>2, <2>4 DEF Place, FirstPlace, LastPlace
    <3> QED
      BY <2>2, <3>1, <3>2 DEF c
  <2> QED
    BY <2>3, <2>4
<1> HIDE DEF s
<1>4. \A p \in FirstPlace(r, m)..LastPlace(r, m) :
         (\E i \in 1..Len(s) : Place(r)[s[i]] = p) <=> \E k \in Int : p = Place(r)[next] + k * Stride(r)
  BY MonthComplete DEF s
<1>5. {Place(r)[s[i]] : i \in DOMAIN s} = Multiples(Place(r)[next], Stride(r), FirstPlace(r, m), LastPlace(r, m))
  BY SMTT(30), <1>2, <1>3, <1>4 DEF Multiples
<1> QED
  BY <1>5 DEF s

\* The charges before a month, counted from the next one.
Before(r, next, m) == (FirstPlace(r, m) - 1 - Place(r)[next]) \div Stride(r)

LEMMA MonthCounted ==
    \A r \in Recurrences, next, m \in Int : Reaches(r, next, m) =>
        Len(Month(r, next, m)) = Before(r, next, m + 1) - Before(r, next, m)
<1> TAKE r \in Recurrences, next, m \in Int
<1> HAVE Reaches(r, next, m)
<1> DEFINE s == Month(r, next, m)
           x == Place(r)[next]
           q == Stride(r)
           a == FirstPlace(r, m)
           b == LastPlace(r, m)
<1>1. Len(s) = Cardinality({Place(r)[s[i]] : i \in DOMAIN s})
  BY MonthOrderly, ProjectedCounted, FirstDayType, LastDayFacts
<1>2. {Place(r)[s[i]] : i \in DOMAIN s} = Multiples(x, q, a, b)
  BY MonthPlaces
<1>3. x \in Int /\ q \in Nat \ {0} /\ a \in Int /\ b \in Int /\ a <= b + 1
  BY PlaceType, StepFacts, SpanOfMonth
<1>4. Cardinality(Multiples(x, q, a, b)) = ((b - x) \div q) - ((a - 1 - x) \div q)
  <2> HIDE DEF x, q, a, b
  <2> QED
    BY <1>3, MultiplesCounted
<1>5. b = FirstPlace(r, m + 1) - 1
  BY SpanOfMonth
<1> QED
  BY <1>1, <1>2, <1>4, <1>5 DEF Before

-----------------------------------------------------------------------------
(* The schedule.                                                           *)

Schedules == [status : {"ACTIVE", "PAUSED", "CANCELLED"}, started : Dates,
              recurrence : Recurrences, next : Int]

ScheduleTypeOK == subscription = NoRow \/ subscription \in Schedules

LEMMA DerivedNext == \A d \in Dates, r \in Recurrences : DeriveNext(d, r) \in Int
<1> TAKE d \in Dates, r \in Recurrences
<1>1. d \in Int
  BY CalendarAssumption
<1>2. Shift(d, r, 1) \in Int
  BY <1>1, ShiftFacts
<1> QED
  BY <1>1, <1>2 DEF DeriveNext

LEMMA ScheduleKept == ScheduleTypeOK /\ [CalendarNext]_calendarVars => ScheduleTypeOK'
<1> SUFFICES ASSUME ScheduleTypeOK, [CalendarNext]_calendarVars PROVE ScheduleTypeOK'
  OBVIOUS
<1>1. ASSUME NEW d \in Dates, NEW r \in Recurrences, Create(d, r) PROVE ScheduleTypeOK'
  <2>1. PICK next \in Dates \union {DeriveNext(d, r)} :
           subscription' = [status |-> "ACTIVE", started |-> d, recurrence |-> r, next |-> next]
    BY <1>1 DEF Create
  <2>2. next \in Int
    BY <2>1, DerivedNext, CalendarAssumption
  <2> QED
    BY <2>1, <2>2 DEF ScheduleTypeOK, Schedules
<1>2. ASSUME NEW d \in Dates, NEW r \in Recurrences, Reschedule(d, r) PROVE ScheduleTypeOK'
  <2>1. subscription \in Schedules
    BY <1>2 DEF Reschedule, ScheduleTypeOK
  <2>2. PICK next \in Dates \union {DeriveNext(d, r)} :
           subscription' = [subscription EXCEPT !.started = d, !.recurrence = r, !.next = next]
    BY <1>2 DEF Reschedule
  <2>3. next \in Int
    BY <2>2, DerivedNext, CalendarAssumption
  <2> QED
    BY <2>1, <2>2, <2>3 DEF ScheduleTypeOK, Schedules
<1>3. ASSUME NEW d \in Dates, MoveNext(d) PROVE ScheduleTypeOK'
  <2>1. subscription \in Schedules /\ subscription' = [subscription EXCEPT !.next = d] /\ d \in Int
    BY <1>3, CalendarAssumption DEF MoveNext, ScheduleTypeOK
  <2> QED
    BY <2>1 DEF ScheduleTypeOK, Schedules
<1>4. ASSUME NEW st \in {"ACTIVE", "PAUSED", "CANCELLED"}, UpdateStatus(st) PROVE ScheduleTypeOK'
  <2>1. subscription \in Schedules /\ subscription' = [subscription EXCEPT !.status = st]
    BY <1>4 DEF UpdateStatus, ScheduleTypeOK
  <2> QED
    BY <2>1 DEF ScheduleTypeOK, Schedules
<1>5. CASE RemoveSchedule
  BY <1>5 DEF RemoveSchedule, ScheduleTypeOK
<1>6. CASE UNCHANGED calendarVars
  BY <1>6 DEF calendarVars, ScheduleTypeOK
<1> QED
  BY <1>1, <1>2, <1>3, <1>4, <1>5, <1>6 DEF CalendarNext

\* What the calendar shows of an active subscription.
LEMMA ActiveSchedule ==
    ASSUME ScheduleTypeOK, subscription.status = "ACTIVE"
    PROVE  /\ subscription.recurrence \in Recurrences /\ subscription.next \in Int
           /\ \A m \in Int : Shown(m) =
                ProjectOccurrences(subscription.next, subscription.recurrence, FirstDay(m), LastDay(m))
           /\ \A m \in Int : WithinReach(m) => Reaches(subscription.recurrence, subscription.next, m)
<1>1. NoRow.status # "ACTIVE"
  BY DEF NoRow
<1>2. subscription \in Schedules
  BY <1>1 DEF ScheduleTypeOK
<1> QED
  BY <1>2 DEF Schedules, Shown, WithinReach, Reaches

LEMMA RecurringMonth ==
    \A r \in Recurrences, next, m \in Int : r.isRecurring =>
        ProjectOccurrences(next, r, FirstDay(m), LastDay(m)) = Month(r, next, m)
BY DEF ProjectOccurrences, Month, Projected

\* Daily and weekly charges are on their days.
LEMMA DaysShown ==
    ASSUME NEW r \in Recurrences, NEW next \in Int, NEW m \in Int, Reaches(r, next, m), Daily(r)
    PROVE  LET s == Month(r, next, m) IN
           {s[i] : i \in DOMAIN s} = {d \in FirstDay(m)..LastDay(m) : (d - next) % Period(r) = 0}
<1> DEFINE s == Month(r, next, m)
<1>1. {Place(r)[s[i]] : i \in DOMAIN s} = Multiples(Place(r)[next], Stride(r), FirstPlace(r, m), LastPlace(r, m))
  BY MonthPlaces
<1>2. Period(r) = Stride(r) /\ Stride(r) \in Nat \ {0}
  BY StepFacts DEF Period, Stride, Daily, DaysOf
<1>3. \A c \in Int : Place(r)[c] = c
  BY DEF Place
<1>4. FirstPlace(r, m) = FirstDay(m) /\ LastPlace(r, m) = LastDay(m)
  BY DEF FirstPlace, LastPlace
<1>5. Orderly(r, FirstDay(m), LastDay(m), s)
  BY MonthOrderly
<1> HIDE DEF s
<1>6. \A i \in DOMAIN s : s[i] \in Int
  BY <1>5 DEF Orderly
<1>7. {Place(r)[s[i]] : i \in DOMAIN s} = {s[i] : i \in DOMAIN s}
  BY <1>3, <1>6
<1>8. {s[i] : i \in DOMAIN s} = Multiples(next, Stride(r), FirstDay(m), LastDay(m))
  BY <1>1, <1>3, <1>4, <1>7
<1>9. ASSUME NEW d \in FirstDay(m)..LastDay(m)
      PROVE  (d - next) % Period(r) = 0 <=> \E k \in Int : d = next + k * Stride(r)
  <2>1. FirstDay(m) \in Int /\ LastDay(m) \in Int
    BY FirstDayType, LastDayFacts
  <2>2. d \in Int /\ d - next \in Int
    BY <2>1
  <2>3. (d - next) % Stride(r) = 0 <=> \E k \in Int : d - next = k * Stride(r)
    BY <1>2, <2>2, MultipleOf
  <2>4. \A k \in Int : d - next = k * Stride(r) <=> d = next + k * Stride(r)
    <3> TAKE k \in Int
    <3>1. k * Stride(r) \in Int
      BY <1>2
    <3> QED
      BY <2>2, <3>1
  <2> QED
    BY <1>2, <2>3, <2>4
<1> QED
  BY <1>8, <1>9 DEF Multiples, s

\* Charges by the month are on one day of each month they are due.
LEMMA MonthShown ==
    ASSUME NEW r \in Recurrences, NEW next \in Int, NEW m \in Int, Reaches(r, next, m), ~Daily(r)
    PROVE  LET s == Month(r, next, m) IN
           Cardinality({s[i] : i \in DOMAIN s})
             = IF (m - MonthOf(next)) % (MonthsOf[r.unit] * r.interval) = 0 THEN 1 ELSE 0
<1> DEFINE s == Month(r, next, m)
           x == MonthOf(next)
           q == Stride(r)
<1>1. Cardinality({s[i] : i \in DOMAIN s}) = Cardinality({Place(r)[s[i]] : i \in DOMAIN s})
  <2>1. Orderly(r, FirstDay(m), LastDay(m), s) /\ FirstDay(m) \in Int /\ LastDay(m) \in Int
    BY MonthOrderly, FirstDayType, LastDayFacts
  <2> HIDE DEF s
  <2>2. Cardinality({s[i] : i \in DOMAIN s}) = Len(s)
        /\ Cardinality({Place(r)[s[i]] : i \in DOMAIN s}) = Len(s)
    BY <2>1, ProjectedCounted
  <2> QED
    BY <2>2
<1>2. {Place(r)[s[i]] : i \in DOMAIN s} = Multiples(x, q, m, m)
  BY MonthPlaces DEF Place, FirstPlace, LastPlace
<1>3. x \in Int /\ q \in Nat \ {0} /\ q = MonthsOf[r.unit] * r.interval
  BY StepFacts, MonthOfFacts DEF Stride
<1> HIDE DEF x, q
<1>4. (m - x) % q = 0 <=> \E k \in Int : m = x + k * q
  <2>0. m - x \in Int
    BY <1>3
  <2>1. (m - x) % q = 0 <=> \E k \in Int : m - x = k * q
    BY <1>3, <2>0, MultipleOf
  <2>2. \A k \in Int : m - x = k * q <=> m = x + k * q
    <3> TAKE k \in Int
    <3>1. k * q \in Int
      BY <1>3
    <3> QED
      BY <1>3, <3>1
  <2> QED
    BY <2>1, <2>2
<1>5. m..m = {m}
  OBVIOUS
<1>6. CASE (m - x) % q = 0
  <2>1. Multiples(x, q, m, m) = {m}
    BY <1>4, <1>5, <1>6 DEF Multiples
  <2>2. Cardinality({m}) = 1
    BY FS_Singleton
  <2> QED
    BY <1>1, <1>2, <1>3, <1>6, <2>1, <2>2 DEF x, s
<1>7. CASE (m - x) % q # 0
  <2>1. Multiples(x, q, m, m) = {}
    BY <1>4, <1>5, <1>7 DEF Multiples
  <2>2. Cardinality({}) = 0
    BY FS_EmptySet
  <2> QED
    BY <1>1, <1>2, <1>3, <1>7, <2>1, <2>2 DEF x, s
<1> QED
  BY <1>6, <1>7

LEMMA ChargesShown == ScheduleTypeOK => EveryChargeIsShown
<1> SUFFICES ASSUME ScheduleTypeOK, subscription.status = "ACTIVE", NEW m \in Months
             PROVE  LET r == subscription.recurrence
                        charges == Shown(m)
                        days == {charges[i] : i \in DOMAIN charges} IN
                    /\ days \subseteq FirstDay(m)..LastDay(m) /\ Cardinality(days) = Len(charges)
                    /\ ~r.isRecurring => days = IF MonthOf(subscription.next) = m THEN {subscription.next} ELSE {}
                    /\ r.isRecurring /\ WithinReach(m) =>
                          IF r.unit \in DOMAIN DaysOf THEN days = ChargeDays(m)
                          ELSE Cardinality(days) =
                                 IF (m - MonthOf(subscription.next)) % (MonthsOf[r.unit] * r.interval) = 0 THEN 1 ELSE 0
  BY DEF EveryChargeIsShown
<1> DEFINE r == subscription.recurrence
           next == subscription.next
           s == Shown(m)
           days == {s[i] : i \in DOMAIN s}
<1>1. r \in Recurrences /\ next \in Int /\ m \in Int
      /\ s = ProjectOccurrences(next, r, FirstDay(m), LastDay(m))
      /\ (WithinReach(m) => Reaches(r, next, m))
  BY ActiveSchedule, CalendarAssumption
<1>2. FirstDay(m) \in Int /\ LastDay(m) \in Int
  BY <1>1, FirstDayType, LastDayFacts
<1>c. ChargeDays(m) = {d \in FirstDay(m)..LastDay(m) : (d - next) % Period(r) = 0}
  BY DEF ChargeDays
<1> HIDE DEF r, next, s
<1>3. CASE r.isRecurring
  <2>1. s = Month(r, next, m)
    BY <1>1, <1>3, RecurringMonth
  <2>2. Orderly(r, FirstDay(m), LastDay(m), s)
    BY <1>1, <2>1, MonthOrderly
  <2>3. days \subseteq FirstDay(m)..LastDay(m)
    BY <2>2 DEF Orderly
  <2>4. Cardinality(days) = Len(s)
    BY ZenonT(40), <1>1, <1>2, <2>2, ProjectedCounted
  <2>5. r.unit \in DOMAIN DaysOf <=> Daily(r)
    BY DEF DaysOf, Daily
  <2>6. ASSUME WithinReach(m), Daily(r) PROVE days = ChargeDays(m)
    BY <1>1, <1>c, <2>1, <2>6, DaysShown
  <2>7. ASSUME WithinReach(m), ~Daily(r)
        PROVE  Cardinality(days) = IF (m - MonthOf(next)) % (MonthsOf[r.unit] * r.interval) = 0 THEN 1 ELSE 0
    BY <1>1, <2>1, <2>7, MonthShown
  <2> HIDE DEF days
  <2> QED
    BY <1>3, <2>3, <2>4, <2>5, <2>6, <2>7 DEF r, next, s, days
<1>4. CASE ~r.isRecurring
  <2>1. s = IF next >= FirstDay(m) /\ next <= LastDay(m) THEN <<next>> ELSE <<>>
    BY <1>1, <1>4 DEF ProjectOccurrences
  <2>2. MonthOf(next) = m <=> next >= FirstDay(m) /\ next <= LastDay(m)
    BY <1>1, <1>2, MonthOfFacts DEF Within
  <2>3. CASE MonthOf(next) = m
    <3>1. s = <<next>> /\ days = {next} /\ Len(s) = 1
      <4>1. s = <<next>>
        BY <2>1, <2>2, <2>3
      <4> QED
        BY <4>1
    <3>2. next \in FirstDay(m)..LastDay(m)
      BY <1>1, <1>2, <2>2, <2>3
    <3>3. Cardinality({next}) = 1
      BY FS_Singleton
    <3> HIDE DEF days
    <3> QED
      BY <1>4, <2>3, <3>1, <3>2, <3>3 DEF r, next, s, days
  <2>4. CASE MonthOf(next) # m
    <3>1. s = <<>> /\ days = {} /\ Len(s) = 0
      <4>1. s = <<>>
        BY <2>1, <2>2, <2>4
      <4> QED
        BY <4>1
    <3>2. Cardinality({}) = 0
      BY FS_EmptySet
    <3> HIDE DEF days
    <3> QED
      BY <1>4, <2>4, <3>1, <3>2 DEF r, next, s, days
  <2> QED
    BY <2>3, <2>4
<1> QED
  BY <1>3, <1>4

-----------------------------------------------------------------------------
(* The run rate.                                                           *)

\* A sum of differences is the difference of the ends.
LEMMA SumTelescopes ==
    ASSUME NEW n \in Nat, NEW f, NEW g \in [0..n -> Int],
           \A i \in 0..(n - 1) : f[i] = g[i + 1] - g[i]
    PROVE  SumFunctionOnSet(f, 0..(n - 1)) = g[n] - g[0]
<1> DEFINE Good == {k \in Nat : k <= n => SumFunctionOnSet(f, 0..(k - 1)) = g[k] - g[0]}
<1>1. 0 \in Good
  <2>1. 0..(0 - 1) = {} /\ g[0] - g[0] = 0
    OBVIOUS
  <2> QED
    BY <2>1, SumEmpty
<1>2. ASSUME NEW k \in Nat, k \in Good PROVE k + 1 \in Good
  <2> SUFFICES ASSUME k + 1 <= n
               PROVE  SumFunctionOnSet(f, 0..((k + 1) - 1)) = g[k + 1] - g[0]
    OBVIOUS
  <2>1. SumFunctionOnSet(f, 0..(k - 1)) = g[k] - g[0]
    BY <1>2
  <2>2. 0..((k + 1) - 1) = 0..(k - 1) \cup {k} /\ k \notin 0..(k - 1)
    OBVIOUS
  <2>3. IsFiniteSet(0..(k - 1))
    BY FS_Interval
  <2>4. ASSUME NEW i \in 0..(k - 1) \cup {k} PROVE f[i] \in Int
    BY <2>4
  <2>5. SumFunctionOnSet(f, 0..(k - 1) \cup {k}) = SumFunctionOnSet(f, 0..(k - 1)) + f[k]
    BY <2>2, <2>3, <2>4, SumAdd
  <2>6. f[k] = g[k + 1] - g[k] /\ g[k] \in Int /\ g[k + 1] \in Int /\ g[0] \in Int
    OBVIOUS
  <2>7. SumFunctionOnSet(f, 0..((k + 1) - 1)) = SumFunctionOnSet(f, 0..(k - 1)) + f[k]
    BY <2>2, <2>5
  <2>8. \A x, y, z \in Int : (x - y) + (z - x) = z - y
    OBVIOUS
  <2> QED
    BY <2>1, <2>6, <2>7, <2>8
<1> HIDE DEF Good
<1>3. \A k \in Nat : k \in Good
  BY <1>1, <1>2, NatSetInduction
<1> QED
  BY <1>3 DEF Good

\* A year has 365 or 366 days, from whatever month.
LEMMA YearLength == \A m \in Int : FirstDay(m + 12) - FirstDay(m) \in 365..366
<1> TAKE m \in Int
<1> DEFINE y == m \div 12
           d == DaysBefore[(m % 12) + 1]
           leap == (m + 10) \div 48
           then == (m + 22) \div 48
<1>1. y \in Int /\ leap \in Int
  BY YearAndMonth, LeapFacts
<1>2. d \in Int
  BY YearAndMonth, DaysBeforeBounds
<1>3. (m + 12) \div 12 = y + 1
  OBVIOUS
<1>4. (m + 12) % 12 = m % 12
  OBVIOUS
<1>5. then = leap \/ then = leap + 1
  OBVIOUS
<1>6. FirstDay(m) = 365 * y + d + leap
  BY DEF FirstDay
<1>7. FirstDay(m + 12) = 365 * (y + 1) + d + then
  <2>1. FirstDay(m + 12) = 365 * ((m + 12) \div 12) + DaysBefore[((m + 12) % 12) + 1] + ((m + 12) + 10) \div 48
    BY DEF FirstDay
  <2>2. (m + 12) + 10 = m + 22
    OBVIOUS
  <2> QED
    BY <1>3, <1>4, <2>1, <2>2
<1> HIDE DEF y, d, leap, then
<1> QED
  BY <1>1, <1>2, <1>5, <1>6, <1>7

\* The multiples of q between two numbers are as many as the distance holds, give or take one.
LEMMA MultiplesBetween ==
    \A a, b \in Int, q \in Nat \ {0} :
        LET n == (b \div q) - (a \div q)
        IN  n \in Int /\ n * q < (b - a) + q /\ (b - a) - q < n * q
<1> TAKE a, b \in Int, q \in Nat \ {0}
<1> DEFINE u == a \div q
           v == b \div q
<1>1. u \in Int /\ v \in Int /\ q * u <= a /\ a < q * u + q /\ q * v <= b /\ b < q * v + q
  BY DivFacts
<1> HIDE DEF u, v
<1>2. (v - u) * q = q * v - q * u /\ q * v \in Int /\ q * u \in Int
  BY <1>1
<1>3. v - u \in Int /\ (v - u) * q < (b - a) + q /\ (b - a) - q < (v - u) * q
  BY <1>1, <1>2
<1> QED
  BY <1>3 DEF u, v

\* The charges of twelve months, in days or months.
LEMMA YearCounted ==
    ASSUME ScheduleTypeOK, subscription.status = "ACTIVE", subscription.recurrence.isRecurring,
           NEW m \in Int, \A i \in 0..11 : WithinReach(m + i)
    PROVE  LET r == subscription.recurrence
               span == FirstPlace(r, m + 12) - FirstPlace(r, m)
               n == ChargesOver(m, 12)
           IN  n \in Int /\ n * Stride(r) < span + Stride(r) /\ span - Stride(r) < n * Stride(r)
<1> DEFINE r == subscription.recurrence
           next == subscription.next
           f == [i \in 0..(12 - 1) |-> Len(Shown(m + i))]
           g == [i \in 0..12 |-> Before(r, next, m + i)]
           a == FirstPlace(r, m) - 1 - Place(r)[next]
           b == FirstPlace(r, m + 12) - 1 - Place(r)[next]
<1>1. r \in Recurrences /\ next \in Int
  BY ActiveSchedule
<1>2. ASSUME NEW i \in 0..11
      PROVE  Len(Shown(m + i)) = Before(r, next, (m + i) + 1) - Before(r, next, m + i)
  <2>1. m + i \in Int /\ WithinReach(m + i)
    OBVIOUS
  <2>2. Shown(m + i) = ProjectOccurrences(next, r, FirstDay(m + i), LastDay(m + i)) /\ Reaches(r, next, m + i)
    BY <2>1, ActiveSchedule
  <2>3. Shown(m + i) = Month(r, next, m + i)
    BY <1>1, <2>1, <2>2, RecurringMonth
  <2> QED
    BY <1>1, <2>1, <2>2, <2>3, MonthCounted
<1>3. ASSUME NEW i \in 0..12 PROVE Before(r, next, m + i) \in Int
  <2>1. FirstPlace(r, m + i) \in Int /\ Place(r)[next] \in Int /\ Stride(r) \in Nat \ {0}
    BY <1>1, SpanOfMonth, PlaceType, StepFacts
  <2>2. FirstPlace(r, m + i) - 1 - Place(r)[next] \in Int
    BY <2>1
  <2> QED
    BY <2>1, <2>2, DivFacts DEF Before
<1>4. ASSUME NEW i \in 0..(12 - 1) PROVE f[i] = g[i + 1] - g[i]
  <2>1. i \in 0..11 /\ i \in 0..12 /\ i + 1 \in 0..12 /\ m + (i + 1) = (m + i) + 1
    OBVIOUS
  <2>2. f[i] = Len(Shown(m + i)) /\ g[i + 1] = Before(r, next, m + (i + 1)) /\ g[i] = Before(r, next, m + i)
    BY <2>1
  <2> QED
    BY <1>2, <2>1, <2>2
<1>5. g \in [0..12 -> Int]
  BY <1>3
<1>6. SumFunctionOnSet(f, 0..(12 - 1)) = g[12] - g[0]
  <2> HIDE DEF f, g
  <2> SUFFICES ASSUME NEW n \in Nat, n = 12
               PROVE  SumFunctionOnSet(f, 0..(n - 1)) = g[n] - g[0]
    OBVIOUS
  <2>1. \A i \in 0..(n - 1) : f[i] = g[i + 1] - g[i]
    BY <1>4
  <2>2. g \in [0..n -> Int]
    BY <1>5
  <2> QED
    BY <2>1, <2>2, SumTelescopes
<1>7. ChargesOver(m, 12) = SumFunctionOnSet(f, 0..(12 - 1))
  BY DEF ChargesOver
<1>8. g[12] = Before(r, next, m + 12) /\ g[0] = Before(r, next, m)
  BY DEF g
<1> HIDE DEF f, g
<1>9. ChargesOver(m, 12) = (b \div Stride(r)) - (a \div Stride(r))
  BY <1>6, <1>7, <1>8 DEF Before
<1>10. FirstPlace(r, m) \in Int /\ FirstPlace(r, m + 12) \in Int /\ Place(r)[next] \in Int /\ Stride(r) \in Nat \ {0}
  BY <1>1, SpanOfMonth, PlaceType, StepFacts
<1>11. a \in Int /\ b \in Int /\ b - a = FirstPlace(r, m + 12) - FirstPlace(r, m)
  BY <1>10
<1> HIDE DEF a, b, r
<1>12. LET n == (b \div Stride(r)) - (a \div Stride(r))
       IN  n \in Int /\ n * Stride(r) < (b - a) + Stride(r) /\ (b - a) - Stride(r) < n * Stride(r)
  BY <1>10, <1>11, MultiplesBetween
<1> QED
  BY <1>9, <1>11, <1>12 DEF r

LEMMA RunRateMatches == ScheduleTypeOK => RunRateMatchesCalendar
<1> SUFFICES ASSUME ScheduleTypeOK, subscription.status = "ACTIVE", subscription.recurrence.isRecurring,
                    NEW m \in Months, \A i \in 0..11 : WithinReach(m + i)
             PROVE  LET months == MonthsPerOccurrence(subscription.recurrence)
                        excess == ChargesOver(m, 12) * months[1] - 12 * months[2] IN
                    excess <= months[1] /\ -excess <= months[1]
  BY DEF RunRateMatchesCalendar
<1> DEFINE r == subscription.recurrence
           k == r.interval
           n == ChargesOver(m, 12)
           q == Stride(r)
           span == FirstPlace(r, m + 12) - FirstPlace(r, m)
<1>1. r \in Recurrences /\ m \in Int
  BY ActiveSchedule, CalendarAssumption
<1>2. n \in Int /\ n * q < span + q /\ span - q < n * q
  BY <1>1, YearCounted
<1>3. k \in Nat \ {0} /\ r.unit \in {"DAY", "WEEK", "MONTH", "QUARTER", "SEMESTER", "YEAR"}
  BY <1>1, RecurrenceFacts
<1>4. Daily(r) => span \in 365..366
  BY <1>1, YearLength DEF FirstPlace
<1>5. ~Daily(r) => span = 12
  BY <1>1 DEF FirstPlace
<1>6. n * k \in Int
  BY <1>2, <1>3
<1> HIDE DEF n, span
<1>7. CASE r.unit = "DAY"
  <2>1. q = k /\ Daily(r)
    BY <1>3, <1>7 DEF Stride, Daily, DaysOf
  <2>2. MonthsPerOccurrence(r) = <<10000 * k, 304375>>
    BY <1>7 DEF MonthsPerOccurrence
  <2>3. n * (10000 * k) = 10000 * (n * k)
    BY <1>2, <1>3
  <2>4. n * k < span + k /\ span - k < n * k /\ span \in 365..366
    BY <1>2, <1>4, <2>1
  <2> HIDE DEF k, r
  <2>5. 10000 * (n * k) - 12 * 304375 <= 10000 * k /\ -(10000 * (n * k) - 12 * 304375) <= 10000 * k
    BY <1>3, <1>6, <2>4
  <2> QED
    BY <2>2, <2>3, <2>5 DEF r, n
<1>8. CASE r.unit = "WEEK"
  <2>1. q = 7 * k /\ Daily(r)
    BY <1>3, <1>8 DEF Stride, Daily, DaysOf
  <2>2. MonthsPerOccurrence(r) = <<1000000 * k, 4348214>>
    BY <1>8 DEF MonthsPerOccurrence
  <2>3. n * (1000000 * k) = 1000000 * (n * k) /\ n * (7 * k) = 7 * (n * k)
    BY <1>2, <1>3
  <2>4. 7 * (n * k) < span + 7 * k /\ span - 7 * k < 7 * (n * k) /\ span \in 365..366
    BY <1>2, <1>4, <2>1, <2>3
  <2> HIDE DEF k, r
  <2>5. 1000000 * (n * k) - 12 * 4348214 <= 1000000 * k /\ -(1000000 * (n * k) - 12 * 4348214) <= 1000000 * k
    BY <1>3, <1>6, <2>4
  <2> QED
    BY <2>2, <2>3, <2>5 DEF r, n
<1>9. CASE r.unit \notin {"DAY", "WEEK"}
  <2>1. q = MonthsOf[r.unit] * r.interval /\ ~Daily(r)
    BY <1>9 DEF Stride, Daily
  <2>2. MonthsPerOccurrence(r) = <<MonthsOf[r.unit] * r.interval, 1>>
    BY <1>9 DEF MonthsPerOccurrence
  <2>3. MonthsPerOccurrence(r)[1] = q /\ MonthsPerOccurrence(r)[2] = 1
    BY <2>1, <2>2
  <2>4. q \in Nat /\ span = 12
    BY <1>1, <1>5, <2>1, StepFacts
  <2> HIDE DEF q, r
  <2>5. n * q \in Int
    BY <1>2, <2>4
  <2>6. n * q - 12 * 1 <= q /\ -(n * q - 12 * 1) <= q
    BY <1>2, <2>4, <2>5
  <2> QED
    BY <2>3, <2>6 DEF r, n
<1> QED
  BY <1>3, <1>7, <1>8, <1>9

\* A month of the cash-flow calendar shows every charge that falls into it and no other, and
\* twelve months of it come to twelve monthly amounts, to within one charge.
THEOREM ChargesAppear == CalendarSpec => []ChargesAreShown
<1>1. CalendarInit => ScheduleTypeOK
  BY DEF CalendarInit, ScheduleTypeOK
<1>2. ScheduleTypeOK => ChargesAreShown
  BY ChargesShown, RunRateMatches DEF ChargesAreShown
<1> QED
  BY <1>1, <1>2, ScheduleKept, PTL DEF CalendarSpec
=============================================================================
