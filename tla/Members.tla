------------------------------- MODULE Members -------------------------------
(***************************************************************************)
(* InvitationsService and OrganizationUsersService: how the members of one *)
(* organization come, change and go, while invitations expire, are         *)
(* withdrawn and are accepted.  No row is locked between a check and the   *)
(* write it allows; the unique (userId, organizationId) and the            *)
(* transaction around an acceptance are all there is.  An organization has  *)
(* an owner from the start, or, created at the console, nobody at all.      *)
(***************************************************************************)
EXTENDS Integers, FiniteSets, TLC

CONSTANTS Clients,      \* requests under way
          Users,
          Invites,      \* invitations that can be sent
          MaxUsers,     \* Plan.metadata.maxUsers
          NoMember      \* no row in organization_users

ASSUME MembersAssumption ==
    /\ IsFiniteSet(Users) /\ IsFiniteSet(Invites)
    /\ IsFiniteSet(Clients) /\ Clients # {}
    /\ MaxUsers \in Nat \ {0} /\ NoMember \notin Users \union {"OWNER", "ADMINISTRATOR", "CUSTOM"}

Role == {"OWNER", "ADMINISTRATOR", "CUSTOM"}

InvitationStatus == {"PENDING", "ACCEPTED", "EXPIRED"}

VARIABLES founder,  \* who made it by createForUser; NoMember if it was made at the console
          role,     \* organization_users: user -> name of the role, or NoMember
          invite,   \* invitations: status, addressee, role, past expiresAt or not
          req       \* progress of each client

vars == <<founder, role, invite, req>>
-----------------------------------------------------------------------------
getRoleRank(r) == CASE r = "OWNER" -> 3 [] r = "ADMINISTRATOR" -> 2 [] r = "CUSTOM" -> 1

Member(u) == role[u] # NoMember

Owners == {u \in Users : role[u] = "OWNER"}

OnFile(i) == invite[i].status \in InvitationStatus

Pending == {i \in Invites : invite[i].status = "PENDING"}

canAssignRole(new, owners, current) == new = "OWNER" => current = "OWNER" \/ owners = 0

Begin(c, job) == req' = [req EXCEPT ![c] = job] /\ UNCHANGED <<founder, role, invite>>

Done(c) == req' = [req EXCEPT ![c] = [pc |-> "idle"]] /\ UNCHANGED founder

Fail(c) == Done(c) /\ UNCHANGED <<role, invite>>

Idle(c) == req[c].pc = "idle"

\* createForUser makes an organization with its OWNER, create one without members.
Init ==
    /\ founder \in Users \union {NoMember}
    /\ role = [u \in Users |-> IF u = founder THEN "OWNER" ELSE NoMember]
    /\ invite = [i \in Invites |-> [status |-> "NONE", for |-> NoMember, role |-> "CUSTOM", late |-> FALSE]]
    /\ req = [c \in Clients |-> [pc |-> "idle"]]

-----------------------------------------------------------------------------
\* assertUserLimitNotExceeded: two counts, under way at the same time; the one that comes
\* second decides.
Seats(kind) == IF kind = "members" THEN Cardinality({u \in Users : Member(u)}) ELSE Cardinality(Pending)

Counting(c, op, u, r) ==
    Begin(c, [pc |-> "counting", op |-> op, for |-> u, role |-> r,
              todo |-> {"members", "pending"}, seats |-> 0])

CountFirst(c, kind) ==
    /\ req[c].pc = "counting" /\ req[c].todo = {"members", "pending"}
    /\ Begin(c, [req[c] EXCEPT !.todo = @ \ {kind}, !.seats = Seats(kind)])

CountSecond(c, kind) ==
    /\ req[c].pc = "counting" /\ req[c].todo = {kind}
    /\ IF req[c].seats + Seats(kind) < MaxUsers
       THEN Begin(c, [pc |-> "seated", op |-> req[c].op, for |-> req[c].for, role |-> req[c].role])
       ELSE Fail(c)

\* createInvitation, by whoever the guards let through; never for the role OWNER.
StartInvite(c, u, r) == Idle(c) /\ r # "OWNER" /\ Counting(c, "invite", u, r)

\* One pending invitation to an address, as far as a look before the INSERT can tell.
FindPending(c) ==
    /\ req[c].pc = "seated" /\ req[c].op = "invite"
    /\ IF \E i \in Pending : invite[i].for = req[c].for THEN Fail(c)
       ELSE Begin(c, [req[c] EXCEPT !.pc = "inviting"])

Insert(c, i) ==
    /\ req[c].pc = "inviting" /\ invite[i].status = "NONE"
    /\ invite' = [invite EXCEPT ![i] = [status |-> "PENDING", for |-> req[c].for,
                                        role |-> req[c].role, late |-> FALSE]]
    /\ Done(c) /\ UNCHANGED role

\* OrganizationUsersService.create.
StartAdd(c, u, r) == Idle(c) /\ ~Member(u) /\ Counting(c, "add", u, r)

CheckAdd(c) ==
    /\ req[c].pc = "seated" /\ req[c].op = "add"
    /\ IF canAssignRole(req[c].role, Cardinality(Owners), NoMember)
       THEN Begin(c, [req[c] EXCEPT !.pc = "adding"]) ELSE Fail(c)

AddMember(c) ==
    /\ req[c].pc = "adding"
    /\ IF Member(req[c].for) THEN Fail(c)
       ELSE /\ role' = [role EXCEPT ![req[c].for] = req[c].role]
            /\ Done(c) /\ UNCHANGED invite

-----------------------------------------------------------------------------
\* verifyToken, and acceptInvitation on its way out: a late invitation is marked, by id,
\* whatever it has become since it was read.
StartVerify(c, i) ==
    /\ Idle(c) /\ invite[i].status = "PENDING" /\ invite[i].late
    /\ Begin(c, [pc |-> "marking", invite |-> i])

MarkExpired(c) ==
    /\ req[c].pc = "marking"
    /\ IF OnFile(req[c].invite)
       THEN /\ invite' = [invite EXCEPT ![req[c].invite].status = "EXPIRED"]
            /\ Done(c) /\ UNCHANGED role
       ELSE Fail(c)

\* acceptInvitation by its addressee, and acceptInvitationInTransaction for a new user.
StartAccept(c, i) ==
    /\ Idle(c) /\ invite[i].status = "PENDING" /\ ~invite[i].late /\ ~Member(invite[i].for)
    /\ Begin(c, [pc |-> "accepting", invite |-> i, for |-> invite[i].for, role |-> invite[i].role])

\* Mutant: the invitation is marked with updateMany, which does not mind that it is gone.
CommitAcceptGone(c) ==
    /\ req[c].pc = "accepting" /\ ~Member(req[c].for)
    /\ role' = [role EXCEPT ![req[c].for] = req[c].role]
    /\ invite' = IF OnFile(req[c].invite) THEN [invite EXCEPT ![req[c].invite].status = "ACCEPTED"]
                 ELSE invite
    /\ Done(c)

\* One transaction: the membership, which must be new, and the invitation, which must
\* still be on file, with whatever status.
CommitAccept(c) ==
    /\ req[c].pc = "accepting"
    /\ IF ~Member(req[c].for) /\ OnFile(req[c].invite)
       THEN /\ role' = [role EXCEPT ![req[c].for] = req[c].role]
            /\ invite' = [invite EXCEPT ![req[c].invite].status = "ACCEPTED"]
            /\ Done(c)
       ELSE Fail(c)

\* deleteInvitation and deleteInvitationGlobal: read as PENDING, deleted by id.
StartWithdraw(c, i) ==
    /\ Idle(c) /\ invite[i].status = "PENDING"
    /\ Begin(c, [pc |-> "withdrawing", invite |-> i])

Withdraw(c) ==
    /\ req[c].pc = "withdrawing"
    /\ IF OnFile(req[c].invite)
       THEN /\ invite' = [invite EXCEPT ![req[c].invite].status = "DELETED"]
            /\ Done(c) /\ UNCHANGED role
       ELSE Fail(c)

\* findAll and findAllGlobal sweep what is late before they list.
Sweep ==
    /\ \E i \in Pending : invite[i].late
    /\ invite' = [i \in Invites |-> IF i \in Pending /\ invite[i].late
                                    THEN [invite[i] EXCEPT !.status = "EXPIRED"] ELSE invite[i]]
    /\ UNCHANGED <<founder, role, req>>

\* The clock passes expiresAt.
Tick(i) ==
    /\ OnFile(i) /\ ~invite[i].late
    /\ invite' = [invite EXCEPT ![i].late = TRUE]
    /\ UNCHANGED <<founder, role, req>>

-----------------------------------------------------------------------------
\* Mutant: the protection of the OWNER is left out.
StartChangeOwner(c, actor, u, new) ==
    /\ Idle(c) /\ Member(u)
    /\ Begin(c, [pc |-> "ranking", actor |-> actor, for |-> u, was |-> role[u], role |-> new])

\* update and remove read the member first, and refuse an OWNER ...
StartChange(c, actor, u, new) ==
    /\ Idle(c) /\ Member(u) /\ role[u] # "OWNER"
    /\ Begin(c, [pc |-> "ranking", actor |-> actor, for |-> u, was |-> role[u], role |-> new])

\* ... then the actor, whom no membership means to be a global administrator; NoMember
\* as the new role stands for remove.
CheckRank(c) ==
    /\ req[c].pc = "ranking"
    /\ LET j == req[c] IN
       IF /\ Member(j.actor) =>
               /\ getRoleRank(role[j.actor]) > getRoleRank(j.was)
               /\ j.role # NoMember => getRoleRank(role[j.actor]) > getRoleRank(j.role)
          /\ canAssignRole(j.role, Cardinality(Owners), j.was)
       THEN Begin(c, [pc |-> "changing", for |-> j.for, role |-> j.role]) ELSE Fail(c)

\* The UPDATE or DELETE of the row, which throws when the member is gone; that they have
\* become the OWNER since they were read, it does not notice.
CommitChange(c) ==
    /\ req[c].pc = "changing"
    /\ IF Member(req[c].for)
       THEN /\ role' = [role EXCEPT ![req[c].for] = req[c].role]
            /\ Done(c) /\ UNCHANGED invite
       ELSE Fail(c)

Abort(c) == ~Idle(c) /\ Fail(c)

-----------------------------------------------------------------------------
Invitation(c) ==
    \/ \E u \in Users, r \in Role : StartInvite(c, u, r)
    \/ FindPending(c)
    \/ \E i \in Invites : \/ Insert(c, i) \/ StartVerify(c, i)
                          \/ StartAccept(c, i) \/ StartWithdraw(c, i)
    \/ MarkExpired(c) \/ CommitAccept(c) \/ Withdraw(c)

Membership(c) ==
    \/ \E u \in Users, r \in Role : StartAdd(c, u, r)
    \/ \E actor, u \in Users, new \in Role \union {NoMember} : StartChange(c, actor, u, new)
    \/ CheckAdd(c) \/ AddMember(c) \/ CheckRank(c) \/ CommitChange(c)

Next ==
    \/ \E c \in Clients : \/ \E kind \in {"members", "pending"} : CountFirst(c, kind) \/ CountSecond(c, kind)
                          \/ Invitation(c) \/ Membership(c) \/ Abort(c)
    \/ Sweep \/ \E i \in Invites : Tick(i)

Spec == Init /\ [][Next]_vars

Symmetry == Permutations(Clients) \union Permutations(Users) \union Permutations(Invites)
-----------------------------------------------------------------------------
Job ==
    [pc : {"idle"}]
      \union [pc : {"counting"}, op : {"invite", "add"}, for : Users, role : Role,
              todo : SUBSET {"members", "pending"}, seats : Nat]
      \union [pc : {"seated", "inviting", "adding"}, op : {"invite", "add"}, for : Users, role : Role]
      \union [pc : {"marking", "withdrawing"}, invite : Invites]
      \union [pc : {"accepting"}, invite : Invites, for : Users, role : Role]
      \union [pc : {"ranking"}, actor : Users, for : Users, was : Role, role : Role \union {NoMember}]
      \union [pc : {"changing"}, for : Users, role : Role \union {NoMember}]

\* Every row and every request has the shape the code gives it.
TypeOK ==
    /\ founder \in Users \union {NoMember}
    /\ role \in [Users -> Role \union {NoMember}]
    /\ invite \in [Invites -> [status : InvitationStatus \union {"NONE", "DELETED"},
                               for : Users \union {NoMember}, role : Role, late : BOOLEAN]]
    /\ req \in [Clients -> Job]

\* Requests that have counted no owner and are about to write one.
Claims == {c \in Clients : req[c].pc \in {"adding", "changing"} /\ req[c].role = "OWNER"}

\* An organization that came with an OWNER keeps that one and no other, whatever
\* invitations, additions, changes of role and removals overlap.  One that came without
\* gets no more than one for every request that overlapped: each has counted the owners
\* before any of them wrote, and from the first write on nobody new is let through.
OneOwner ==
    /\ founder \in Users => Owners = {founder}
    /\ Cardinality(Owners) + Cardinality(Claims) <= Cardinality(Clients)

JoinsBy(u, i) ==
    /\ OnFile(i) /\ invite[i].for = u /\ invite'[i].status = "ACCEPTED"
    /\ role'[u] = invite[i].role

\* Nobody comes in but by an administrator's hand or an invitation to them that is on file
\* at that moment, is marked ACCEPTED in the same step and names the role they get; one
\* that has been withdrawn lets nobody in.
JoinedByInvitation ==
    [][\A u \in Users : role[u] = NoMember /\ role'[u] # NoMember =>
         \/ \E c \in Clients : AddMember(c) /\ req[c].for = u
         \/ \E i \in Invites : JoinsBy(u, i)]_vars

\* assertUserLimitNotExceeded: members and pending invitations, "both counted so two
\* concurrent invites can't both slip in under the limit".
SeatsWithinLimit == Cardinality({u \in Users : Member(u)}) + Cardinality(Pending) <= MaxUsers
=============================================================================
