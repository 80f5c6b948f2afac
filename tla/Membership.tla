----------------------------- MODULE Membership -----------------------------
(***************************************************************************)
(* The team of one company: membership.service.go, membership_users.       *)
(* service.go and membership.repository.go over the table                  *)
(* user_account_sso.  A handler reads a row, checks, and writes the whole  *)
(* copy back (Save) or deletes by id; these are separate steps.  What the  *)
(* handlers do to the Redis caches is in module Access.                    *)
(*                                                                         *)
(* A row that is not activated is a pending invitation: it has an invite   *)
(* token and an invitation date, and loses the token when it is accepted,  *)
(* so neither column is kept.  Names, phones and dates are left out.       *)
(***************************************************************************)
EXTENDS Integers, FiniteSets

CONSTANTS
    MaxRows,        \* bound on rows ever inserted
    People,         \* SSO users; a person's e-mail address is the person
    Creator,        \* who created the company
    Handlers,       \* requests that may be in flight together
    UserLimit,      \* Free-plan users, domain_activation.LimitsFor
    OwnerPinned,    \* MembershipConfig.OwnerRoleID is set
    NoOne           \* user_id = ''

ASSUME MembershipAssumption ==
    /\ MaxRows \in Nat \ {0}
    /\ UserLimit \in Nat \ {0}
    /\ IsFiniteSet(Handlers) /\ Handlers # {}
    /\ Creator \in People
    /\ NoOne \notin People
    /\ OwnerPinned \in BOOLEAN

VARIABLES
    members,        \* the table, by row id; ids are handed out in order
    requests,       \* what each handler has read and is about to do
    everOwner,      \* history: rows that held the owner role at some time
    unguarded       \* history: an owner was made or let go without knowing the role

vars == <<members, requests, everOwner, unguarded>>

Rows == 1..MaxRows

\* Staff stands for every other role, and for none.
Roles == {"owner", "staff"}

UserAccountSSO ==
    [state: {"free", "live", "deleted"}, user: People \cup {NoOne},
     email: People \cup {NoOne}, role: Roles, activated: BOOLEAN,
     banned: BOOLEAN]

FreeRow == [state |-> "free", user |-> NoOne, email |-> NoOne,
            role |-> "staff", activated |-> FALSE, banned |-> FALSE]

Idle == [step |-> "idle"]

\* A handler that works on a loaded row: the role it read, and the copy as it
\* will save it.
OnRow == [step: {"loaded", "guarded"}, row: Rows, was: Roles,
          op: {"role", "ban", "remove", "save"}, next: UserAccountSSO]

\* A handler that is about to upsert a new membership.
OnNew == [step: {"checked"}, new: UserAccountSSO]

TypeOK ==
    /\ members \in [Rows -> UserAccountSSO]
    /\ requests \in [Handlers -> {Idle} \cup OnRow \cup OnNew]
    /\ everOwner \subseteq Rows
    /\ unguarded \in BOOLEAN

-----------------------------------------------------------------------------
(* Reading the table *)

Live == {r \in Rows : members[r].state = "live"}

\* The two unique indexes of live rows, on (company, user) and (company, email).
indexesAllow(r, m) ==
    \A q \in Live \ {r} : /\ m.user = NoOne \/ members[q].user # m.user
                          /\ members[q].email # m.email

\* A fault: pending invitations count as owners.
FaultyCountActiveByRole(role) ==
    Cardinality({r \in Live : members[r].role = role})

CountActiveByRole(role) ==
    Cardinality({r \in Live : members[r].role = role /\ members[r].activated})

CountConsumedInviteSlots == Cardinality({r \in Live : members[r].role # "owner"})

\* The middleware has let the actor through: a usable membership.
MayAct(a) ==
    \E r \in Live : members[r].user = a /\ members[r].activated /\ ~members[r].banned

isSelf(a, m) == m.email = a \/ m.user = a

\* Passes when the owner role is not known, or the row is not losing it.
guardLastOwner(known, current, next) ==
    \/ ~known
    \/ current # "owner"
    \/ next = "owner"
    \/ CountActiveByRole("owner") > 1

\* A role list answered by the SSO names the owner role; without one the pin does.
ownerRoleKnown(listed) == listed \/ OwnerPinned

-----------------------------------------------------------------------------
(* Writing the table *)

noteOwner == everOwner' = everOwner \cup {r \in Rows : members'[r].role = "owner"}

Done(h) == requests' = [requests EXCEPT ![h] = Idle]

\* GORM's Save: an UPDATE of the live row, and when it matches none an INSERT
\* ... ON CONFLICT UPDATE of all columns, which brings a deleted row back.
Save(r, m) ==
    /\ indexesAllow(r, m)
    /\ members' = [members EXCEPT ![r] = [m EXCEPT !.state = "live"]]

\* A deleted row keeps its key; nothing reads its other columns again.
softDeleted(m) == [m EXCEPT !.state = "deleted", !.role = "staff", !.banned = FALSE]

SoftDeleteByID(r) ==
    members' = [members EXCEPT ![r] = IF @.state = "live" THEN softDeleted(@) ELSE @]

\* A fault: accepted rows match by e-mail too.
FaultyKeyOfAnyUser(m) ==
    {r \in Live : members[r].email = m.email \/ (m.user # NoOne /\ members[r].user = m.user)}

\* A fault: the lookup does not skip deleted rows.
FaultyKeyUnscoped(m) ==
    IF m.user # NoOne
    THEN {r \in Rows : members[r].state # "free" /\ members[r].user = m.user}
    ELSE {r \in Rows : members[r].state # "free" /\ members[r].email = m.email
                       /\ members[r].user = NoOne}

\* The live rows that Upsert takes for the same membership.
sameKey(m) ==
    IF m.user # NoOne
    THEN {r \in Live : members[r].user = m.user}
    ELSE {r \in Live : members[r].email = m.email /\ members[r].user = NoOne}

\* Insert, or patch the first row with the key and delete the others.
Upsert(m) ==
    LET key == sameKey(m)
        free == {r \in Rows : members[r].state = "free"}
        first(S) == CHOOSE r \in S : \A q \in S : r <= q
    IN IF key = {}
       THEN /\ free # {}
            /\ indexesAllow(first(free), m)
            /\ members' = [members EXCEPT ![first(free)] = m]
       ELSE /\ indexesAllow(first(key), m)
            /\ members' = [r \in Rows |->
                 IF r = first(key) THEN m
                 ELSE IF r \in key THEN softDeleted(members[r])
                 ELSE members[r]]

-----------------------------------------------------------------------------
(* Invitations and grants *)

\* A fault: off by one at the limit.
FaultySeatFor(email) ==
    /\ \A r \in Live : members[r].email # email
    /\ CountConsumedInviteSlots <= UserLimit

\* Nobody of that e-mail is in or invited, and the quota has room.
seatFor(email) ==
    /\ \A r \in Live : members[r].email # email
    /\ CountConsumedInviteSlots < UserLimit

Pending(email, role, banned) ==
    [state |-> "live", user |-> NoOne, email |-> email, role |-> role,
     activated |-> FALSE, banned |-> banned]

\* Invite: never as an owner.
Invite(h, a, email) ==
    /\ requests[h] = Idle
    /\ MayAct(a) /\ email # a
    /\ seatFor(email)
    /\ requests' = [requests EXCEPT ![h] =
         [step |-> "checked", new |-> Pending(email, "staff", FALSE)]]
    /\ UNCHANGED <<members, everOwner, unguarded>>

\* InviteMulti: any role, and possibly deactivated from the start.
InviteMulti(h, a, email, role, active) ==
    /\ requests[h] = Idle
    /\ MayAct(a) /\ email # a
    /\ seatFor(email)
    /\ requests' = [requests EXCEPT ![h] =
         [step |-> "checked", new |-> Pending(email, role, ~active)]]
    /\ UNCHANGED <<members, everOwner, unguarded>>

\* SyncAssignments, change "add": a person of another company is given access
\* to this one; a known user is activated straight away.
GrantAccess(h, a, email, user, role, banned) ==
    /\ requests[h] = Idle
    /\ MayAct(a) /\ email # a /\ user # a
    /\ seatFor(email)
    /\ requests' = [requests EXCEPT ![h] =
         [step |-> "checked",
          new |-> [Pending(email, role, banned) EXCEPT
                     !.user = user, !.activated = user # NoOne]]]
    /\ UNCHANGED <<members, everOwner, unguarded>>

\* The write of any of the three.
AddMember(h) ==
    /\ requests[h].step = "checked"
    /\ Upsert(requests[h].new)
    /\ noteOwner
    /\ Done(h)
    /\ UNCHANGED unguarded

-----------------------------------------------------------------------------
(* Handlers that load a row and write it back *)

\* loadMember or FindInviteByToken; next is the copy as the handler will save it.
\* Only op "save" comes without a check of the last owner.
Load(h, r, op, next) ==
    /\ requests[h] = Idle
    /\ r \in Live
    /\ requests' = [requests EXCEPT ![h] =
         [step |-> IF op = "save" THEN "guarded" ELSE "loaded", row |-> r,
          was |-> members[r].role, op |-> op, next |-> next]]
    /\ UNCHANGED <<members, everOwner, unguarded>>

\* UpdateMemberRole, and SyncAssignments with change "role" (not on oneself).
UpdateMemberRole(h, a, r, role) ==
    /\ MayAct(a)
    /\ Load(h, r, "role", [members[r] EXCEPT !.role = role])

RemoveMember(h, a, r) ==
    /\ MayAct(a)
    /\ Load(h, r, "remove", members[r])

\* SyncAssignments, change "remove".
SyncRemove(h, a, r) ==
    /\ MayAct(a)
    /\ ~isSelf(a, members[r])
    /\ Load(h, r, "remove", members[r])

SetMemberActive(h, a, r, active) ==
    /\ MayAct(a)
    /\ ~isSelf(a, members[r])
    /\ Load(h, r, IF active THEN "save" ELSE "ban",
            [members[r] EXCEPT !.banned = ~active])

ResendInvite(h, a, r) ==
    /\ MayAct(a)
    /\ ~members[r].activated
    /\ Load(h, r, "save", members[r])

UpdateMemberProfile(h, a, r) ==
    /\ MayAct(a)
    /\ Load(h, r, "save", members[r])

\* Whoever follows the link of the invitation becomes the member.
AcceptInvite(h, p, r) ==
    /\ ~members[r].activated
    /\ members[r].user = NoOne
    /\ Load(h, r, "save", [members[r] EXCEPT !.user = p, !.activated = TRUE])

\* The check of the last owner, by the operations that make it.  A role change
\* has a role list; a removal asks again and may go without.
GuardRow(h, listed) ==
    LET q == requests[h]
        known == ownerRoleKnown(listed)
    IN /\ q.step = "loaded"
       /\ IF q.op = "role"
          THEN listed /\ guardLastOwner(known, q.was, q.next.role)
          ELSE guardLastOwner(known, q.was, "")
       /\ requests' = [requests EXCEPT ![h].step = "guarded"]
       /\ unguarded' = (unguarded \/ (~known /\ q.was = "owner"))
       /\ UNCHANGED <<members, everOwner>>

WriteRow(h) ==
    LET q == requests[h]
    IN /\ q.step = "guarded"
       /\ IF q.op = "remove"
          THEN SoftDeleteByID(q.row)
          ELSE Save(q.row, q.next)
       /\ noteOwner
       /\ Done(h)
       /\ UNCHANGED unguarded

\* Refused, failed or crashed: nothing is written.
Abort(h) ==
    /\ requests[h] # Idle
    /\ Done(h)
    /\ UNCHANGED <<members, everOwner, unguarded>>

-----------------------------------------------------------------------------
\* LinkCompanyCreator has made the creator the first member: an owner if the role
\* could be resolved, otherwise with no role at all.
Init ==
    \E listed \in BOOLEAN :
        /\ unguarded = ~ownerRoleKnown(listed)
        /\ members = [r \in Rows |->
             IF r = 1 THEN [state |-> "live", user |-> Creator, email |-> Creator,
                            role |-> IF unguarded THEN "staff" ELSE "owner",
                            activated |-> TRUE, banned |-> FALSE]
             ELSE FreeRow]
        /\ requests = [h \in Handlers |-> Idle]
        /\ everOwner = IF unguarded THEN {} ELSE {1}

Start(h) ==
    \/ \E a, e \in People : Invite(h, a, e)
    \/ \E a, e \in People, role \in Roles, active \in BOOLEAN :
          InviteMulti(h, a, e, role, active)
    \/ \E a, e \in People, u \in People \cup {NoOne}, role \in Roles,
          banned \in BOOLEAN : GrantAccess(h, a, e, u, role, banned)
    \/ \E a \in People, r \in Rows, role \in Roles : UpdateMemberRole(h, a, r, role)
    \/ \E a \in People, r \in Rows : RemoveMember(h, a, r)
    \/ \E a \in People, r \in Rows : SyncRemove(h, a, r)
    \/ \E a \in People, r \in Rows, b \in BOOLEAN : SetMemberActive(h, a, r, b)
    \/ \E a \in People, r \in Rows : ResendInvite(h, a, r)
    \/ \E a \in People, r \in Rows : UpdateMemberProfile(h, a, r)
    \/ \E p \in People, r \in Rows : AcceptInvite(h, p, r)

Next ==
    \E h \in Handlers :
        \/ Start(h)
        \/ AddMember(h)
        \/ \E listed \in BOOLEAN : GuardRow(h, listed)
        \/ WriteRow(h)
        \/ Abort(h)

Spec == Init /\ [][Next]_vars

-----------------------------------------------------------------------------
(* What the environment may do in the runs that must pass *)

\* Takes the owner role from somebody.
takesOwnership(q) ==
    /\ q.step \in {"loaded", "guarded"}
    /\ q.was = "owner"
    /\ q.op = "remove" \/ q.next.role # "owner"

\* No two handlers on one row, and no two that take the owner role, at once.
RowsApart ==
    \A h, k \in Handlers :
        (h # k /\ {requests[h].step, requests[k].step} \subseteq {"loaded", "guarded"})
        => /\ requests[h].row # requests[k].row
           /\ ~(takesOwnership(requests[h]) /\ takesOwnership(requests[k]))

\* Whom a handler is about.
target(q) == IF q.step = "checked" THEN q.new.email
             ELSE IF q.step = "idle" THEN NoOne ELSE q.next.email

\* A grant to a known user is alone on its person; invitations may race.
GrantsAlone ==
    \A h, k \in Handlers :
        (h # k /\ requests[h].step = "checked" /\ requests[h].new.user # NoOne)
        => target(requests[k]) # target(requests[h])

\* Invitations are accepted by the person they were addressed to.
OwnAddress ==
    /\ \A r \in Rows : members[r].user \in {NoOne, members[r].email}
    /\ \A h \in Handlers : requests[h].step = "checked" =>
          requests[h].new.user \in {NoOne, requests[h].new.email}

Apart == RowsApart /\ GrantsAlone /\ OwnAddress

SpecApart == Init /\ [][Next /\ Apart']_vars

-----------------------------------------------------------------------------
(* Properties *)

\* guardLastOwner keeps a company from losing its owners: through invitations,
\* grants, role changes and removals there is a live, accepted owner row, unless the
\* owner role could not be told when the creator was linked or when an owner was
\* removed or deactivated: then nothing is counted.
OwnerRemains == CountActiveByRole("owner") > 0 \/ unguarded

\* An accepted membership never turns back into an invitation, and its person
\* does not change: later invitations and grants must find another row.
AcceptedStands ==
    [][\A r \in Live : members[r].activated =>
          members'[r].activated /\ members'[r].user = members[r].user]_vars

\* A removed membership stays removed: who is to come back needs a new row.
RemovedStaysOut ==
    [][\A r \in Rows : members[r].state = "deleted" =>
          members'[r].state = "deleted"]_vars

\* Invitations and grants, those about to be written included, pass the user limit
\* at most by those that race.  Rows that were owners once are not counted: a
\* demotion takes a seat that nobody checks.
SeatsOvershoot ==
    Cardinality({r \in Live \ everOwner : members[r].role # "owner"})
    + Cardinality({h \in Handlers : /\ requests[h].step = "checked"
                                     /\ requests[h].new.role # "owner"})
        <= UserLimit + Cardinality(Handlers) - 1

=============================================================================
