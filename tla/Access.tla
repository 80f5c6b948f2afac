------------------------------- MODULE Access -------------------------------
(***************************************************************************)
(* How a request that passed the token middleware is let into a company:   *)
(* company.go and MembershipService.ResolveAccess, with their two Redis    *)
(* caches (the access for one minute, the permissions of a role for ten),  *)
(* against the handlers of membership and role.service that change what    *)
(* was cached, most of which then delete the keys.                         *)
(*                                                                         *)
(* Redis is best effort: a read that fails is a miss, a write or delete    *)
(* that fails is forgotten.  The SSO may fail to answer.  A membership is  *)
(* written as a whole, by row id, from a copy that was read earlier.       *)
(***************************************************************************)
EXTENDS CachedAccess, Naturals, FiniteSets

CONSTANTS
    Roles,
    CustomRoles,    \* roles of the company; the others are built in
    Fallback,       \* RBACMigrationFallback, for a token with permissions
    MaxChanges,     \* bound on handlers that change the membership
    MaxEdits,       \* bound on edits of a role
    Gone,           \* a role the SSO no longer has
    TokenPerms      \* the permissions in the user's token

ASSUME AccessAssumption ==
    /\ CustomRoles \subseteq Roles
    /\ Roles # {} /\ NoRole \notin Roles
    /\ Fallback \in BOOLEAN
    /\ MaxChanges \in Nat /\ MaxEdits \in Nat
    /\ Miss # Gone /\ Miss # TokenPerms
    /\ Miss \notin Nat /\ Gone \notin Nat /\ TokenPerms \notin Nat

VARIABLES
    catalog,        \* SSO: version of the permissions of each role, or Gone
    rbac,           \* the cache of the permissions of roles
    changes         \* handlers that set out to change the membership so far

vars == <<row, catalog, access, rbac, clients, admins, changes, excused>>

Versions == 0..MaxEdits
Perms == Versions \cup {TokenPerms}
RoleIDs == Roles \cup {NoRole}

\* memberStatus.  What becomes of a deactivated invitation is left open.
Membership == [id: 0..MaxChanges, status: {"none", "pending", "active", "blocked"},
               role: RoleIDs]

NoMembership == [id |-> 0, status |-> "none", role |-> NoRole]

\* AccessResolution.  perms is meaningful when there is access.
Entry == [status: {"none", "active", "blocked"}, role: RoleIDs, perms: Perms]

\* What a handler does to the row: Upsert of a new one, Save with or without a
\* delete of the caches afterwards, the acceptance of an invitation, a removal.
Ops == {"add", "save", "quiet", "accept", "remove"}

TypeOK ==
    /\ row \in Membership
    /\ catalog \in [Roles -> Versions \cup {Gone}]
    /\ access \in {Miss} \cup Entry
    /\ rbac \in [Roles -> Versions \cup {Miss}]
    /\ clients \in [Clients ->
         [at: {"done"}, reply: {"none", "403", "503", "ok"}]
         \cup [at: {"read"}, row: Membership]
         \cup [at: {"fetched"}, row: Membership, perms: Versions]
         \cup [at: {"priced"}, row: Membership, perms: Perms]]
    /\ admins \in [Admins ->
         [at: {"idle"}] \cup [at: {"deleting"}, role: Roles]
         \cup [at: {"loaded"}, op: Ops, was: Membership, next: Membership]
         \cup [at: {"written"}, user: BOOLEAN, roles: SUBSET RoleIDs]]
    /\ changes \in 0..MaxChanges
    /\ excused \in BOOLEAN

-----------------------------------------------------------------------------
(* What ResolveAccess makes of a membership *)

\* applySSOFallback leaves the role empty.
entryOf(m, v) ==
    [status |-> visible(m), role |-> IF v = TokenPerms THEN NoRole ELSE m.role,
     perms |-> v]

looksLike(m, n) == visible(m) = visible(n) /\ (visible(m) # "none" => m.role = n.role)

\* A request that read the membership before a change and has not stored it yet.
staleReaders ==
    {c \in Clients : /\ clients[c].at \in {"read", "fetched", "priced"}
                     /\ ~looksLike(clients[c].row, row)}

Reply(reply) == [at |-> "done", reply |-> reply]

go(c, s) == clients' = [clients EXCEPT ![c] = s]

-----------------------------------------------------------------------------
(* LoadLocalPermissions, ResolveAccess, RequireCompanyMembership *)

decide(status) == IF status = "active" THEN Reply("ok") ELSE Reply("403")

AccessHit(c) ==
    /\ clients[c].at = "done"
    /\ access # Miss
    /\ go(c, decide(access.status))
    /\ UNCHANGED <<row, catalog, access, rbac, admins, changes, excused>>

\* FindByUserAndCompany, on a miss or when Redis cannot be read.
AccessRead(c) ==
    /\ clients[c].at = "done"
    /\ go(c, [at |-> "read", row |-> row])
    /\ UNCHANGED <<row, catalog, access, rbac, admins, changes, excused>>

\* No membership: that is cached as well.
AccessNone(c) ==
    /\ clients[c].at = "read"
    /\ visible(clients[c].row) = "none"
    /\ access' \in {access, entryOf(clients[c].row, 0)}
    /\ go(c, Reply("403"))
    /\ UNCHANGED <<row, catalog, rbac, admins, changes, excused>>

\* resolveRolePermissions: from the cache ...
RoleHit(c) ==
    LET m == clients[c].row
    IN /\ clients[c].at = "read"
       /\ visible(m) # "none" /\ m.role # NoRole
       /\ rbac[m.role] # Miss
       /\ go(c, [at |-> "priced", row |-> m, perms |-> rbac[m.role]])
       /\ UNCHANGED <<row, catalog, access, rbac, admins, changes, excused>>

\* ... or from the SSO ...
RoleFetched(c) ==
    LET m == clients[c].row
    IN /\ clients[c].at = "read"
       /\ visible(m) # "none" /\ m.role # NoRole
       /\ catalog[m.role] # Gone
       /\ go(c, [at |-> "fetched", row |-> m, perms |-> catalog[m.role]])
       /\ UNCHANGED <<row, catalog, access, rbac, admins, changes, excused>>

\* ... which may fail, twice if only for the moment.  The membership may also have
\* no role.  With the fallback the token's permissions are taken, and cached like
\* any others ...
RoleFallback(c) ==
    LET m == clients[c].row
    IN /\ clients[c].at = "read"
       /\ visible(m) # "none"
       /\ Fallback
       /\ go(c, [at |-> "priced", row |-> m, perms |-> TokenPerms])
       /\ UNCHANGED <<row, catalog, access, rbac, admins, changes, excused>>

\* ... and without it, or when the lookup failed and the token has none, that is a
\* 503, and never cached.
RoleUnresolved(c) ==
    LET m == clients[c].row
    IN /\ clients[c].at = "read"
       /\ visible(m) # "none"
       /\ ~Fallback \/ m.role # NoRole
       /\ go(c, Reply("503"))
       /\ UNCHANGED <<row, catalog, access, rbac, admins, changes, excused>>

RoleStored(c) ==
    LET q == clients[c]
    IN /\ q.at = "fetched"
       /\ rbac' \in {rbac, [rbac EXCEPT ![q.row.role] = q.perms]}
       /\ go(c, [q EXCEPT !.at = "priced"])
       /\ UNCHANGED <<row, catalog, access, admins, changes, excused>>

AccessStored(c) ==
    LET q == clients[c]
    IN /\ q.at = "priced"
       /\ access' \in {access, entryOf(q.row, q.perms)}
       /\ go(c, decide(visible(q.row)))
       /\ UNCHANGED <<row, catalog, rbac, admins, changes, excused>>

-----------------------------------------------------------------------------
(* Changes of the membership, and what they invalidate *)

\* user_id is set on accepted rows only.
known(m) == m.status \in {"active", "blocked"}

Load(a, op, next) ==
    /\ admins[a].at = "idle"
    /\ changes < MaxChanges
    /\ admins' = [admins EXCEPT ![a] =
         [at |-> "loaded", op |-> op, was |-> row, next |-> next]]
    /\ changes' = changes + 1
    /\ UNCHANGED <<row, catalog, access, rbac, clients, excused>>

\* Invite, InviteMulti, SyncAssignments "add": there is no row of this person.
AddMember(a, status, role) ==
    /\ row.status = "none"
    /\ Load(a, "add", [id |-> changes + 1, status |-> status, role |-> role])

\* UpdateMemberRole, SyncAssignments "role".
UpdateMemberRole(a, role) ==
    /\ row.status # "none"
    /\ Load(a, "save", [row EXCEPT !.role = role])

\* On an invitation it shows once it is accepted.
SetMemberActive(a, status) ==
    /\ row.status # "none"
    /\ Load(a, "save", IF known(row) THEN [row EXCEPT !.status = status] ELSE row)

\* UpdateMemberProfile, and ResendInvite of an invitation.
UpdateMemberProfile(a) ==
    /\ row.status # "none"
    /\ Load(a, "quiet", row)

AcceptInvite(a, status) ==
    /\ row.status = "pending"
    /\ Load(a, "accept", [row EXCEPT !.status = status])

\* RemoveMember, SyncAssignments "remove".
RemoveMember(a) ==
    /\ row.status # "none"
    /\ Load(a, "remove", row)

\* Upsert inserts, or patches the row with the same user, or the same address when
\* neither has a user; Save updates the row, or brings it back if it was removed
\* meanwhile; the unique indexes refuse any other.
writable(q) ==
    \/ row.status = "none"
    \/ IF q.op = "add" THEN known(q.next) = known(row) ELSE row.id = q.next.id

\* The row after the write.
written(q) ==
    IF q.op = "remove" THEN IF row.id = q.was.id THEN NoMembership ELSE row
    ELSE IF q.op = "add" /\ row.status # "none" THEN [q.next EXCEPT !.id = row.id]
    ELSE q.next

\* purgeUserAccess after a grant or an acceptance, invalidateMemberCaches after the
\* others but the quiet ones: the access if the copy has a user, and its roles.
deletesUser(q) == q.op # "quiet" /\ known(q.next)
deletesRoles(q) == IF q.op \in {"save", "remove"} THEN {q.was.role, q.next.role} ELSE {}

\* The entry has no one to delete it when a row that was changed since it was read
\* is overwritten without a delete.
WriteMember(a) ==
    LET q == admins[a]
        keys == [at |-> "written", user |-> deletesUser(q), roles |-> deletesRoles(q)]
    IN /\ q.at = "loaded"
       /\ q.op = "remove" \/ writable(q)
       /\ row' = written(q)
       /\ admins' = [admins EXCEPT ![a] =
            IF keys.user \/ keys.roles # {} THEN keys ELSE [at |-> "idle"]]
       /\ excused' = (excused \/ (row # q.was /\ ~looksLike(row, row') /\ ~keys.user))
       /\ UNCHANGED <<catalog, access, rbac, clients, changes>>

-----------------------------------------------------------------------------
(* Changes of a role *)

\* RoleService.Update of a custom role.
UpdateRole(a, r) ==
    /\ admins[a].at = "idle"
    /\ r \in CustomRoles
    /\ catalog[r] \in Versions \ {MaxEdits}
    /\ catalog' = [catalog EXCEPT ![r] = @ + 1]
    /\ admins' = [admins EXCEPT ![a] = [at |-> "written", user |-> FALSE, roles |-> {r}]]
    /\ UNCHANGED <<row, access, rbac, clients, changes, excused>>

\* RoleService.Delete: no activated member holds it (a blocked one is activated) ...
DeleteRoleCheck(a, r) ==
    /\ admins[a].at = "idle"
    /\ r \in CustomRoles
    /\ catalog[r] # Gone
    /\ ~(known(row) /\ row.role = r)
    /\ admins' = [admins EXCEPT ![a] = [at |-> "deleting", role |-> r]]
    /\ UNCHANGED <<row, catalog, access, rbac, clients, changes, excused>>

\* ... and then the SSO deletes it.
DeleteRole(a) ==
    /\ admins[a].at = "deleting"
    /\ catalog' = [catalog EXCEPT ![admins[a].role] = Gone]
    /\ admins' = [admins EXCEPT ![a] =
         [at |-> "written", user |-> FALSE, roles |-> {admins[a].role}]]
    /\ UNCHANGED <<row, access, rbac, clients, changes, excused>>

-----------------------------------------------------------------------------
(* Deletes and expiry *)

\* A fault: the access entry of the member is forgotten.
FaultyInvalidate(a) ==
    LET q == admins[a]
    IN /\ q.at = "written"
       /\ rbac' = [r \in Roles |-> IF r \in q.roles THEN Miss ELSE rbac[r]]
       /\ excused' = (excused \/ staleReaders # {})
       /\ admins' = [admins EXCEPT ![a] = [at |-> "idle"]]
       /\ UNCHANGED <<row, catalog, access, clients, changes>>

\* The deletes of invalidateMemberCaches, purgeUserAccess or InvalidateRoleCache,
\* or none at all.
Invalidate(a) ==
    LET q == admins[a]
    IN /\ q.at = "written"
       /\ access' = IF q.user THEN Miss ELSE access
       /\ rbac' = [r \in Roles |-> IF r \in q.roles THEN Miss ELSE rbac[r]]
       /\ excused' = (staleReaders # {} \/ (~q.user /\ excused))
       /\ admins' = [admins EXCEPT ![a] = [at |-> "idle"]]
       /\ UNCHANGED <<row, catalog, clients, changes>>

\* Redis is down, or the process stops after its write.
LoseInvalidation(a) ==
    /\ admins[a].at = "written"
    /\ admins' = [admins EXCEPT ![a] = [at |-> "idle"]]
    /\ excused' = (excused \/ admins[a].user)
    /\ UNCHANGED <<row, catalog, access, rbac, clients, changes>>

\* Refused, or failed before the write.
GiveUp(a) ==
    /\ admins[a].at \in {"loaded", "deleting"}
    /\ admins' = [admins EXCEPT ![a] = [at |-> "idle"]]
    /\ UNCHANGED <<row, catalog, access, rbac, clients, changes, excused>>

\* A fault: an entry stored without a time to live.
FaultyExpireAccess == FALSE /\ UNCHANGED vars

ExpireAccess ==
    /\ access # Miss
    /\ access' = Miss
    /\ excused' = (staleReaders # {})
    /\ UNCHANGED <<row, catalog, rbac, clients, admins, changes>>

ExpireRole(r) ==
    /\ rbac[r] # Miss
    /\ rbac' = [rbac EXCEPT ![r] = Miss]
    /\ UNCHANGED <<row, catalog, access, clients, admins, changes, excused>>

-----------------------------------------------------------------------------
\* An accepted member, or a creator whose owner role could not be resolved.
Init ==
    /\ row \in [id: {0}, status: {"active"}, role: RoleIDs]
    /\ catalog = [r \in Roles |-> 0]
    /\ access = Miss
    /\ rbac = [r \in Roles |-> Miss]
    /\ clients = [c \in Clients |-> Reply("none")]
    /\ admins = [a \in Admins |-> [at |-> "idle"]]
    /\ changes = 0
    /\ excused = FALSE

\* A request that is under way goes on.
Proceed(c) ==
    \/ AccessNone(c)
    \/ RoleHit(c)
    \/ RoleFetched(c)
    \/ RoleFallback(c)
    \/ RoleUnresolved(c)
    \/ RoleStored(c)
    \/ AccessStored(c)

LoadMember(a) ==
    \/ \E s \in {"pending", "active", "blocked"}, r \in Roles : AddMember(a, s, r)
    \/ \E r \in Roles : UpdateMemberRole(a, r)
    \/ \E s \in {"active", "blocked"} : SetMemberActive(a, s) \/ AcceptInvite(a, s)
    \/ UpdateMemberProfile(a)
    \/ RemoveMember(a)

Finish(a) == Invalidate(a) \/ LoseInvalidation(a)

Next ==
    \/ \E c \in Clients : AccessHit(c) \/ AccessRead(c) \/ Proceed(c)
    \/ \E a \in Admins :
          \/ LoadMember(a)
          \/ WriteMember(a)
          \/ \E r \in Roles : UpdateRole(a, r) \/ DeleteRoleCheck(a, r)
          \/ DeleteRole(a)
          \/ Finish(a)
          \/ GiveUp(a)
    \/ ExpireAccess
    \/ \E r \in Roles : ExpireRole(r)

\* Handlers that have begun end, and Redis drops what has reached its age.
Fairness ==
    /\ \A c \in Clients : WF_vars(Proceed(c))
    /\ \A a \in Admins : WF_vars(Finish(a))
    /\ WF_vars(ExpireAccess)
    /\ \A r \in Roles : WF_vars(ExpireRole(r))

Spec == Init /\ [][Next]_vars /\ Fairness

-----------------------------------------------------------------------------
(* Properties *)

\* Whatever races or deletes were lost: once the membership no longer changes, the
\* cached access comes to agree with it and stays so.
AccessSettles == <>[](access = Miss \/ matches(access, row))

\* An edit of a role does not drop the access entries that carry its permissions;
\* they follow all the same once edits end, also through a stale permission cache,
\* unless the lookup failed and they carry the token's: the fallback may do so again
\* and again.
PermissionsSettle ==
    <>[](access = Miss \/ access.status = "none"
         \/ (IF access.perms = TokenPerms THEN Fallback
             ELSE access.perms = catalog[access.role]))
=============================================================================
