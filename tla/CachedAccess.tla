---------------------------- MODULE CachedAccess ----------------------------
(***************************************************************************)
(* A user's membership in a company and the entry in the access cache that *)
(* stands for it.  Access says how requests and handlers read and change   *)
(* them.                                                                   *)
(***************************************************************************)
CONSTANTS
    Clients,        \* requests of the user in flight
    Admins,         \* handlers that change the membership or a role
    Miss,           \* no entry in a cache
    NoRole          \* role_id is empty

VARIABLES
    row,            \* the user's live membership, if any
    access,         \* the cached entry
    clients, admins,\* handlers in flight
    excused         \* history: the access entry may be stale

\* What FindByUserAndCompany sees of a membership: an invitation that has not
\* been accepted has no user yet.
visible(m) == IF m.status = "pending" THEN "none" ELSE m.status

\* An entry with the permissions of the token names no role.
matches(e, m) ==
    /\ e.status = visible(m)
    /\ e.status # "none" => e.role \in {m.role, NoRole}

-----------------------------------------------------------------------------
\* A cached access differs from the membership only while a change that deletes it
\* has not done so yet, or when a reader from before the change stored its copy
\* after the deletes, or the deletes were lost, or a handler that does not delete
\* the entry (a profile edit, an invitation sent again, a change of a row that had
\* no user when it was read) wrote back what another one had changed meanwhile.
StaleOnlyAfterARace ==
    \/ access = Miss
    \/ matches(access, row)
    \/ excused
    \/ \E a \in Admins : admins[a].at = "written" /\ admins[a].user
=============================================================================
