-------------------------- MODULE MembershipProofs --------------------------
(* Proofs about Membership, Access and Session, for any number of rows,     *)
(* people, handlers and requests.                                          *)
EXTENDS Membership, CachedAccess, SignedIn, FiniteSetTheorems, WellFoundedInduction, TLAPS

-----------------------------------------------------------------------------
(* The inductive invariant of SpecApart. *)

\* Is the handler holding a row that it has loaded?
Holding(q) == q.step \in {"loaded", "guarded"}

\* A row has a user if and only if its invitation was accepted, and a row that
\* has the owner role is remembered.
RowsSound == \A r \in Rows :
    /\ members[r].activated <=> members[r].user # NoOne
    /\ members[r].role = "owner" => r \in everOwner

\* The unique index on (company, email).
EmailsUnique == \A r, q \in Live : members[r].email = members[q].email => r = q

\* A grant to a known user finds nobody of that e-mail in the company.
NewSound == \A h \in Handlers : requests[h].step = "checked" =>
    LET m == requests[h].new IN
    /\ m.state = "live"
    /\ m.activated <=> m.user # NoOne
    /\ m.user # NoOne => \A r \in Live : members[r].email # m.email

\* A row that a handler has loaded is still there.  What others may have done
\* to it meanwhile is to repeat the invitation, which leaves accepted rows alone.
HeldRows == \A h \in Handlers : Holding(requests[h]) =>
    LET q == requests[h]
        m == members[q.row]
    IN  /\ m.state = "live"
        /\ m.email = q.next.email
        /\ q.next.activated <=> q.next.user # NoOne
        /\ m.activated => q.next.activated /\ q.next.user = m.user /\ m.role = q.was
        /\ q.op # "role" => q.next.role = q.was

IInv == TypeOK /\ Apart /\ RowsSound /\ EmailsUnique /\ NewSound /\ HeldRows

\* The rows that CountActiveByRole counts for the owner role.
ActiveOwners == {r \in Live : members[r].role = "owner" /\ members[r].activated}

\* Whoever was let to take the owner role from a row leaves another owner, or
\* did not know the role.
OwnerSpared == \A h \in Handlers :
    requests[h].step = "guarded" /\ takesOwnership(requests[h]) =>
        unguarded \/ \E r \in ActiveOwners : r # requests[h].row

-----------------------------------------------------------------------------
(* Type correctness. *)

\* Every set of rows has a first one.
LEMMA FirstRow ==
    ASSUME NEW S, S \subseteq Rows, S # {}
    PROVE  (CHOOSE r \in S : \A q \in S : r <= q) \in S
<1>1. S \subseteq Nat
  BY MembershipAssumption DEF Rows
<1> DEFINE R == {p \in Nat \X Nat : p[1] < p[2]}
<1>2. IsWellFoundedOn(R, Nat)
  BY NatLessThanWellFounded DEF OpToRel
<1>3. \A q, r \in Nat : q < r => <<q, r>> \in R
  OBVIOUS
<1> HIDE DEF R
<1>4. PICK r \in S : \A q \in S : <<q, r>> \notin R
  BY <1>1, <1>2, WFMin
<1>5. ASSUME NEW q \in S PROVE r <= q
  <2>1. q \in Nat /\ r \in Nat /\ ~(q < r)
    BY <1>1, <1>3, <1>4
  <2> QED
    BY <2>1
<1> QED
  BY <1>5

\* A handler that carries q has a well typed new row, or copy of a row.
LEMMA RequestType ==
    ASSUME TypeOK, NEW h \in Handlers
    PROVE  LET q == requests[h] IN
           /\ q = Idle \/ q \in OnRow \/ q \in OnNew
           /\ q.step \in {"idle", "loaded", "guarded", "checked"}
           /\ q.step = "idle" => q = Idle
           /\ q.step = "checked" => q \in OnNew /\ q.new \in UserAccountSSO
           /\ Holding(q) => /\ q \in OnRow /\ q.row \in Rows /\ q.was \in Roles
                            /\ q.op \in {"role", "ban", "remove", "save"}
                            /\ q.next \in UserAccountSSO
<1>1. requests[h] = Idle \/ requests[h] \in OnRow \/ requests[h] \in OnNew
  BY DEF TypeOK
<1>2. CASE requests[h] = Idle
  BY <1>2 DEF Idle, Holding
<1>3. CASE requests[h] \in OnRow
  BY <1>3 DEF OnRow, Holding
<1>4. CASE requests[h] \in OnNew
  BY <1>4 DEF OnNew, Holding
<1> QED
  BY <1>1, <1>2, <1>3, <1>4

\* What a handler that starts has checked.
NewChecked(m) ==
    /\ m = [step |-> "checked", new |-> m.new]
    /\ m.new \in UserAccountSSO
    /\ m.new.state = "live"
    /\ m.new.activated <=> m.new.user # NoOne
    /\ seatFor(m.new.email)

\* What a handler that starts has loaded.
RowLoaded(m) ==
    /\ m \in OnRow
    /\ m.row \in Live
    /\ m.was = members[m.row].role
    /\ m.next.email = members[m.row].email
    /\ \/ m.next.activated = members[m.row].activated /\ m.next.user = members[m.row].user
       \/ ~members[m.row].activated /\ m.next.activated /\ m.next.user # NoOne
    /\ m.op # "role" => m.next.role = m.was
    /\ m.step = IF m.op = "save" THEN "guarded" ELSE "loaded"

\* An invitation or a grant.
LEMMA StartNew ==
    ASSUME NEW h \in Handlers, NEW e \in People, NEW role \in Roles,
           \/ \E a \in People : Invite(h, a, e)
           \/ \E a \in People, active \in BOOLEAN : InviteMulti(h, a, e, role, active)
           \/ \E a \in People, u \in People \cup {NoOne}, banned \in BOOLEAN :
                 GrantAccess(h, a, e, u, role, banned)
    PROVE  \E m : NewChecked(m) /\ requests' = [requests EXCEPT ![h] = m]
<1>1. ASSUME NEW a \in People, Invite(h, a, e)
      PROVE  \E m : NewChecked(m) /\ requests' = [requests EXCEPT ![h] = m]
  <2> DEFINE m == [step |-> "checked", new |-> Pending(e, "staff", FALSE)]
  <2>1. NewChecked(m)
    BY <1>1 DEF Invite, NewChecked, Pending, UserAccountSSO, Roles
  <2> QED
    BY <1>1, <2>1 DEF Invite
<1>2. ASSUME NEW a \in People, NEW active \in BOOLEAN, InviteMulti(h, a, e, role, active)
      PROVE  \E m : NewChecked(m) /\ requests' = [requests EXCEPT ![h] = m]
  <2> DEFINE m == [step |-> "checked", new |-> Pending(e, role, ~active)]
  <2>1. NewChecked(m)
    BY <1>2 DEF InviteMulti, NewChecked, Pending, UserAccountSSO, Roles
  <2> QED
    BY <1>2, <2>1 DEF InviteMulti
<1>3. ASSUME NEW a \in People, NEW u \in People \cup {NoOne}, NEW banned \in BOOLEAN,
             GrantAccess(h, a, e, u, role, banned)
      PROVE  \E m : NewChecked(m) /\ requests' = [requests EXCEPT ![h] = m]
  <2>1. PICK known \in BOOLEAN : known = (u # NoOne)
    OBVIOUS
  <2>2. PICK p \in UserAccountSSO : p = Pending(e, role, banned)
    BY DEF Pending, UserAccountSSO
  <2>3. p.state = "live" /\ p.email = e
    BY <2>2 DEF Pending
  <2> DEFINE new == [p EXCEPT !.user = u, !.activated = known]
             m == [step |-> "checked", new |-> new]
  <2>4. requests' = [requests EXCEPT ![h] = m] /\ seatFor(e)
    BY <1>3, <2>1, <2>2 DEF GrantAccess
  <2>5. new \in UserAccountSSO /\ new.state = "live" /\ new.email = e
        /\ new.user = u /\ new.activated = known
    BY <2>3 DEF UserAccountSSO
  <2> HIDE DEF new
  <2>6. NewChecked(m)
    BY <2>1, <2>4, <2>5 DEF NewChecked
  <2> HIDE DEF m
  <2> QED
    BY <2>4, <2>6
<1> QED
  BY <1>1, <1>2, <1>3

\* An operation on an existing row.
LEMMA StartLoad ==
    ASSUME TypeOK, NEW h \in Handlers, NEW r \in Rows,
           \/ \E a \in People, role \in Roles : UpdateMemberRole(h, a, r, role)
           \/ \E a \in People : RemoveMember(h, a, r)
           \/ \E a \in People : SyncRemove(h, a, r)
           \/ \E a \in People, b \in BOOLEAN : SetMemberActive(h, a, r, b)
           \/ \E a \in People : ResendInvite(h, a, r)
           \/ \E a \in People : UpdateMemberProfile(h, a, r)
           \/ \E p \in People : AcceptInvite(h, p, r)
    PROVE  \E m : RowLoaded(m) /\ requests' = [requests EXCEPT ![h] = m]
<1>0. members[r] \in UserAccountSSO
  BY DEF TypeOK
<1>1. ASSUME NEW op \in {"role", "ban", "remove", "save"}, NEW next \in UserAccountSSO, Load(h, r, op, next),
             next.email = members[r].email,
             \/ next.activated = members[r].activated /\ next.user = members[r].user
             \/ ~members[r].activated /\ next.activated /\ next.user # NoOne,
             op # "role" => next.role = members[r].role
      PROVE  \E m : RowLoaded(m) /\ requests' = [requests EXCEPT ![h] = m]
  <2> DEFINE m == [step |-> IF op = "save" THEN "guarded" ELSE "loaded", row |-> r,
                   was |-> members[r].role, op |-> op, next |-> next]
  <2>1. m \in OnRow
    BY <1>0 DEF OnRow, UserAccountSSO
  <2>2. RowLoaded(m)
    BY <1>1, <2>1 DEF Load, RowLoaded
  <2> HIDE DEF m
  <2>3. requests' = [requests EXCEPT ![h] = m]
    BY <1>1 DEF Load, m
  <2> QED
    BY <2>2, <2>3
<1>2. ASSUME NEW a \in People, NEW role \in Roles, UpdateMemberRole(h, a, r, role)
      PROVE  \E m : RowLoaded(m) /\ requests' = [requests EXCEPT ![h] = m]
  <2> DEFINE n == [members[r] EXCEPT !.role = role]
  <2>1. n \in UserAccountSSO /\ n.email = members[r].email
        /\ n.activated = members[r].activated /\ n.user = members[r].user
    BY <1>0 DEF UserAccountSSO
  <2> HIDE DEF n
  <2>2. Load(h, r, "role", n)
    BY <1>2 DEF UpdateMemberRole, n
  <2> QED
    BY <1>1, <2>1, <2>2
<1>3. ASSUME NEW a \in People, RemoveMember(h, a, r) \/ SyncRemove(h, a, r)
      PROVE  \E m : RowLoaded(m) /\ requests' = [requests EXCEPT ![h] = m]
  <2>1. Load(h, r, "remove", members[r])
    BY <1>3 DEF RemoveMember, SyncRemove
  <2> QED
    BY <1>0, <1>1, <2>1
<1>4. ASSUME NEW a \in People, NEW b \in BOOLEAN, SetMemberActive(h, a, r, b)
      PROVE  \E m : RowLoaded(m) /\ requests' = [requests EXCEPT ![h] = m]
  <2> DEFINE n == [members[r] EXCEPT !.banned = ~b]
             op == IF b THEN "save" ELSE "ban"
  <2>1. n \in UserAccountSSO /\ n.email = members[r].email /\ n.role = members[r].role
        /\ n.activated = members[r].activated /\ n.user = members[r].user
    BY <1>0 DEF UserAccountSSO
  <2> HIDE DEF n
  <2>2. Load(h, r, op, n) /\ op \in {"role", "ban", "remove", "save"}
    BY <1>4 DEF SetMemberActive, n
  <2> HIDE DEF op
  <2> QED
    BY <1>1, <2>1, <2>2
<1>5. ASSUME NEW a \in People, ResendInvite(h, a, r) \/ UpdateMemberProfile(h, a, r)
      PROVE  \E m : RowLoaded(m) /\ requests' = [requests EXCEPT ![h] = m]
  <2>1. Load(h, r, "save", members[r])
    BY <1>5 DEF ResendInvite, UpdateMemberProfile
  <2> QED
    BY <1>0, <1>1, <2>1
<1>6. ASSUME NEW p \in People, AcceptInvite(h, p, r)
      PROVE  \E m : RowLoaded(m) /\ requests' = [requests EXCEPT ![h] = m]
  <2> DEFINE n == [members[r] EXCEPT !.user = p, !.activated = TRUE]
  <2>1. n \in UserAccountSSO /\ n.email = members[r].email /\ n.role = members[r].role
        /\ n.activated /\ n.user = p
    BY <1>0 DEF UserAccountSSO
  <2>2. ~members[r].activated /\ p # NoOne
    BY <1>6, MembershipAssumption DEF AcceptInvite
  <2> HIDE DEF n
  <2>3. Load(h, r, "save", n)
    BY <1>6 DEF AcceptInvite, n
  <2> QED
    BY <1>1, <2>1, <2>2, <2>3
<1> QED
  BY <1>2, <1>3, <1>4, <1>5, <1>6

\* Every step is a write, a guard, or the start or the end of a handler.
LEMMA Steps ==
    ASSUME TypeOK, Next
    PROVE  \E h \in Handlers :
              \/ AddMember(h) \/ WriteRow(h)
              \/ \E listed \in BOOLEAN : GuardRow(h, listed)
              \/ /\ UNCHANGED <<members, everOwner, unguarded>>
                 /\ \E m : /\ m = Idle \/ NewChecked(m) \/ RowLoaded(m)
                           /\ requests' = [requests EXCEPT ![h] = m]
<1> DEFINE Quiet(h) == /\ UNCHANGED <<members, everOwner, unguarded>>
                       /\ \E m : /\ m = Idle \/ NewChecked(m) \/ RowLoaded(m)
                                 /\ requests' = [requests EXCEPT ![h] = m]
<1>1. ASSUME NEW h \in Handlers, Start(h) PROVE Quiet(h)
  <2>1. UNCHANGED <<members, everOwner, unguarded>>
    BY <1>1 DEF Start, Invite, InviteMulti, GrantAccess, UpdateMemberRole, RemoveMember, SyncRemove,
           SetMemberActive, ResendInvite, UpdateMemberProfile, AcceptInvite, Load
  <2>2. \E m : (NewChecked(m) \/ RowLoaded(m)) /\ requests' = [requests EXCEPT ![h] = m]
    <3>1. CASE \E e \in People, role \in Roles :
                  \/ \E a \in People : Invite(h, a, e)
                  \/ \E a \in People, active \in BOOLEAN : InviteMulti(h, a, e, role, active)
                  \/ \E a \in People, u \in People \cup {NoOne}, banned \in BOOLEAN :
                        GrantAccess(h, a, e, u, role, banned)
      BY <3>1, StartNew
    <3>2. CASE \E r \in Rows :
                  \/ \E a \in People, role \in Roles : UpdateMemberRole(h, a, r, role)
                  \/ \E a \in People : RemoveMember(h, a, r)
                  \/ \E a \in People : SyncRemove(h, a, r)
                  \/ \E a \in People, b \in BOOLEAN : SetMemberActive(h, a, r, b)
                  \/ \E a \in People : ResendInvite(h, a, r)
                  \/ \E a \in People : UpdateMemberProfile(h, a, r)
                  \/ \E p \in People : AcceptInvite(h, p, r)
      BY <3>2, StartLoad
    <3>3. Roles # {}
      BY DEF Roles
    <3> QED
      BY <1>1, <3>1, <3>2, <3>3 DEF Start
  <2> QED
    BY <2>1, <2>2
<1>2. ASSUME NEW h \in Handlers, Abort(h) PROVE Quiet(h)
  BY <1>2 DEF Abort, Done
<1> HIDE DEF Quiet
<1>3. \E h \in Handlers : \/ AddMember(h) \/ WriteRow(h) \/ Quiet(h)
                          \/ \E listed \in BOOLEAN : GuardRow(h, listed)
  BY <1>1, <1>2 DEF Next
<1> QED
  BY <1>3 DEF Quiet

\* Guarding a row changes nothing but the step.
LEMMA GuardEffect ==
    ASSUME TypeOK, NEW h \in Handlers, NEW listed, GuardRow(h, listed)
    PROVE  /\ UNCHANGED <<members, everOwner>>
           /\ requests[h].step = "loaded"
           /\ \A g \in Handlers : g # h => requests'[g] = requests[g]
           /\ requests' = [requests EXCEPT ![h] = requests'[h]]
           /\ requests'[h] \in OnRow
           /\ LET q == requests[h]
                  n == requests'[h]
              IN  /\ n.step = "guarded" /\ n.row = q.row /\ n.was = q.was
                  /\ n.op = q.op /\ n.next = q.next
<1>1. requests[h].step = "loaded" /\ requests[h] \in OnRow
  BY RequestType DEF GuardRow, Holding
<1>2. requests'[h] = [requests[h] EXCEPT !.step = "guarded"]
  BY DEF GuardRow, TypeOK
<1>3. /\ \A g \in Handlers : g # h => requests'[g] = requests[g]
      /\ requests' = [requests EXCEPT ![h] = requests'[h]]
  BY DEF GuardRow, TypeOK
<1>4. PICK q \in OnRow : q = requests[h]
  BY <1>1
<1>5. PICK n : n = [q EXCEPT !.step = "guarded"] /\ n = requests'[h]
  BY <1>2, <1>4
<1>6. /\ n \in OnRow
      /\ n.step = "guarded" /\ n.row = q.row /\ n.was = q.was /\ n.op = q.op /\ n.next = q.next
  BY <1>5 DEF OnRow
<1>7. UNCHANGED <<members, everOwner>>
  BY DEF GuardRow
<1> QED
  BY <1>1, <1>3, <1>4, <1>5, <1>6, <1>7

\* A soft-deleted row is a row, with the key it had.
LEMMA SoftDeletedRow ==
    ASSUME NEW m \in UserAccountSSO
    PROVE  /\ softDeleted(m) \in UserAccountSSO
           /\ softDeleted(m).state = "deleted"
           /\ softDeleted(m).activated = m.activated
           /\ softDeleted(m).user = m.user
  BY DEF softDeleted, UserAccountSSO, Roles

\* Steps keep everything well typed, with or without handlers that stay apart.
LEMMA TypeStep == ASSUME TypeOK, [Next]_vars PROVE TypeOK'
<1>1. ASSUME NEW h \in Handlers, AddMember(h) PROVE TypeOK'
  <2>1. requests[h].new \in UserAccountSSO
    BY <1>1, RequestType DEF AddMember
  <2>2. PICK m \in UserAccountSSO : m = requests[h].new
    BY <2>1
  <2>3. \A r \in Rows : softDeleted(members[r]) \in UserAccountSSO
    BY SoftDeletedRow DEF TypeOK
  <2>4. members' \in [Rows -> UserAccountSSO]
    BY <1>1, <2>2, <2>3 DEF AddMember, Upsert, TypeOK
  <2> QED
    BY <1>1, <2>4 DEF AddMember, noteOwner, Done, TypeOK
<1>2. ASSUME NEW h \in Handlers, WriteRow(h) PROVE TypeOK'
  <2>1. PICK m \in UserAccountSSO, r \in Rows : m = requests[h].next /\ r = requests[h].row
    BY <1>2, RequestType DEF WriteRow, Holding
  <2>2. [m EXCEPT !.state = "live"] \in UserAccountSSO
    BY DEF UserAccountSSO
  <2>3. softDeleted(members[r]) \in UserAccountSSO
    BY SoftDeletedRow DEF TypeOK
  <2>4. members' \in [Rows -> UserAccountSSO]
    BY <1>2, <2>1, <2>2, <2>3 DEF WriteRow, SoftDeleteByID, Save, TypeOK
  <2> QED
    BY <1>2, <2>4 DEF WriteRow, noteOwner, Done, TypeOK
<1>3. ASSUME NEW h \in Handlers, NEW listed, GuardRow(h, listed) PROVE TypeOK'
  <2>1. requests'[h] \in OnRow /\ requests' = [requests EXCEPT ![h] = requests'[h]]
    BY <1>3, GuardEffect
  <2> QED
    BY <1>3, <2>1 DEF GuardRow, TypeOK
<1>4. ASSUME NEW h \in Handlers, UNCHANGED <<members, everOwner, unguarded>>,
             NEW m, m = Idle \/ NewChecked(m) \/ RowLoaded(m),
             requests' = [requests EXCEPT ![h] = m]
      PROVE  TypeOK'
  <2>1. m \in {Idle} \cup OnRow \cup OnNew
    BY <1>4 DEF NewChecked, RowLoaded, OnNew
  <2> QED
    BY <1>4, <2>1 DEF TypeOK
<1>5. CASE UNCHANGED vars
  BY <1>5 DEF vars, TypeOK
<1> QED
  BY <1>1, <1>2, <1>3, <1>4, <1>5, Steps

\* A company starts with its creator.
LEMMA InitType == Init => TypeOK
<1> SUFFICES ASSUME Init PROVE TypeOK
  OBVIOUS
<1>1. 1 \in Rows
  BY MembershipAssumption DEF Rows
<1>2. PICK listed \in BOOLEAN :
        /\ unguarded = ~ownerRoleKnown(listed)
        /\ members = [r \in Rows |->
             IF r = 1 THEN [state |-> "live", user |-> Creator, email |-> Creator,
                            role |-> IF unguarded THEN "staff" ELSE "owner",
                            activated |-> TRUE, banned |-> FALSE]
             ELSE FreeRow]
        /\ requests = [h \in Handlers |-> Idle]
        /\ everOwner = IF unguarded THEN {} ELSE {1}
  BY DEF Init
<1>3. unguarded \in BOOLEAN
  BY <1>2, MembershipAssumption DEF ownerRoleKnown
<1>4. everOwner \subseteq Rows
  BY <1>1, <1>2
<1>5. members \in [Rows -> UserAccountSSO]
  BY <1>1, <1>2, MembershipAssumption DEF UserAccountSSO, FreeRow, Roles
<1> QED
  BY <1>2, <1>3, <1>4, <1>5 DEF TypeOK

\* The table and what the handlers carry are always well typed.
THEOREM TypeCorrect == Spec => []TypeOK
  BY InitType, TypeStep, PTL DEF Spec

-----------------------------------------------------------------------------
(* What the writes do, while handlers stay apart. *)

\* A new membership takes a free row, or repeats an invitation that is pending
\* for the same e-mail; it never meets an accepted row.
LEMMA AddEffect ==
    ASSUME IInv, NEW h \in Handlers, AddMember(h)
    PROVE  LET m == requests[h].new IN
           /\ m \in UserAccountSSO
           /\ \E x \in Rows :
                 /\ members' = [members EXCEPT ![x] = m]
                 /\ indexesAllow(x, m)
                 /\ \/ members[x].state = "free"
                    \/ /\ x \in Live /\ ~members[x].activated
                       /\ members[x].email = m.email /\ m.user = NoOne
<1> DEFINE Added(m) == \E x \in Rows :
              /\ members' = [members EXCEPT ![x] = m]
              /\ indexesAllow(x, m)
              /\ \/ members[x].state = "free"
                 \/ /\ x \in Live /\ ~members[x].activated
                    /\ members[x].email = m.email /\ m.user = NoOne
<1>0. TypeOK /\ RowsSound /\ EmailsUnique /\ NewSound /\ OwnAddress
  BY DEF IInv, Apart
<1>1. PICK m \in UserAccountSSO : m = requests[h].new
  BY <1>0, RequestType DEF AddMember
<1>2. Upsert(m)
  BY <1>1 DEF AddMember
<1>3. CASE sameKey(m) = {}
  <2> DEFINE free == {r \in Rows : members[r].state = "free"}
             x == CHOOSE r \in free : \A q \in free : r <= q
  <2>1. free # {} /\ indexesAllow(x, m) /\ members' = [members EXCEPT ![x] = m]
    BY <1>2, <1>3 DEF Upsert
  <2>2. x \in free
    <3> HIDE DEF free
    <3>1. free \subseteq Rows
      BY DEF free
    <3> QED
      BY <2>1, <3>1, FirstRow
  <2> HIDE DEF x
  <2>3. x \in Rows /\ members[x].state = "free"
    BY <2>2
  <2> QED
    BY <1>1, <2>1, <2>3
<1>4. CASE sameKey(m) # {}
  <2> DEFINE key == sameKey(m)
             x == CHOOSE r \in key : \A q \in key : r <= q
  <2>1. /\ indexesAllow(x, m)
        /\ members' = [r \in Rows |-> IF r = x THEN m
                                      ELSE IF r \in key THEN softDeleted(members[r])
                                      ELSE members[r]]
    BY <1>2, <1>4 DEF Upsert
  <2>2. x \in key
    <3> HIDE DEF key
    <3>1. key \subseteq Rows
      BY DEF key, sameKey, Live
    <3>2. key # {}
      BY <1>4 DEF key
    <3> QED
      BY <3>1, <3>2, FirstRow
  <2> HIDE DEF x
  <2>3. m.user = NoOne
    <3> SUFFICES ASSUME m.user # NoOne PROVE FALSE
      OBVIOUS
    <3>1. x \in Live /\ members[x].user = m.user
      BY <2>2 DEF sameKey
    <3>2. members[x].user = members[x].email /\ m.user = m.email
      BY <1>0, <1>1, <3>1 DEF OwnAddress, Live, AddMember
    <3>3. members[x].email # m.email
      BY <1>0, <1>1, <3>1 DEF NewSound, AddMember
    <3> QED
      BY <3>1, <3>2, <3>3
  <2>4. \A r \in key : r \in Live /\ members[r].email = m.email /\ members[r].user = NoOne
    BY <2>3 DEF sameKey
  <2>5. \A r \in key : r = x
    BY <1>0, <2>2, <2>4 DEF EmailsUnique
  <2>6. x \in Rows /\ x \in Live /\ ~members[x].activated /\ members[x].email = m.email
    BY <1>0, <2>2, <2>4 DEF RowsSound, Live
  <2> HIDE DEF key
  <2>7. members' = [members EXCEPT ![x] = m]
    BY <1>0, <2>1, <2>5 DEF TypeOK
  <2> QED
    BY <1>1, <2>1, <2>3, <2>6, <2>7
<1> QED
  BY <1>1, <1>3, <1>4

\* A handler writes the row it has loaded, which is still there.
LEMMA WriteEffect ==
    ASSUME IInv, NEW h \in Handlers, WriteRow(h)
    PROVE  LET q == requests[h] IN
           /\ Holding(q) /\ q.step = "guarded"
           /\ q.row \in Live /\ q.next \in UserAccountSSO
           /\ \/ /\ q.op = "remove"
                 /\ members' = [members EXCEPT ![q.row] = softDeleted(members[q.row])]
              \/ /\ q.op # "remove"
                 /\ members' = [members EXCEPT ![q.row] = [q.next EXCEPT !.state = "live"]]
                 /\ indexesAllow(q.row, q.next)
<1>1. TypeOK /\ HeldRows
  BY DEF IInv
<1>2. requests[h].step = "guarded" /\ Holding(requests[h])
  BY DEF WriteRow, Holding
<1>3. PICK r \in Rows : r = requests[h].row /\ members[r].state = "live"
  BY <1>1, <1>2, RequestType DEF HeldRows
<1>4. PICK m \in UserAccountSSO : m = requests[h].next
  BY <1>1, <1>2, RequestType
<1>5. CASE requests[h].op = "remove"
  <2>1. SoftDeleteByID(r)
    BY <1>3, <1>5 DEF WriteRow
  <2>2. members' = [members EXCEPT ![r] = softDeleted(members[r])]
    BY <1>1, <1>3, <2>1 DEF SoftDeleteByID, TypeOK, UserAccountSSO
  <2> QED
    BY <1>2, <1>3, <1>4, <1>5, <2>2 DEF Live
<1>6. CASE requests[h].op # "remove"
  BY <1>2, <1>3, <1>4, <1>6 DEF WriteRow, Save, Live
<1> QED
  BY <1>5, <1>6

\* The handler that writes is done, and the others go on with what they had.
LEMMA OthersKeep ==
    ASSUME TypeOK, NEW h \in Handlers, AddMember(h) \/ WriteRow(h)
    PROVE  \A g \in Handlers : requests'[g] = IF g = h THEN Idle ELSE requests[g]
  BY DEF AddMember, WriteRow, Done, TypeOK

\* Both writes remember owners.
LEMMA OwnersNoted ==
    ASSUME NEW h \in Handlers, AddMember(h) \/ WriteRow(h), NEW r \in Rows
    PROVE  /\ r \in everOwner => r \in everOwner'
           /\ members'[r].role = "owner" => r \in everOwner'
           /\ r \in everOwner' => r \in everOwner \/ members'[r].role = "owner"
  BY DEF AddMember, WriteRow, noteOwner

\* One row is written; it may join the live rows, and keeps what it promises.
LEMMA TableStep ==
    ASSUME IInv, [Next]_vars
    PROVE  RowsSound' /\ EmailsUnique'
<1>0. TypeOK /\ RowsSound /\ EmailsUnique /\ NewSound /\ HeldRows
  BY DEF IInv
<1>1. ASSUME NEW x \in Rows, NEW m \in UserAccountSSO, members' = [members EXCEPT ![x] = m],
             m.state = "live" => indexesAllow(x, m) /\ (m.activated <=> m.user # NoOne),
             m.state # "live" => m.activated = members[x].activated /\ m.user = members[x].user,
             NEW h \in Handlers, AddMember(h) \/ WriteRow(h)
      PROVE  RowsSound' /\ EmailsUnique'
  <2>1. \A r \in Rows : members'[r] = IF r = x THEN m ELSE members[r]
    BY <1>0, <1>1 DEF TypeOK
  <2>2. RowsSound'
    BY <1>0, <1>1, <2>1, OwnersNoted DEF RowsSound
  <2>3. ASSUME NEW r \in Rows, NEW q \in Rows, members'[r].state = "live", members'[q].state = "live",
               members'[r].email = members'[q].email
        PROVE  r = q
    <3>1. CASE r # x /\ q # x
      BY <1>0, <2>1, <2>3, <3>1 DEF EmailsUnique, Live
    <3>2. CASE r = x /\ q # x
      BY <1>1, <2>1, <2>3, <3>2 DEF indexesAllow, Live
    <3>3. CASE r # x /\ q = x
      BY <1>1, <2>1, <2>3, <3>3 DEF indexesAllow, Live
    <3> QED
      BY <3>1, <3>2, <3>3
  <2> QED
    BY <2>2, <2>3 DEF EmailsUnique, Live
<1>2. ASSUME NEW h \in Handlers, AddMember(h) PROVE RowsSound' /\ EmailsUnique'
  <2>1. PICK m \in UserAccountSSO : m = requests[h].new
    BY <1>2, AddEffect
  <2>2. PICK x \in Rows : members' = [members EXCEPT ![x] = m] /\ indexesAllow(x, m)
    BY <1>2, <2>1, AddEffect
  <2>3. m.state = "live" /\ (m.activated <=> m.user # NoOne)
    BY <1>0, <1>2, <2>1 DEF NewSound, AddMember
  <2> QED
    BY <1>1, <1>2, <2>2, <2>3
<1>3. ASSUME NEW h \in Handlers, WriteRow(h) PROVE RowsSound' /\ EmailsUnique'
  <2>1. PICK x \in Rows, m \in UserAccountSSO : x = requests[h].row /\ m = requests[h].next
    BY <1>3, WriteEffect DEF Live
  <2>2. Holding(requests[h]) /\ members[x] \in UserAccountSSO
    BY <1>0, <1>3, WriteEffect DEF TypeOK
  <2>3. CASE requests[h].op = "remove"
    <3> DEFINE d == softDeleted(members[x])
    <3>1. members' = [members EXCEPT ![x] = d]
      BY <1>3, <2>1, <2>3, WriteEffect
    <3>2. /\ d \in UserAccountSSO /\ d.state = "deleted"
          /\ d.activated = members[x].activated /\ d.user = members[x].user
      BY <2>2, SoftDeletedRow
    <3> HIDE DEF d
    <3> QED
      BY <1>1, <1>3, <3>1, <3>2
  <2>4. CASE requests[h].op # "remove"
    <3> DEFINE n == [m EXCEPT !.state = "live"]
    <3>1. members' = [members EXCEPT ![x] = n] /\ indexesAllow(x, m)
      BY <1>3, <2>1, <2>4, WriteEffect
    <3>2. m.activated <=> m.user # NoOne
      BY <1>0, <2>1, <2>2 DEF HeldRows
    <3>3. /\ n \in UserAccountSSO /\ n.state = "live" /\ n.email = m.email
          /\ n.activated = m.activated /\ n.user = m.user
      BY DEF UserAccountSSO
    <3> HIDE DEF n
    <3>4. indexesAllow(x, n)
      BY <3>1, <3>3 DEF indexesAllow
    <3> QED
      BY <1>1, <1>3, <3>1, <3>2, <3>3, <3>4
  <2> QED
    BY <2>3, <2>4
<1>4. CASE UNCHANGED <<members, everOwner>>
  BY <1>0, <1>4 DEF RowsSound, EmailsUnique, Live
<1>5. ASSUME NEW h \in Handlers, NEW listed, GuardRow(h, listed) PROVE UNCHANGED <<members, everOwner>>
  BY <1>5 DEF GuardRow
<1> QED
  BY <1>0, <1>2, <1>3, <1>4, <1>5, Steps DEF vars

\* A grant in flight still finds nobody: a new membership or a row of that
\* e-mail would be another handler's, about the same person.
LEMMA NewStep ==
    ASSUME IInv, [Next]_vars
    PROVE  NewSound'
<1>0. TypeOK /\ NewSound /\ HeldRows /\ GrantsAlone
  BY DEF IInv, Apart
<1> DEFINE Sound(q) == q.step = "checked" =>
        /\ q.new.state = "live"
        /\ q.new.activated <=> q.new.user # NoOne
        /\ q.new.user # NoOne =>
              \A r \in Rows : members'[r].state = "live" => members'[r].email # q.new.email
<1> SUFFICES ASSUME NEW g \in Handlers PROVE Sound(requests'[g])
  BY DEF NewSound, Live
<1>1. UNCHANGED members => Sound(requests[g])
  BY <1>0 DEF NewSound, Live
<1>2. ASSUME NEW h \in Handlers, g # h, NEW x \in Rows, NEW m \in UserAccountSSO,
             members' = [members EXCEPT ![x] = m],
             m.state = "live" => m.email = target(requests[h])
      PROVE  Sound(requests[g])
  <2> SUFFICES ASSUME requests[g].step = "checked", requests[g].new.user # NoOne,
                      NEW r \in Rows, members'[r].state = "live"
               PROVE  members'[r].email # requests[g].new.email
    BY <1>0 DEF NewSound
  <2>1. CASE r # x
    BY <1>0, <1>2, <2>1 DEF NewSound, TypeOK, Live
  <2>2. CASE r = x
    <3>1. members'[r] = m
      BY <1>0, <1>2, <2>2 DEF TypeOK
    <3>2. target(requests[h]) # requests[g].new.email
      BY <1>0, <1>2 DEF GrantsAlone, target
    <3> QED
      BY <1>2, <3>1, <3>2
  <2> QED
    BY <2>1, <2>2
<1>3. Sound(Idle)
  BY DEF Idle
<1>4. ASSUME NEW h \in Handlers, AddMember(h) PROVE Sound(requests'[g])
  <2>1. PICK m \in UserAccountSSO : m = requests[h].new
    BY <1>4, AddEffect
  <2>2. PICK x \in Rows : members' = [members EXCEPT ![x] = m]
    BY <1>4, <2>1, AddEffect
  <2>3. m.email = target(requests[h])
    BY <1>4, <2>1 DEF AddMember, target
  <2>4. g # h => Sound(requests[g])
    <3> HIDE DEF Sound
    <3> QED BY <1>2, <2>2, <2>3
  <2> HIDE DEF Sound
  <2> QED
    BY <1>0, <1>3, <1>4, <2>4, OthersKeep
<1>5. ASSUME NEW h \in Handlers, WriteRow(h) PROVE Sound(requests'[g])
  <2>1. PICK x \in Rows, n \in UserAccountSSO : x = requests[h].row /\ n = requests[h].next
    BY <1>5, WriteEffect DEF Live
  <2>2. PICK m \in UserAccountSSO : /\ members' = [members EXCEPT ![x] = m]
                                    /\ m.state = "live" => m.email = n.email
    <3>1. [n EXCEPT !.state = "live"] \in UserAccountSSO
          /\ [n EXCEPT !.state = "live"].email = n.email
      BY DEF UserAccountSSO
    <3>2. softDeleted(members[x]) \in UserAccountSSO
          /\ softDeleted(members[x]).state = "deleted"
      BY <1>0, SoftDeletedRow DEF TypeOK
    <3> QED
      BY <1>5, <2>1, <3>1, <3>2, WriteEffect
  <2>3. n.email = target(requests[h])
    BY <1>5, <2>1, WriteEffect DEF Holding, target
  <2>4. g # h => Sound(requests[g])
    <3> HIDE DEF Sound
    <3> QED BY <1>2, <2>2, <2>3
  <2> HIDE DEF Sound
  <2> QED
    BY <1>0, <1>3, <1>5, <2>4, OthersKeep
<1>6. ASSUME NEW h \in Handlers, NEW listed, GuardRow(h, listed) PROVE Sound(requests'[g])
  <2>1. g = h => requests'[g].step = "guarded"
    BY <1>0, <1>6, GuardEffect
  <2>2. g # h => requests'[g] = requests[g]
    BY <1>0, <1>6, GuardEffect
  <2>3. UNCHANGED members
    BY <1>6 DEF GuardRow
  <2> QED
    BY <1>1, <2>1, <2>2, <2>3
<1>7. ASSUME NEW h \in Handlers, UNCHANGED <<members, everOwner, unguarded>>,
             NEW m, m = Idle \/ NewChecked(m) \/ RowLoaded(m),
             requests' = [requests EXCEPT ![h] = m]
      PROVE  Sound(requests'[g])
  <2>1. requests'[g] = IF g = h THEN m ELSE requests[g]
    BY <1>0, <1>7 DEF TypeOK
  <2>2. Sound(m)
    <3>1. CASE NewChecked(m)
      BY <1>7, <3>1 DEF NewChecked, seatFor, Live
    <3>2. CASE RowLoaded(m)
      BY <3>2 DEF RowLoaded, OnRow
    <3> QED
      BY <1>3, <1>7, <3>1, <3>2
  <2> HIDE DEF Sound
  <2> QED
    BY <1>1, <1>7, <2>1, <2>2
<1> QED
  <2> HIDE DEF Sound
  <2>1. CASE UNCHANGED vars
    BY <1>1, <2>1 DEF vars
  <2> QED
    BY <1>0, <1>4, <1>5, <1>6, <1>7, <2>1, Steps

\* What a handler holds is still its own: nobody else writes the row, and a
\* repeated invitation only reaches it while it is pending.
LEMMA HeldStep ==
    ASSUME IInv, [Next]_vars
    PROVE  HeldRows'
<1>0. TypeOK /\ RowsSound /\ NewSound /\ HeldRows /\ RowsApart
  BY DEF IInv, Apart
<1> DEFINE Still(q) == Holding(q) =>
        /\ members'[q.row].state = "live"
        /\ members'[q.row].email = q.next.email
        /\ q.next.activated <=> q.next.user # NoOne
        /\ members'[q.row].activated => /\ q.next.activated /\ q.next.user = members'[q.row].user
                                        /\ members'[q.row].role = q.was
        /\ q.op # "role" => q.next.role = q.was
<1> SUFFICES ASSUME NEW g \in Handlers PROVE Still(requests'[g])
  BY DEF HeldRows, Holding
<1>1. Still(Idle)
  BY DEF Idle, Holding
<1>2. Holding(requests[g]) /\ members'[requests[g].row] = members[requests[g].row] => Still(requests[g])
  BY <1>0 DEF HeldRows
<1>3. ASSUME NEW h \in Handlers, g # h, AddMember(h) PROVE Still(requests[g])
  <2> SUFFICES ASSUME Holding(requests[g]) PROVE Still(requests[g])
    OBVIOUS
  <2>1. PICK y \in Rows, q \in OnRow : q = requests[g] /\ y = q.row /\ Holding(q)
    BY <1>0, RequestType
  <2>2. PICK m \in UserAccountSSO : m = requests[h].new
    BY <1>3, AddEffect
  <2>3. PICK x \in Rows : /\ members' = [members EXCEPT ![x] = m]
                          /\ \/ members[x].state = "free"
                             \/ /\ ~members[x].activated
                                /\ members[x].email = m.email /\ m.user = NoOne
    BY <1>3, <2>2, AddEffect
  <2>4. m.state = "live" /\ (m.activated <=> m.user # NoOne)
    BY <1>0, <1>3, <2>2 DEF NewSound, AddMember
  <2>5. /\ members[y].state = "live"
        /\ members[y].email = q.next.email
        /\ q.next.activated <=> q.next.user # NoOne
        /\ q.op # "role" => q.next.role = q.was
    BY <1>0, <2>1 DEF HeldRows
  <2>6. CASE x # y
    BY <1>0, <1>2, <2>1, <2>3, <2>6 DEF TypeOK
  <2>7. CASE x = y
    <3>1. members'[y] = m /\ m.email = members[y].email /\ ~m.activated
      BY <1>0, <2>3, <2>4, <2>5, <2>7 DEF TypeOK
    <3>2. Still(q)
      BY <2>1, <2>4, <2>5, <3>1
    <3> HIDE DEF Still
    <3> QED
      BY <2>1, <3>2
  <2> QED
    BY <2>6, <2>7
<1>4. ASSUME NEW h \in Handlers, g # h, WriteRow(h) PROVE Still(requests[g])
  <2> SUFFICES ASSUME Holding(requests[g]) PROVE members'[requests[g].row] = members[requests[g].row]
    BY <1>2
  <2>1. PICK y \in Rows : y = requests[g].row
    BY <1>0, RequestType
  <2>2. requests[h].row # y
    BY <1>0, <1>4, <2>1, WriteEffect DEF RowsApart, Holding
  <2> QED
    BY <1>0, <1>4, <2>1, <2>2, WriteEffect DEF TypeOK
<1>5. ASSUME NEW h \in Handlers, AddMember(h) \/ WriteRow(h) PROVE Still(requests'[g])
  <2> HIDE DEF Still
  <2> QED
    BY <1>0, <1>1, <1>3, <1>4, <1>5, OthersKeep
<1>6. ASSUME NEW h \in Handlers, NEW listed, GuardRow(h, listed) PROVE Still(requests'[g])
  <2>1. UNCHANGED members
    BY <1>6 DEF GuardRow
  <2>2. CASE g # h
    BY <1>0, <1>2, <1>6, <2>1, <2>2, GuardEffect
  <2>3. CASE g = h
    <3>1. PICK q, n : /\ q = requests[h] /\ n = requests'[h] /\ Holding(q)
                      /\ n.row = q.row /\ n.was = q.was /\ n.op = q.op /\ n.next = q.next
      BY <1>0, <1>6, GuardEffect DEF Holding
    <3>2. Still(q)
      BY <1>2, <2>1, <2>3, <3>1
    <3>3. Still(n)
      BY <3>1, <3>2
    <3> HIDE DEF Still
    <3> QED
      BY <2>3, <3>1, <3>3
  <2> QED
    BY <2>2, <2>3
<1>7. ASSUME NEW h \in Handlers, UNCHANGED <<members, everOwner, unguarded>>,
             NEW m, m = Idle \/ NewChecked(m) \/ RowLoaded(m),
             requests' = [requests EXCEPT ![h] = m]
      PROVE  Still(requests'[g])
  <2>1. requests'[g] = IF g = h THEN m ELSE requests[g]
    BY <1>0, <1>7 DEF TypeOK
  <2>2. Still(m)
    <3>1. CASE NewChecked(m)
      BY <3>1 DEF NewChecked, Holding
    <3>2. CASE RowLoaded(m)
      <4>1. m.row \in Rows /\ members[m.row].state = "live"
        BY <3>2 DEF RowLoaded, Live
      <4>2. members[m.row].activated <=> members[m.row].user # NoOne
        BY <1>0, <4>1 DEF RowsSound
      <4> QED
        BY <1>7, <3>2, <4>1, <4>2 DEF RowLoaded
    <3> QED
      BY <1>1, <1>7, <3>1, <3>2
  <2>3. Still(requests[g])
    BY <1>2, <1>7
  <2> HIDE DEF Still
  <2> QED
    BY <2>1, <2>2, <2>3
<1> QED
  <2> HIDE DEF Still
  <2>1. CASE UNCHANGED vars
    <3>1. Still(requests[g])
      BY <1>2, <2>1 DEF vars, Still
    <3> QED
      BY <2>1, <3>1 DEF vars
  <2> QED
    BY <1>0, <1>5, <1>6, <1>7, <2>1, Steps

\* The invariant holds in every reachable state.
LEMMA InvariantStep == ASSUME IInv, [Next /\ Apart']_vars PROVE IInv'
<1>1. [Next]_vars
  OBVIOUS
<1>2. Apart'
  BY DEF IInv, Apart, RowsApart, GrantsAlone, OwnAddress, takesOwnership, target, vars
<1> QED
  BY <1>1, <1>2, TypeStep, TableStep, NewStep, HeldStep DEF IInv

LEMMA InitInvariant == Init => IInv
<1> SUFFICES ASSUME Init PROVE IInv
  OBVIOUS
<1>1. \A h \in Handlers : requests[h].step = "idle"
  BY DEF Init, Idle
<1>2. \A r \in Rows : members[r] = IF r = 1 THEN [state |-> "live", user |-> Creator, email |-> Creator,
                                                  role |-> IF unguarded THEN "staff" ELSE "owner",
                                                  activated |-> TRUE, banned |-> FALSE]
                                   ELSE FreeRow
  BY DEF Init
<1>7. ~unguarded => 1 \in everOwner
  BY DEF Init
<1>3. Apart
  BY <1>1, <1>2 DEF Apart, RowsApart, GrantsAlone, OwnAddress, FreeRow
<1>4. RowsSound
  BY <1>2, <1>7, MembershipAssumption DEF RowsSound, FreeRow
<1>5. EmailsUnique
  BY <1>2 DEF EmailsUnique, FreeRow, Live
<1>6. NewSound /\ HeldRows
  BY <1>1 DEF NewSound, HeldRows, Holding
<1> QED
  BY <1>3, <1>4, <1>5, <1>6, InitType DEF IInv

LEMMA Invariant == SpecApart => []IInv
  BY InitInvariant, InvariantStep, PTL DEF SpecApart

-----------------------------------------------------------------------------
(* What no step does to a membership. *)

\* Each step leaves accepted rows accepted, by the same person, and deleted
\* rows deleted.
LEMMA MembershipKept ==
    ASSUME IInv, [Next]_vars, NEW r \in Rows
    PROVE  /\ members[r].state = "live" /\ members[r].activated =>
                 members'[r].activated /\ members'[r].user = members[r].user
           /\ members[r].state = "deleted" => members'[r].state = "deleted"
<1>0. TypeOK /\ HeldRows
  BY DEF IInv
<1> DEFINE Kept == /\ members[r].state = "live" /\ members[r].activated =>
                         members'[r].activated /\ members'[r].user = members[r].user
                   /\ members[r].state = "deleted" => members'[r].state = "deleted"
<1>1. members'[r] = members[r] => Kept
  OBVIOUS
<1>2. ASSUME NEW h \in Handlers, AddMember(h) PROVE Kept
  <2>1. PICK m : m = requests[h].new
    OBVIOUS
  <2>2. PICK x \in Rows : /\ members' = [members EXCEPT ![x] = m]
                          /\ members[x].state # "deleted"
                          /\ ~(members[x].state = "live" /\ members[x].activated)
    BY <1>2, <2>1, AddEffect DEF Live
  <2>3. members'[r] = IF r = x THEN m ELSE members[r]
    BY <1>0, <2>2 DEF TypeOK
  <2> QED
    BY <2>2, <2>3
<1>3. ASSUME NEW h \in Handlers, WriteRow(h) PROVE Kept
  <2>1. PICK x \in Rows, n \in UserAccountSSO : x = requests[h].row /\ n = requests[h].next
    BY <1>3, WriteEffect DEF Live
  <2>2. /\ members[x].state = "live"
        /\ members[x].activated => n.activated /\ n.user = members[x].user
    BY <1>0, <1>3, <2>1, WriteEffect DEF HeldRows
  <2>3. PICK m : /\ members' = [members EXCEPT ![x] = m]
                 /\ \/ m.activated = members[x].activated /\ m.user = members[x].user
                    \/ m.activated = n.activated /\ m.user = n.user
    <3>1. /\ [n EXCEPT !.state = "live"].activated = n.activated
          /\ [n EXCEPT !.state = "live"].user = n.user
      BY DEF UserAccountSSO
    <3>2. /\ softDeleted(members[x]).activated = members[x].activated
          /\ softDeleted(members[x]).user = members[x].user
      BY <1>0, SoftDeletedRow DEF TypeOK
    <3> QED
      BY <1>3, <2>1, <3>1, <3>2, WriteEffect
  <2>4. members'[r] = IF r = x THEN m ELSE members[r]
    BY <1>0, <2>3 DEF TypeOK
  <2>5. CASE r = x
    BY <2>2, <2>3, <2>4, <2>5
  <2>6. CASE r # x
    BY <2>4, <2>6
  <2> QED
    BY <2>5, <2>6
<1>4. CASE UNCHANGED members
  BY <1>1, <1>4
<1>5. ASSUME NEW h \in Handlers, NEW listed, GuardRow(h, listed) PROVE UNCHANGED members
  BY <1>5 DEF GuardRow
<1>6. CASE Next
  <2>1. PICK h \in Handlers : \/ AddMember(h) \/ WriteRow(h) \/ UNCHANGED <<members, everOwner, unguarded>>
                              \/ \E listed \in BOOLEAN : GuardRow(h, listed)
    BY <1>0, <1>6, Steps
  <2> QED
    BY <1>2, <1>3, <1>4, <1>5, <2>1
<1> QED
  BY <1>4, <1>6 DEF vars

\* An accepted membership stays accepted, by the same person.
THEOREM AcceptedAlwaysStands == SpecApart => AcceptedStands
<1>1. IInv /\ [Next /\ Apart']_vars =>
          [\A r \in Live : members[r].activated =>
              members'[r].activated /\ members'[r].user = members[r].user]_vars
  BY MembershipKept DEF Live
<1> QED
  BY <1>1, Invariant, PTL DEF SpecApart, AcceptedStands

\* A removed membership stays removed: no stale copy is saved over it.
THEOREM RemovedAlwaysStaysOut == SpecApart => RemovedStaysOut
<1>1. IInv /\ [Next /\ Apart']_vars =>
          [\A r \in Rows : members[r].state = "deleted" => members'[r].state = "deleted"]_vars
  BY MembershipKept
<1> QED
  BY <1>1, Invariant, PTL DEF SpecApart, RemovedStaysOut

-----------------------------------------------------------------------------
(* An owner remains. *)

\* CountActiveByRole counts a finite set.
LEMMA OwnersFinite ==
    /\ IsFiniteSet(Live) /\ IsFiniteSet(ActiveOwners)
    /\ CountActiveByRole("owner") = Cardinality(ActiveOwners)
<1>1. IsFiniteSet(Rows)
  BY MembershipAssumption, FS_Interval DEF Rows
<1>2. Live \subseteq Rows /\ ActiveOwners \subseteq Live
  BY DEF Live, ActiveOwners
<1> QED
  BY <1>1, <1>2, FS_Subset DEF CountActiveByRole, ActiveOwners

\* There is an owner when there are more than none, or the role was not known ...
LEMMA SomeOwner == OwnerRemains <=> ActiveOwners # {} \/ unguarded
<1>1. Cardinality(ActiveOwners) \in Nat /\ (Cardinality(ActiveOwners) = 0 <=> ActiveOwners = {})
  BY OwnersFinite, FS_CardinalityType, FS_EmptySet
<1> QED
  BY <1>1, OwnersFinite DEF OwnerRemains

\* ... and another one when there are more than one.
LEMMA AnotherOwner ==
    ASSUME CountActiveByRole("owner") > 1, NEW x
    PROVE  \E r \in ActiveOwners : r # x
<1>1. /\ IsFiniteSet(ActiveOwners \ {x})
      /\ Cardinality(ActiveOwners \ {x}) =
             IF x \in ActiveOwners THEN Cardinality(ActiveOwners) - 1 ELSE Cardinality(ActiveOwners)
  BY OwnersFinite, FS_RemoveElement
<1>2. Cardinality(ActiveOwners) > 1 /\ Cardinality(ActiveOwners) \in Nat
  BY OwnersFinite, FS_CardinalityType
<1>3. Cardinality(ActiveOwners \ {x}) # 0
  BY <1>1, <1>2
<1>4. ActiveOwners \ {x} # {}
  BY <1>3, FS_EmptySet
<1> QED
  BY <1>4

\* An owner row stays one, unless the handler that writes it takes the role.
LEMMA OwnerRows ==
    ASSUME IInv, NEW h \in Handlers, AddMember(h) \/ WriteRow(h), NEW r \in ActiveOwners
    PROVE  \/ r \in ActiveOwners'
           \/ WriteRow(h) /\ r = requests[h].row /\ takesOwnership(requests[h])
<1>0. TypeOK /\ HeldRows
  BY DEF IInv
<1>1. /\ r \in Rows /\ members[r].state = "live" /\ members[r].role = "owner" /\ members[r].activated
      /\ members[r] \in UserAccountSSO
  BY <1>0 DEF ActiveOwners, Live, TypeOK
<1>2. CASE members'[r] = members[r]
  BY <1>1, <1>2 DEF ActiveOwners, Live
<1>3. CASE AddMember(h)
  <2>1. PICK m : m = requests[h].new
    OBVIOUS
  <2>2. PICK x \in Rows : /\ members' = [members EXCEPT ![x] = m]
                          /\ ~(members[x].state = "live" /\ members[x].activated)
    BY <1>3, <2>1, AddEffect
  <2>3. members'[r] = members[r]
    BY <1>0, <1>1, <2>2 DEF TypeOK
  <2> QED
    BY <1>2, <2>3
<1>4. CASE WriteRow(h)
  <2>1. PICK x \in Rows, n \in UserAccountSSO : x = requests[h].row /\ n = requests[h].next
    BY <1>4, WriteEffect DEF Live
  <2>2. CASE r # x
    BY <1>0, <1>1, <1>2, <1>4, <2>1, <2>2, WriteEffect DEF TypeOK
  <2>3. CASE r = x /\ ~takesOwnership(requests[h])
    <3>1. /\ n.activated /\ requests[h].was = "owner"
          /\ requests[h].step = "guarded"
      BY <1>0, <1>1, <1>4, <2>1, <2>3, WriteEffect DEF HeldRows
    <3>2. requests[h].op # "remove" /\ n.role = "owner"
      BY <2>1, <2>3, <3>1 DEF takesOwnership
    <3>3. members' = [members EXCEPT ![x] = [n EXCEPT !.state = "live"]]
      BY <1>4, <2>1, <3>2, WriteEffect
    <3>4. /\ [n EXCEPT !.state = "live"].state = "live"
          /\ [n EXCEPT !.state = "live"].role = n.role
          /\ [n EXCEPT !.state = "live"].activated = n.activated
      BY DEF UserAccountSSO
    <3>5. members'[r].state = "live" /\ members'[r].role = "owner" /\ members'[r].activated
      BY <1>0, <1>1, <2>3, <3>1, <3>2, <3>3, <3>4 DEF TypeOK
    <3> QED
      BY <1>1, <3>5 DEF ActiveOwners, Live
  <2> QED
    BY <1>4, <2>1, <2>2, <2>3
<1> QED
  BY <1>3, <1>4

\* A guard that knows the owner role leaves another owner, and as long as nobody
\* else takes the role, it is still there at the write.
LEMMA OwnerStep ==
    ASSUME IInv, OwnerSpared, OwnerRemains, [Next]_vars
    PROVE  OwnerSpared' /\ OwnerRemains'
<1>0. TypeOK /\ RowsApart /\ HeldRows
  BY DEF IInv, Apart
<1> DEFINE Spared(q) == q.step = "guarded" /\ takesOwnership(q) =>
                unguarded' \/ \E r \in ActiveOwners' : r # q.row
       SomeLeft == ActiveOwners' # {} \/ unguarded'
<1> SUFFICES /\ \A g \in Handlers : Spared(requests'[g])
             /\ SomeLeft
  <2>1. SomeLeft => OwnerRemains'
    <3>1. (OwnerRemains <=> ActiveOwners # {} \/ unguarded)'
      BY SomeOwner, PTL
    <3> QED
      BY <3>1
  <2> QED
    BY <2>1 DEF OwnerSpared, takesOwnership
<1>1. ActiveOwners # {} \/ unguarded
  BY SomeOwner
<1>2. \A g \in Handlers : UNCHANGED <<members, unguarded>> => Spared(requests[g])
  BY DEF OwnerSpared, ActiveOwners, Live
<1>3. UNCHANGED members /\ (unguarded => unguarded') => SomeLeft
  BY <1>1 DEF ActiveOwners, Live
<1>4. Spared(Idle)
  BY DEF Idle
<1>5. ASSUME NEW h \in Handlers, AddMember(h) \/ WriteRow(h)
      PROVE  SomeLeft /\ \A g \in Handlers : Spared(requests'[g])
  <2>0. unguarded' = unguarded
    BY <1>5 DEF AddMember, WriteRow
  <2> USE <2>0
  <2>1. SomeLeft
    <3>1. CASE WriteRow(h) /\ takesOwnership(requests[h])
      <4>1. unguarded \/ \E r \in ActiveOwners : r # requests[h].row
        BY <3>1 DEF OwnerSpared, WriteRow
      <4> QED
        BY <1>5, <4>1, OwnerRows
    <3>2. CASE ~(WriteRow(h) /\ takesOwnership(requests[h]))
      BY <1>1, <1>5, <3>2, OwnerRows
    <3> QED
      BY <3>1, <3>2
  <2>2. ASSUME NEW g \in Handlers, g # h PROVE Spared(requests[g])
    <3> SUFFICES ASSUME requests[g].step = "guarded", takesOwnership(requests[g]),
                        ~unguarded
                 PROVE  \E r \in ActiveOwners' : r # requests[g].row
      OBVIOUS
    <3>1. PICK r \in ActiveOwners : r # requests[g].row
      BY DEF OwnerSpared
    <3>2. ~(WriteRow(h) /\ takesOwnership(requests[h]))
      BY <1>0, <2>2 DEF RowsApart, WriteRow, takesOwnership
    <3>3. r \in ActiveOwners'
      BY <1>5, <3>2, OwnerRows
    <3> QED
      BY <3>1, <3>3
  <2> HIDE DEF Spared
  <2> QED
    BY <1>0, <1>4, <1>5, <2>1, <2>2, OthersKeep
<1>6. ASSUME NEW h \in Handlers, NEW listed \in BOOLEAN, GuardRow(h, listed)
      PROVE  SomeLeft /\ \A g \in Handlers : Spared(requests'[g])
  <2>1. UNCHANGED members /\ (unguarded => unguarded')
    BY <1>6 DEF GuardRow
  <2>2. ASSUME NEW g \in Handlers, g # h PROVE Spared(requests'[g])
    <3>1. requests'[g] = requests[g]
      BY <1>0, <1>6, <2>2, GuardEffect
    <3>2. Spared(requests[g])
      BY <2>1 DEF OwnerSpared, ActiveOwners, Live
    <3> QED
      BY <3>1, <3>2
  <2>3. Spared(requests'[h])
    <3>1. PICK q, n : /\ q = requests[h] /\ n = requests'[h]
                      /\ n.row = q.row /\ n.was = q.was /\ n.op = q.op /\ n.next = q.next
      BY <1>0, <1>6, GuardEffect
    <3> SUFFICES ASSUME takesOwnership(n), ~unguarded'
                 PROVE  \E r \in ActiveOwners' : r # n.row
      BY <3>1
    <3>2. q.was = "owner" /\ (q.op = "remove" \/ q.next.role # "owner")
      BY <3>1 DEF takesOwnership
    <3>3. CountActiveByRole("owner") > 1
      BY <1>6, <3>1, <3>2 DEF GuardRow, guardLastOwner
    <3>4. PICK r \in ActiveOwners : r # q.row
      BY <3>3, AnotherOwner
    <3> QED
      BY <2>1, <3>1, <3>4 DEF ActiveOwners, Live
  <2> HIDE DEF Spared
  <2> QED
    BY <1>3, <2>1, <2>2, <2>3
<1>7. ASSUME NEW h \in Handlers, UNCHANGED <<members, everOwner, unguarded>>,
             NEW m, m = Idle \/ NewChecked(m) \/ RowLoaded(m),
             requests' = [requests EXCEPT ![h] = m]
      PROVE  SomeLeft /\ \A g \in Handlers : Spared(requests'[g])
  <2>1. \A g \in Handlers : requests'[g] = IF g = h THEN m ELSE requests[g]
    BY <1>0, <1>7 DEF TypeOK
  <2>2. Spared(m)
    <3>1. CASE NewChecked(m)
      BY <3>1 DEF NewChecked
    <3>2. CASE RowLoaded(m)
      BY <3>2 DEF RowLoaded, takesOwnership
    <3> QED
      BY <1>4, <1>7, <3>1, <3>2
  <2> HIDE DEF Spared
  <2> QED
    BY <1>2, <1>3, <1>7, <2>1, <2>2
<1>8. CASE UNCHANGED vars
  <2> HIDE DEF Spared
  <2> QED
    BY <1>2, <1>3, <1>8 DEF vars
<1> QED
  <2> HIDE DEF Spared
  <2> QED
    BY <1>0, <1>5, <1>6, <1>7, <1>8, Steps

\* Whatever the role lists answer, and whether the deployment names the owner role
\* or not: a company has an accepted owner until its creator was linked, or an owner
\* let go, without knowing the role.
THEOREM OwnerAlwaysRemains == SpecApart => []OwnerRemains
<1>1. Init => IInv /\ OwnerSpared /\ OwnerRemains
  <2> SUFFICES ASSUME Init PROVE OwnerSpared /\ OwnerRemains
    BY InitInvariant
  <2>1. OwnerSpared
    BY DEF Init, OwnerSpared, Idle
  <2>2. ~unguarded => 1 \in ActiveOwners
    BY MembershipAssumption DEF Init, ActiveOwners, Live, Rows
  <2> QED
    BY <2>1, <2>2, SomeOwner
<1>2. IInv /\ OwnerSpared /\ OwnerRemains /\ [Next /\ Apart']_vars
          => IInv' /\ OwnerSpared' /\ OwnerRemains'
  BY InvariantStep, OwnerStep
<1> QED
  BY <1>1, <1>2, PTL DEF SpecApart

\* Where the deployment names the owner role, there is no such excuse: at every
\* moment somebody accepted is an owner.
COROLLARY PinnedOwnerAlwaysRemains ==
    ASSUME OwnerPinned
    PROVE  SpecApart => [](CountActiveByRole("owner") > 0)
<1>1. Init => ~unguarded
  BY DEF Init, ownerRoleKnown
<1>2. TypeOK /\ ~unguarded /\ [Next /\ Apart']_vars => ~unguarded'
  <2> SUFFICES ASSUME TypeOK, ~unguarded, Next PROVE ~unguarded'
    BY DEF vars
  <2>1. ASSUME NEW h \in Handlers, NEW listed, GuardRow(h, listed) PROVE ~unguarded'
    BY <2>1 DEF GuardRow, ownerRoleKnown
  <2>2. ASSUME NEW h \in Handlers, AddMember(h) \/ WriteRow(h) PROVE ~unguarded'
    BY <2>2 DEF AddMember, WriteRow
  <2> QED
    BY <2>1, <2>2, Steps
<1>3. OwnerRemains /\ ~unguarded => CountActiveByRole("owner") > 0
  BY DEF OwnerRemains
<1>4. IInv => TypeOK
  BY DEF IInv
<1>5. SpecApart => []OwnerRemains
  BY OwnerAlwaysRemains
<1> QED
  BY <1>1, <1>2, <1>3, <1>4, <1>5, Invariant, PTL DEF SpecApart

-----------------------------------------------------------------------------
(* Seats. *)

\* The seats taken by rows that were never owners, and those about to be taken.
Seated == {r \in Live \ everOwner : members[r].role # "owner"}
Seating == {h \in Handlers : requests[h].step = "checked" /\ requests[h].new.role # "owner"}

LEMMA SeatsFinite ==
    /\ IsFiniteSet(Seated) /\ Cardinality(Seated) \in Nat
    /\ Cardinality(Seated) <= CountConsumedInviteSlots
    /\ IsFiniteSet(Seating) /\ Cardinality(Seating) \in Nat
    /\ Cardinality(Handlers) \in Nat
    /\ CountConsumedInviteSlots \in Nat
<1>1. Seating \subseteq Handlers
  BY DEF Seating
<1> DEFINE Slots == {r \in Live : members[r].role # "owner"}
<1>2. Seated \subseteq Slots /\ Slots \subseteq Live
  BY DEF Seated
<1>3. CountConsumedInviteSlots = Cardinality(Slots)
  BY DEF CountConsumedInviteSlots
<1> HIDE DEF Slots
<1>4. IsFiniteSet(Slots) /\ IsFiniteSet(Seated) /\ Cardinality(Seated) <= Cardinality(Slots)
  BY <1>2, OwnersFinite, FS_Subset
<1>5. IsFiniteSet(Seating)
  BY <1>1, MembershipAssumption, FS_Subset
<1> QED
  BY <1>3, <1>4, <1>5, MembershipAssumption, FS_CardinalityType

\* The bound, of any two finite sets.
Fits(seated, seating) ==
    Cardinality(seated) + Cardinality(seating) <= UserLimit + Cardinality(Handlers) - 1

\* It carries over to smaller sets, and when one seat moves from the second to
\* the first.
LEMMA FewerFit ==
    ASSUME NEW S, NEW T, IsFiniteSet(S), IsFiniteSet(T), Fits(S, T),
           NEW S2 \in SUBSET S, NEW T2 \in SUBSET T
    PROVE  Fits(S2, T2)
<1>1. Cardinality(S2) <= Cardinality(S) /\ Cardinality(T2) <= Cardinality(T)
  BY FS_Subset
<1>2. /\ Cardinality(S) \in Nat /\ Cardinality(T) \in Nat /\ Cardinality(Handlers) \in Nat
      /\ Cardinality(S2) \in Nat /\ Cardinality(T2) \in Nat /\ UserLimit \in Nat
  BY MembershipAssumption, FS_CardinalityType, FS_Subset
<1> QED
  BY <1>1, <1>2 DEF Fits

LEMMA MovedFit ==
    ASSUME NEW S, NEW T, IsFiniteSet(S), IsFiniteSet(T), Fits(S, T), NEW x, NEW h \in T
    PROVE  Fits(S \cup {x}, T \ {h})
<1>1. /\ Cardinality(S \cup {x}) <= Cardinality(S) + 1
      /\ Cardinality(T \ {h}) = Cardinality(T) - 1
      /\ IsFiniteSet(S \cup {x}) /\ IsFiniteSet(T \ {h})
  BY FS_AddElement, FS_RemoveElement, FS_CardinalityType
<1>2. /\ Cardinality(S) \in Nat /\ Cardinality(T) \in Nat /\ Cardinality(Handlers) \in Nat
      /\ Cardinality(S \cup {x}) \in Nat /\ UserLimit \in Nat
  BY <1>1, MembershipAssumption, FS_CardinalityType
<1> QED
  BY <1>1, <1>2 DEF Fits

\* A seat is checked before it is taken, and nothing but a new membership
\* takes one: demoted owners do not count, and nobody comes back.
LEMMA SeatsStep ==
    ASSUME IInv, Fits(Seated, Seating), [Next]_vars
    PROVE  Fits(Seated', Seating')
<1>0. TypeOK /\ RowsSound
  BY DEF IInv
<1>1. UNCHANGED <<members, everOwner>> => Seated' = Seated
  BY DEF Seated, Live
<1>2. ASSUME NEW h \in Handlers, AddMember(h) PROVE Fits(Seated', Seating')
  <2>1. PICK m \in UserAccountSSO : m = requests[h].new
    BY <1>2, AddEffect
  <2>2. PICK x \in Rows : members' = [members EXCEPT ![x] = m]
    BY <1>2, <2>1, AddEffect
  <2>3. \A r \in Rows : members'[r] = IF r = x THEN m ELSE members[r]
    BY <1>0, <2>2 DEF TypeOK
  <2>4. CASE m.role = "owner"
    <3>1. x \in everOwner'
      BY <1>2, <2>3, <2>4, OwnersNoted
    <3>2. Seated' \subseteq Seated
      BY <1>2, <2>3, <3>1, OwnersNoted DEF Seated, Live
    <3>3. Seating' \subseteq Seating
      BY <1>0, <1>2, OthersKeep DEF Seating, Idle
    <3> QED
      BY <3>2, <3>3, SeatsFinite, FewerFit
  <2>5. CASE m.role # "owner"
    <3>1. h \in Seating
      BY <1>2, <2>1, <2>5 DEF Seating, AddMember
    <3>2. Seated' \subseteq Seated \cup {x}
      BY <1>2, <2>3, OwnersNoted DEF Seated, Live
    <3>3. Seating' \subseteq Seating \ {h}
      BY <1>0, <1>2, OthersKeep DEF Seating, Idle
    <3>4. Fits(Seated \cup {x}, Seating \ {h})
      BY <3>1, SeatsFinite, MovedFit
    <3>5. IsFiniteSet(Seated \cup {x}) /\ IsFiniteSet(Seating \ {h})
      BY SeatsFinite, FS_AddElement, FS_RemoveElement
    <3> QED
      BY <3>2, <3>3, <3>4, <3>5, FewerFit
  <2> QED
    BY <2>4, <2>5
<1>3. ASSUME NEW h \in Handlers, WriteRow(h) PROVE Fits(Seated', Seating')
  <2>1. PICK x \in Rows : x = requests[h].row /\ members[x].state = "live"
    BY <1>3, WriteEffect DEF Live
  <2>2. \A r \in Rows : r # x => members'[r] = members[r]
    BY <1>0, <1>3, <2>1, WriteEffect DEF TypeOK
  <2>3. x \in Seated' => x \in Seated
    BY <1>0, <1>3, <2>1, OwnersNoted DEF Seated, RowsSound, Live
  <2>4. Seated' \subseteq Seated
    BY <1>3, <2>2, <2>3, OwnersNoted DEF Seated, Live
  <2>5. Seating' \subseteq Seating
    BY <1>0, <1>3, OthersKeep DEF Seating, Idle
  <2> QED
    BY <2>4, <2>5, SeatsFinite, FewerFit
<1>4. ASSUME NEW h \in Handlers, NEW listed \in BOOLEAN, GuardRow(h, listed)
      PROVE  Fits(Seated', Seating')
  <2>1. Seated' = Seated
    BY <1>1, <1>4 DEF GuardRow
  <2>2. Seating' \subseteq Seating
    BY <1>0, <1>4, GuardEffect DEF Seating
  <2> QED
    BY <2>1, <2>2, SeatsFinite, FewerFit
<1>5. ASSUME NEW h \in Handlers, UNCHANGED <<members, everOwner, unguarded>>,
             NEW m, m = Idle \/ NewChecked(m) \/ RowLoaded(m),
             requests' = [requests EXCEPT ![h] = m]
      PROVE  Fits(Seated', Seating')
  <2>1. \A g \in Handlers : requests'[g] = IF g = h THEN m ELSE requests[g]
    BY <1>0, <1>5 DEF TypeOK
  <2>2. CASE NewChecked(m)
    <3>1. CountConsumedInviteSlots < UserLimit
      BY <2>2 DEF NewChecked, seatFor
    <3>2. Seating' \subseteq Handlers
      BY DEF Seating
    <3>3. Cardinality(Seating') <= Cardinality(Handlers) /\ Cardinality(Seating') \in Nat
      BY <3>2, MembershipAssumption, FS_Subset, FS_CardinalityType
    <3>4. Cardinality(Seated) + Cardinality(Seating') <= UserLimit + Cardinality(Handlers) - 1
      BY <3>1, <3>3, SeatsFinite, MembershipAssumption
    <3> QED
      BY <1>1, <1>5, <3>4 DEF Fits
  <2>3. CASE m.step # "checked"
    <3>1. Seating' \subseteq Seating
      BY <2>1, <2>3 DEF Seating
    <3> QED
      BY <1>1, <1>5, <3>1, SeatsFinite, FewerFit
  <2>4. RowLoaded(m) \/ m = Idle => m.step # "checked"
    BY DEF RowLoaded, Idle
  <2> QED
    BY <1>5, <2>2, <2>3, <2>4
<1>6. CASE UNCHANGED vars
  BY <1>6 DEF vars, Seated, Seating, Live
<1> QED
  BY <1>0, <1>2, <1>3, <1>4, <1>5, <1>6, Steps

\* The Free-plan limit is passed by no more invitations and grants than race.
THEOREM SeatsBounded == SpecApart => []SeatsOvershoot
<1>1. SeatsOvershoot <=> Fits(Seated, Seating)
  BY DEF SeatsOvershoot, Fits, Seated, Seating
<1>2. Init => Fits(Seated, Seating)
  <2> SUFFICES ASSUME Init PROVE Fits(Seated, Seating)
    OBVIOUS
  <2>1. Seated \subseteq {1} /\ Seating = {}
    BY DEF Init, Seated, Seating, Live, FreeRow, Idle
  <2>2. Cardinality({}) = 0 /\ Cardinality({1}) = 1 /\ IsFiniteSet({1}) /\ IsFiniteSet({})
    BY FS_EmptySet, FS_Singleton
  <2>3. Cardinality(Handlers) \in Nat /\ Cardinality(Handlers) # 0
    BY MembershipAssumption, SeatsFinite, FS_EmptySet
  <2>4. Fits({1}, {})
    BY <2>2, <2>3, MembershipAssumption DEF Fits
  <2>5. Seated \in SUBSET {1} /\ Seating \in SUBSET {}
    BY <2>1
  <2> QED
    BY <2>2, <2>4, <2>5, FewerFit
<1>3. IInv /\ Fits(Seated, Seating) /\ [Next /\ Apart']_vars => IInv' /\ Fits(Seated, Seating)'
  <2> SUFFICES ASSUME IInv, Fits(Seated, Seating), [Next /\ Apart']_vars
               PROVE  IInv' /\ Fits(Seated', Seating')
    BY DEF Fits
  <2> QED
    BY InvariantStep, SeatsStep
<1> QED
  BY <1>1, <1>2, <1>3, InitInvariant, PTL DEF SpecApart

-----------------------------------------------------------------------------
(* Access, for any number of requests and handlers, and any roles.  The    *)
(* parameters of that module are hypotheses of the theorems about it.      *)

CONSTANTS SSORoles, CustomRoles, Fallback, MaxChanges, MaxEdits, Gone, TokenPerms
VARIABLES catalog, rbac, changes

Gate == INSTANCE Access WITH Roles <- SSORoles

\* What a request and a handler may be doing.
Replied == [at: {"done"}, reply: {"none", "403", "503", "ok"}]
Reading == [at: {"read"}, row: Gate!Membership]
Priced == [at: {"fetched"}, row: Gate!Membership, perms: Gate!Versions]
          \cup [at: {"priced"}, row: Gate!Membership, perms: Gate!Perms]
ClientStates == Replied \cup Reading \cup Priced
Deleting == [at: {"deleting"}, role: SSORoles]
Changing == [at: {"loaded"}, op: Gate!Ops, was: Gate!Membership, next: Gate!Membership]
Written == [at: {"written"}, user: BOOLEAN, roles: SUBSET Gate!RoleIDs]
AdminStates == [at: {"idle"}] \cup Deleting \cup Changing \cup Written

\* The parts of the state that are not records.
Plain ==
    /\ row \in Gate!Membership
    /\ catalog \in [SSORoles -> Gate!Versions \cup {Gone}]
    /\ access \in {Miss} \cup Gate!Entry
    /\ rbac \in [SSORoles -> Gate!Versions \cup {Miss}]
    /\ changes \in 0..MaxChanges
    /\ excused \in BOOLEAN

GateType == /\ Plain
            /\ clients \in [Clients -> ClientStates]
            /\ admins \in [Admins -> AdminStates]

LEMMA GateStates == Gate!TypeOK <=> GateType
<1>1. ClientStates = [at: {"done"}, reply: {"none", "403", "503", "ok"}]
         \cup [at: {"read"}, row: Gate!Membership]
         \cup [at: {"fetched"}, row: Gate!Membership, perms: Gate!Versions]
         \cup [at: {"priced"}, row: Gate!Membership, perms: Gate!Perms]
  BY DEF ClientStates, Replied, Reading, Priced
<1>2. AdminStates = [at: {"idle"}] \cup [at: {"deleting"}, role: SSORoles]
         \cup [at: {"loaded"}, op: Gate!Ops, was: Gate!Membership, next: Gate!Membership]
         \cup [at: {"written"}, user: BOOLEAN, roles: SUBSET Gate!RoleIDs]
  BY DEF AdminStates, Deleting, Changing, Written
<1> QED
  BY <1>1, <1>2 DEF Gate!TypeOK, GateType, Plain

\* What a request carries at each of its steps.
LEMMA ClientShape ==
    ASSUME NEW q \in ClientStates
    PROVE  /\ q.at = "read" => q.row \in Gate!Membership
           /\ q.at = "fetched" => q.row \in Gate!Membership /\ q.perms \in Gate!Versions
           /\ q.at = "priced" => q.row \in Gate!Membership /\ q.perms \in Gate!Perms
           /\ q.at = "fetched" =>
                [q EXCEPT !.at = "priced"] = [at |-> "priced", row |-> q.row, perms |-> q.perms]
<1> QED
  BY DEF ClientStates, Replied, Reading, Priced

\* The replies and steps that the handlers of a request set.
LEMMA NewClientStates ==
    /\ \A reply \in {"none", "403", "503", "ok"} :
          Gate!Reply(reply) \in ClientStates /\ Gate!Reply(reply).at = "done"
    /\ \A s : Gate!decide(s) \in ClientStates /\ Gate!decide(s).at = "done"
    /\ \A m \in Gate!Membership : [at |-> "read", row |-> m] \in ClientStates
    /\ \A m \in Gate!Membership, v \in Gate!Versions :
          [at |-> "fetched", row |-> m, perms |-> v] \in ClientStates
    /\ \A m \in Gate!Membership, v \in Gate!Perms :
          [at |-> "priced", row |-> m, perms |-> v] \in ClientStates
<1>1. \A reply \in {"none", "403", "503", "ok"} :
          Gate!Reply(reply) \in ClientStates /\ Gate!Reply(reply).at = "done"
  BY DEF Gate!Reply, Replied, ClientStates
<1>2. \A s : Gate!decide(s) \in ClientStates /\ Gate!decide(s).at = "done"
  BY <1>1 DEF Gate!decide
<1> QED
  BY <1>1, <1>2 DEF ClientStates, Reading, Priced

\* An entry that was built from a membership.
LEMMA EntryOf ==
    ASSUME NEW m \in Gate!Membership, NEW v \in Gate!Perms
    PROVE  Gate!entryOf(m, v) \in Gate!Entry
<1>1. Gate!visible(m) \in {"none", "active", "blocked"} /\ m.role \in Gate!RoleIDs
  BY DEF Gate!Membership, Gate!visible
<1>2. NoRole \in Gate!RoleIDs
  BY DEF Gate!RoleIDs
<1> QED
  BY <1>1, <1>2 DEF Gate!Entry, Gate!entryOf

\* It agrees with every membership that looks like it, and memberships that look
\* alike agree with the same entries and look like the same memberships.
LEMMA LooksAlike ==
    ASSUME NEW m, NEW n, Gate!looksLike(m, n)
    PROVE  /\ \A v : Gate!matches(Gate!entryOf(m, v), n)
           /\ \A e : Gate!matches(e, m) <=> Gate!matches(e, n)
           /\ Gate!looksLike(n, m)
           /\ \A k : Gate!looksLike(k, m) <=> Gate!looksLike(k, n)
<1> QED
  BY DEF Gate!matches, Gate!entryOf, Gate!looksLike

LEMMA LooksLikeItself == \A m : Gate!looksLike(m, m)
  BY DEF Gate!looksLike

-----------------------------------------------------------------------------
(* A step of a request, and what it leaves alone. *)

Answering == <<row, catalog, admins, changes, excused>>

\* A request goes to a new state: it replies, or it learns more.  It stores in the
\* access cache only what it has read, and then it has no more to store.
ClientEffect(c) == \E s \in ClientStates :
    /\ clients' = [clients EXCEPT ![c] = s]
    /\ UNCHANGED Answering
    /\ rbac' \in [SSORoles -> Gate!Versions \cup {Miss}]
    /\ \/ /\ access' = access
          /\ s.at \in {"read", "fetched", "priced"} =>
                \/ s.row = row
                \/ clients[c].at \in {"read", "fetched"} /\ s.row = clients[c].row
       \/ /\ clients[c].at \in {"read", "priced"} /\ s.at = "done"
          /\ \E v \in Gate!Perms : access' = Gate!entryOf(clients[c].row, v)

LEMMA ClientStep ==
    ASSUME Gate!AccessAssumption, GateType, NEW c \in Clients,
           Gate!AccessHit(c) \/ Gate!AccessRead(c) \/ Gate!Proceed(c)
    PROVE  ClientEffect(c)
<1> USE DEF Answering, Gate!go
<1>1. clients[c] \in ClientStates
  BY DEF GateType
<1>2. /\ row \in Gate!Membership
      /\ catalog \in [SSORoles -> Gate!Versions \cup {Gone}]
      /\ rbac \in [SSORoles -> Gate!Versions \cup {Miss}]
  BY DEF GateType, Plain
<1>3. /\ Gate!Reply("403") \in ClientStates /\ Gate!Reply("403").at = "done"
      /\ Gate!Reply("503") \in ClientStates /\ Gate!Reply("503").at = "done"
      /\ \A s : Gate!decide(s) \in ClientStates /\ Gate!decide(s).at = "done"
  BY NewClientStates
<1>4. /\ Gate!Versions \subseteq Gate!Perms /\ 0 \in Gate!Versions
      /\ TokenPerms \in Gate!Perms
  BY DEF Gate!Perms, Gate!Versions, Gate!AccessAssumption
<1>5. CASE Gate!AccessHit(c)
  BY <1>2, <1>3, <1>5 DEF Gate!AccessHit, ClientEffect
<1>6. CASE Gate!AccessRead(c)
  <2>1. PICK s \in ClientStates : s = [at |-> "read", row |-> row]
    BY <1>2, NewClientStates
  <2> QED
    BY <1>2, <1>6, <2>1 DEF Gate!AccessRead, ClientEffect
<1>7. CASE Gate!AccessNone(c)
  BY <1>2, <1>3, <1>4, <1>7 DEF Gate!AccessNone, ClientEffect
<1>8. ASSUME clients[c].at = "read", NEW s \in ClientStates,
             clients' = [clients EXCEPT ![c] = s], s.row = clients[c].row,
             UNCHANGED <<row, catalog, access, rbac, admins, changes, excused>>
      PROVE  ClientEffect(c)
  BY <1>2, <1>8 DEF ClientEffect
<1>9. CASE Gate!RoleHit(c)
  <2> DEFINE m == clients[c].row
  <2>1. m \in Gate!Membership /\ m.role \in SSORoles
    BY <1>1, <1>9, ClientShape DEF Gate!RoleHit, Gate!Membership, Gate!RoleIDs
  <2>2. rbac[m.role] \in Gate!Perms
    BY <1>2, <1>4, <1>9, <2>1 DEF Gate!RoleHit
  <2>3. PICK s \in ClientStates : s = [at |-> "priced", row |-> m, perms |-> rbac[m.role]]
    BY <2>1, <2>2, NewClientStates
  <2> QED
    BY <1>8, <1>9, <2>3 DEF Gate!RoleHit
<1>10. CASE Gate!RoleFetched(c)
  <2> DEFINE m == clients[c].row
  <2>1. m \in Gate!Membership /\ m.role \in SSORoles
    BY <1>1, <1>10, ClientShape DEF Gate!RoleFetched, Gate!Membership, Gate!RoleIDs
  <2>2. catalog[m.role] \in Gate!Versions
    BY <1>2, <1>10, <2>1 DEF Gate!RoleFetched
  <2>3. PICK s \in ClientStates : s = [at |-> "fetched", row |-> m, perms |-> catalog[m.role]]
    BY <2>1, <2>2, NewClientStates
  <2> QED
    BY <1>8, <1>10, <2>3 DEF Gate!RoleFetched
<1>11. CASE Gate!RoleFallback(c)
  <2> DEFINE m == clients[c].row
  <2>1. m \in Gate!Membership
    BY <1>1, <1>11, ClientShape DEF Gate!RoleFallback
  <2>2. PICK s \in ClientStates : s = [at |-> "priced", row |-> m, perms |-> TokenPerms]
    BY <1>4, <2>1, NewClientStates
  <2> QED
    BY <1>8, <1>11, <2>2 DEF Gate!RoleFallback
<1>12. CASE Gate!RoleUnresolved(c)
  BY <1>2, <1>3, <1>12 DEF Gate!RoleUnresolved, ClientEffect
<1>13. CASE Gate!RoleStored(c)
  <2> DEFINE q == clients[c]
  <2>1. /\ q.at = "fetched" /\ q.row \in Gate!Membership /\ q.perms \in Gate!Versions
        /\ [q EXCEPT !.at = "priced"] = [at |-> "priced", row |-> q.row, perms |-> q.perms]
    BY <1>1, <1>13, ClientShape DEF Gate!RoleStored
  <2>2. PICK s \in ClientStates : s = [at |-> "priced", row |-> q.row, perms |-> q.perms]
    BY <1>4, <2>1, NewClientStates
  <2>3. rbac' \in [SSORoles -> Gate!Versions \cup {Miss}]
    BY <1>2, <1>13, <2>1 DEF Gate!RoleStored
  <2> QED
    BY <1>13, <2>1, <2>2, <2>3 DEF Gate!RoleStored, ClientEffect
<1>14. CASE Gate!AccessStored(c)
  <2>1. clients[c].at = "priced" /\ clients[c].perms \in Gate!Perms
    BY <1>1, <1>14, ClientShape DEF Gate!AccessStored
  <2> QED
    BY <1>2, <1>3, <1>14, <2>1 DEF Gate!AccessStored, ClientEffect
<1> QED
  BY <1>5, <1>6, <1>7, <1>9, <1>10, <1>11, <1>12, <1>13, <1>14 DEF Gate!Proceed

\* Requests leave the state of the type.
LEMMA ClientType ==
    ASSUME GateType, NEW c \in Clients, ClientEffect(c)
    PROVE  GateType'
<1>1. Plain /\ clients \in [Clients -> ClientStates] /\ admins \in [Admins -> AdminStates]
  BY DEF GateType
<1>2. access' \in {Miss} \cup Gate!Entry
  <2>1. CASE access' = access
    BY <1>1, <2>1 DEF Plain
  <2>2. CASE access' # access
    <3>1. clients[c].row \in Gate!Membership
      BY <1>1, <2>2, ClientShape DEF ClientEffect
    <3> QED
      BY <2>2, <3>1, EntryOf DEF ClientEffect
  <2> QED
    BY <2>1, <2>2
<1> QED
  BY <1>1, <1>2 DEF ClientEffect, Answering, Plain, GateType

-----------------------------------------------------------------------------
(* The steps of the handlers. *)

\* What the handlers carry.
LEMMA AdminShape ==
    ASSUME NEW q \in AdminStates
    PROVE  /\ q.at = "deleting" => q.role \in SSORoles
           /\ q.at = "loaded" => /\ q.op \in Gate!Ops
                                 /\ q.was \in Gate!Membership /\ q.next \in Gate!Membership
           /\ q.at = "written" => q.user \in BOOLEAN /\ q.roles \in SUBSET Gate!RoleIDs
<1> QED
  BY DEF AdminStates, Deleting, Changing, Written

LEMMA NewAdminStates ==
    /\ [at |-> "idle"] \in AdminStates
    /\ \A r \in SSORoles : [at |-> "deleting", role |-> r] \in AdminStates
    /\ \A u \in BOOLEAN, R \in SUBSET Gate!RoleIDs :
          [at |-> "written", user |-> u, roles |-> R] \in AdminStates
    /\ \A op \in Gate!Ops, m, n \in Gate!Membership :
          [at |-> "loaded", op |-> op, was |-> m, next |-> n] \in AdminStates
<1> QED
  BY DEF AdminStates, Deleting, Changing, Written

\* A copy that will be written without a delete of the user's entry looks like the
\* row it was made of.
Copied(op, m, n) ==
    \/ op # "quiet" /\ Gate!known(n)
    \/ op = "remove" /\ Gate!visible(m) = "none"
    \/ op # "remove" /\ Gate!looksLike(m, n)

CopiesSound == \A a \in Admins : admins[a].at = "loaded" =>
    Copied(admins[a].op, admins[a].was, admins[a].next)

GateInv == GateType /\ CopiesSound

\* The start of a handler that changes the membership.
LEMMA LoadStep ==
    ASSUME Gate!AccessAssumption, GateType, NEW a \in Admins, Gate!LoadMember(a)
    PROVE  \E op \in Gate!Ops, n \in Gate!Membership :
              Gate!Load(a, op, n) /\ Copied(op, row, n)
<1>1. /\ row \in Gate!Membership /\ row.status \in {"none", "pending", "active", "blocked"}
      /\ changes \in 0..MaxChanges /\ MaxChanges \in Nat
  BY DEF GateType, Plain, Gate!Membership, Gate!AccessAssumption
<1>2. /\ \A m : Gate!known(m) <=> m.status \in {"active", "blocked"}
      /\ \A m \in Gate!Membership : ~Gate!known(m) => Gate!visible(m) = "none"
  BY DEF Gate!known, Gate!visible, Gate!Membership
<1> USE DEF Gate!Ops
<1>3. CASE \E s \in {"pending", "active", "blocked"}, r \in SSORoles : Gate!AddMember(a, s, r)
  <2>1. PICK s \in {"pending", "active", "blocked"}, r \in SSORoles : Gate!AddMember(a, s, r)
    BY <1>3
  <2>2. PICK n : n = [id |-> changes + 1, status |-> s, role |-> r]
    OBVIOUS
  <2>3. n \in Gate!Membership
    BY <1>1, <2>1, <2>2 DEF Gate!AddMember, Gate!Load, Gate!Membership, Gate!RoleIDs
  <2>4. row.status = "none" /\ Gate!Load(a, "add", n)
    BY <2>1, <2>2 DEF Gate!AddMember
  <2>5. Copied("add", row, n)
    BY <1>1, <1>2, <2>3, <2>4 DEF Copied, Gate!looksLike
  <2> QED
    BY <2>3, <2>4, <2>5
<1>4. CASE \E r \in SSORoles : Gate!UpdateMemberRole(a, r)
  <2>1. PICK r \in SSORoles : Gate!UpdateMemberRole(a, r)
    BY <1>4
  <2>2. PICK n : n = [row EXCEPT !.role = r]
    OBVIOUS
  <2>3. n \in Gate!Membership /\ n.status = row.status
    BY <1>1, <2>2 DEF Gate!Membership, Gate!RoleIDs
  <2>4. Gate!Load(a, "save", n)
    BY <2>1, <2>2 DEF Gate!UpdateMemberRole
  <2>5. Copied("save", row, n)
    BY <1>1, <1>2, <2>3 DEF Copied, Gate!looksLike
  <2> QED
    BY <2>3, <2>4, <2>5
<1>5. CASE \E s \in {"active", "blocked"} : Gate!SetMemberActive(a, s)
  <2>1. PICK s \in {"active", "blocked"} : Gate!SetMemberActive(a, s)
    BY <1>5
  <2>2. PICK n : n = IF Gate!known(row) THEN [row EXCEPT !.status = s] ELSE row
    OBVIOUS
  <2>3. n \in Gate!Membership /\ (Gate!known(n) \/ n = row)
    BY <1>1, <1>2, <2>2 DEF Gate!Membership
  <2>4. Gate!Load(a, "save", n)
    BY <2>1, <2>2 DEF Gate!SetMemberActive
  <2>5. Copied("save", row, n)
    BY <2>3, LooksLikeItself DEF Copied
  <2> QED
    BY <2>3, <2>4, <2>5
<1>6. CASE \E s \in {"active", "blocked"} : Gate!AcceptInvite(a, s)
  <2>1. PICK s \in {"active", "blocked"} : Gate!AcceptInvite(a, s)
    BY <1>6
  <2>2. PICK n : n = [row EXCEPT !.status = s]
    OBVIOUS
  <2>3. n \in Gate!Membership /\ Gate!known(n)
    BY <1>1, <1>2, <2>2 DEF Gate!Membership
  <2>4. Gate!Load(a, "accept", n)
    BY <2>1, <2>2 DEF Gate!AcceptInvite
  <2>5. Copied("accept", row, n)
    BY <2>3 DEF Copied
  <2> QED
    BY <2>3, <2>4, <2>5
<1>7. CASE Gate!UpdateMemberProfile(a)
  <2>1. Gate!Load(a, "quiet", row) /\ Copied("quiet", row, row)
    BY <1>7, LooksLikeItself DEF Gate!UpdateMemberProfile, Copied
  <2> QED
    BY <1>1, <2>1
<1>8. CASE Gate!RemoveMember(a)
  <2>1. Gate!Load(a, "remove", row) /\ Copied("remove", row, row)
    BY <1>1, <1>2, <1>8 DEF Gate!RemoveMember, Copied
  <2> QED
    BY <1>1, <2>1
<1> QED
  BY <1>3, <1>4, <1>5, <1>6, <1>7, <1>8 DEF Gate!LoadMember

\* What a handler that writes leaves: a membership that looks like the one before,
\* or a delete of the user's entry to come, or an excuse.
LEMMA WriteStep ==
    ASSUME Gate!AccessAssumption, GateInv, NEW a \in Admins, Gate!WriteMember(a)
    PROVE  /\ row' \in Gate!Membership /\ excused' \in BOOLEAN
           /\ \E s \in AdminStates :
                 /\ admins' = [admins EXCEPT ![a] = s]
                 /\ s.at # "loaded"
                 /\ \/ s.at = "written" /\ s.user
                    \/ excused'
                    \/ Gate!looksLike(row, row') /\ excused' = excused
           /\ UNCHANGED <<catalog, access, rbac, clients, changes>>
<1>1. /\ row \in Gate!Membership /\ excused \in BOOLEAN /\ admins[a] \in AdminStates
  BY DEF GateInv, GateType, Plain
<1>2. PICK q : q = admins[a]
  OBVIOUS
<1>3. /\ q.at = "loaded" /\ q.op \in Gate!Ops
      /\ q.was \in Gate!Membership /\ q.next \in Gate!Membership
      /\ Copied(q.op, q.was, q.next)
  BY <1>1, <1>2, AdminShape DEF Gate!WriteMember, GateInv, CopiesSound
<1>4. Gate!NoMembership \in Gate!Membership /\ Gate!visible(Gate!NoMembership) = "none"
  BY DEF Gate!AccessAssumption, Gate!NoMembership, Gate!Membership, Gate!RoleIDs, Gate!visible
<1>5. Gate!WriteMember(a) =>
        /\ row' = Gate!written(q)
        /\ excused' = (excused \/ (row # q.was /\ ~Gate!looksLike(row, row') /\ ~Gate!deletesUser(q)))
        /\ UNCHANGED <<catalog, access, rbac, clients, changes>>
  BY <1>2 DEF Gate!WriteMember
<1>6. Gate!written(q) \in Gate!Membership
  <2>1. [q.next EXCEPT !.id = row.id] \in Gate!Membership
    BY <1>1, <1>3 DEF Gate!Membership
  <2> QED
    BY <1>1, <1>3, <1>4, <2>1 DEF Gate!written
<1>7. PICK u \in BOOLEAN : u <=> Gate!deletesUser(q)
  OBVIOUS
<1>8. PICK s \in AdminStates : /\ admins' = [admins EXCEPT ![a] = s]
                               /\ s.at # "loaded"
                               /\ Gate!deletesUser(q) => s.at = "written" /\ s.user
  <2> DEFINE keys == [at |-> "written", user |-> Gate!deletesUser(q), roles |-> Gate!deletesRoles(q)]
  <2>1. Gate!deletesUser(q) \in BOOLEAN
    BY DEF Gate!deletesUser, Gate!known
  <2>2. Gate!deletesRoles(q) \in SUBSET Gate!RoleIDs
    BY <1>3 DEF Gate!deletesRoles, Gate!Membership
  <2>3. keys \in AdminStates /\ keys.at = "written" /\ keys.user = Gate!deletesUser(q)
    BY <2>1, <2>2, NewAdminStates
  <2>4. admins' = [admins EXCEPT ![a] =
                     IF keys.user \/ keys.roles # {} THEN keys ELSE [at |-> "idle"]]
    BY <1>2 DEF Gate!WriteMember
  <2> HIDE DEF keys
  <2> QED
    BY <2>3, <2>4, NewAdminStates
<1>9. row = q.was /\ ~Gate!deletesUser(q) => Gate!looksLike(row, row')
  <2> SUFFICES ASSUME row = q.was, ~Gate!deletesUser(q) PROVE Gate!looksLike(row, Gate!written(q))
    BY <1>5
  <2>1. ~(q.op # "quiet" /\ Gate!known(q.next))
    BY DEF Gate!deletesUser
  <2>2. CASE q.op = "remove"
    <3>1. Gate!visible(row) = "none" /\ Gate!written(q) = Gate!NoMembership
      BY <1>3, <2>1, <2>2 DEF Copied, Gate!written
    <3> QED
      BY <1>4, <3>1 DEF Gate!looksLike
  <2>3. CASE q.op # "remove"
    <3>1. Gate!looksLike(row, q.next)
      BY <1>3, <2>1, <2>3 DEF Copied
    <3>2. PICK n \in Gate!Membership : n = [q.next EXCEPT !.id = row.id]
      BY <1>1, <1>3 DEF Gate!Membership
    <3>3. n.status = q.next.status /\ n.role = q.next.role
      BY <1>3, <3>2 DEF Gate!Membership
    <3>4. Gate!looksLike(row, n)
      BY <3>1, <3>3 DEF Gate!looksLike, Gate!visible
    <3> QED
      BY <2>3, <3>1, <3>2, <3>4 DEF Gate!written
  <2> QED
    BY <2>2, <2>3
<1>10. excused' \in BOOLEAN
  BY <1>1, <1>5
<1>11. CASE Gate!deletesUser(q)
  BY <1>5, <1>6, <1>8, <1>10, <1>11
<1>12. CASE ~Gate!deletesUser(q) /\ Gate!looksLike(row, row')
  <2>1. excused' = excused
    BY <1>1, <1>5, <1>12
  <2> QED
    BY <1>5, <1>6, <1>8, <1>10, <1>12, <2>1
<1>13. CASE ~Gate!deletesUser(q) /\ ~Gate!looksLike(row, row')
  <2>1. excused'
    BY <1>1, <1>5, <1>9, <1>13
  <2> QED
    BY <1>5, <1>6, <1>8, <1>10, <2>1
<1> QED
  BY <1>11, <1>12, <1>13

AdminMoves(a) ==
    \/ Gate!LoadMember(a)
    \/ Gate!WriteMember(a)
    \/ \E r \in SSORoles : Gate!UpdateRole(a, r) \/ Gate!DeleteRoleCheck(a, r)
    \/ Gate!DeleteRole(a)
    \/ Gate!Finish(a)
    \/ Gate!GiveUp(a)

\* Handlers leave the state of the type, and their copies sound.
LEMMA AdminType ==
    ASSUME Gate!AccessAssumption, GateInv, NEW a \in Admins, AdminMoves(a)
    PROVE  GateInv'
<1>1. Plain /\ clients \in [Clients -> ClientStates] /\ admins \in [Admins -> AdminStates]
  BY DEF GateInv, GateType
<1>2. ASSUME Plain', UNCHANGED clients,
             NEW s \in AdminStates, admins' = [admins EXCEPT ![a] = s],
             s.at = "loaded" => Copied(s.op, s.was, s.next)
      PROVE  GateInv'
  <2>1. GateType'
    BY <1>1, <1>2 DEF GateType
  <2>2. ASSUME NEW b \in Admins, admins'[b].at = "loaded"
        PROVE  Copied(admins'[b].op, admins'[b].was, admins'[b].next)
    BY <1>1, <1>2, <2>2 DEF GateInv, CopiesSound
  <2>3. CopiesSound'
    BY <2>2 DEF CopiesSound, Copied, Gate!known, Gate!visible, Gate!looksLike
  <2> QED
    BY <2>1, <2>3 DEF GateInv
<1>3. CASE Gate!LoadMember(a)
  <2>1. PICK op \in Gate!Ops, n \in Gate!Membership : Gate!Load(a, op, n) /\ Copied(op, row, n)
    BY <1>1, <1>3, LoadStep DEF GateInv
  <2>2. PICK s \in AdminStates : s = [at |-> "loaded", op |-> op, was |-> row, next |-> n]
    BY <1>1, NewAdminStates DEF Plain
  <2>3. s.op = op /\ s.was = row /\ s.next = n
    BY <2>2
  <2>4. Plain'
    BY <1>1, <2>1 DEF Plain, Gate!Load, Gate!AccessAssumption
  <2> QED
    BY <1>2, <2>1, <2>2, <2>3, <2>4 DEF Gate!Load
<1>4. CASE Gate!WriteMember(a)
  <2>1. Plain'
    BY <1>1, <1>4, WriteStep DEF Plain
  <2> QED
    BY <1>2, <1>4, <2>1, WriteStep
<1>5. CASE \E r \in SSORoles : Gate!UpdateRole(a, r)
  <2>1. PICK r \in SSORoles : Gate!UpdateRole(a, r)
    BY <1>5
  <2>2. PICK s \in AdminStates : s = [at |-> "written", user |-> FALSE, roles |-> {r}]
    BY NewAdminStates DEF Gate!RoleIDs
  <2>3. catalog[r] + 1 \in Gate!Versions
    BY <2>1 DEF Gate!UpdateRole, Gate!Versions, Gate!AccessAssumption
  <2>4. Plain'
    BY <1>1, <2>1, <2>3 DEF Plain, Gate!UpdateRole
  <2> QED
    BY <1>2, <2>1, <2>2, <2>4 DEF Gate!UpdateRole
<1>6. CASE \E r \in SSORoles : Gate!DeleteRoleCheck(a, r)
  <2>1. PICK r \in SSORoles : Gate!DeleteRoleCheck(a, r)
    BY <1>6
  <2>2. PICK s \in AdminStates : s = [at |-> "deleting", role |-> r]
    BY NewAdminStates
  <2> QED
    BY <1>1, <1>2, <2>1, <2>2 DEF Plain, Gate!DeleteRoleCheck
<1>7. CASE Gate!DeleteRole(a)
  <2>1. admins[a].role \in SSORoles
    BY <1>1, <1>7, AdminShape DEF Gate!DeleteRole
  <2>2. PICK s \in AdminStates : s = [at |-> "written", user |-> FALSE, roles |-> {admins[a].role}]
    BY <2>1, NewAdminStates DEF Gate!RoleIDs
  <2>3. Plain'
    BY <1>1, <1>7, <2>1 DEF Plain, Gate!DeleteRole
  <2> QED
    BY <1>2, <1>7, <2>2, <2>3 DEF Gate!DeleteRole
<1>8. CASE Gate!Finish(a) \/ Gate!GiveUp(a)
  <2>1. PICK s \in AdminStates : s = [at |-> "idle"]
    BY NewAdminStates
  <2>2. CASE Gate!Invalidate(a)
    <3>1. admins[a].user \in BOOLEAN
      BY <1>1, <2>2, AdminShape DEF Gate!Invalidate
    <3>2. Plain'
      BY <1>1, <2>2, <3>1 DEF Plain, Gate!Invalidate
    <3> QED
      BY <1>2, <2>1, <2>2, <3>2 DEF Gate!Invalidate
  <2>3. CASE Gate!LoseInvalidation(a)
    <3>1. admins[a].user \in BOOLEAN
      BY <1>1, <2>3, AdminShape DEF Gate!LoseInvalidation
    <3>2. Plain'
      BY <1>1, <2>3, <3>1 DEF Plain, Gate!LoseInvalidation
    <3> QED
      BY <1>2, <2>1, <2>3, <3>2 DEF Gate!LoseInvalidation
  <2>4. CASE Gate!GiveUp(a)
    BY <1>1, <1>2, <2>1, <2>4 DEF Plain, Gate!GiveUp
  <2> QED
    BY <1>8, <2>2, <2>3, <2>4 DEF Gate!Finish
<1> QED
  BY <1>3, <1>4, <1>5, <1>6, <1>7, <1>8 DEF AdminMoves

\* What happens without a handler: an entry expires.
Passes == Gate!ExpireAccess \/ \E r \in SSORoles : Gate!ExpireRole(r)

\* Every step is one of these.
LEMMA GateSteps ==
    ASSUME Gate!AccessAssumption, GateType, Gate!Next
    PROVE  (\E c \in Clients : ClientEffect(c)) \/ (\E a \in Admins : AdminMoves(a)) \/ Passes
<1> QED
  BY ClientStep DEF Gate!Next, AdminMoves, Passes

LEMMA GateStep ==
    ASSUME Gate!AccessAssumption, GateInv, [Gate!Next]_(Gate!vars)
    PROVE  GateInv'
<1>1. GateType /\ CopiesSound
  BY DEF GateInv
<1>2. UNCHANGED admins => CopiesSound'
  BY <1>1 DEF CopiesSound, Copied, Gate!known, Gate!visible, Gate!looksLike
<1>3. CASE \E c \in Clients : ClientEffect(c)
  BY <1>1, <1>2, <1>3, ClientType DEF ClientEffect, Answering, GateInv
<1>4. CASE Passes
  BY <1>1, <1>2, <1>4 DEF Passes, GateInv, GateType, Plain, Gate!ExpireAccess, Gate!ExpireRole
<1>5. CASE UNCHANGED Gate!vars
  BY <1>1, <1>2, <1>5 DEF Gate!vars, GateInv, GateType, Plain
<1> QED
  BY <1>1, <1>3, <1>4, <1>5, GateSteps, AdminType

LEMMA GateInit == ASSUME Gate!AccessAssumption, Gate!Init PROVE GateInv
<1>1. 0 \in Gate!Versions /\ 0 \in 0..MaxChanges
  BY DEF Gate!AccessAssumption, Gate!Versions
<1>2. row \in Gate!Membership
  BY <1>1 DEF Gate!Init, Gate!Membership
<1>3. clients \in [Clients -> ClientStates]
  BY NewClientStates DEF Gate!Init
<1>4. admins \in [Admins -> AdminStates] /\ CopiesSound
  BY NewAdminStates DEF Gate!Init, CopiesSound
<1>5. Plain
  BY <1>1, <1>2 DEF Gate!Init, Plain
<1> QED
  BY <1>3, <1>4, <1>5 DEF GateInv, GateType

\* Every state of the gate has its type.
THEOREM GateTypeCorrect == ASSUME Gate!AccessAssumption PROVE Gate!Spec => []Gate!TypeOK
<1>1. GateInv /\ [Gate!Next]_(Gate!vars) => GateInv'
  BY GateStep
<1>2. GateInv => Gate!TypeOK
  BY GateStates DEF GateInv
<1> QED
  BY <1>1, <1>2, GateInit, PTL DEF Gate!Spec

-----------------------------------------------------------------------------
(* A stale access entry has an excuse. *)

\* The entry differs from the membership.
StaleEntry == access # Miss /\ ~Gate!matches(access, row)

\* A handler that has changed the user's access and has its deletes to make.  The
\* other handlers only delete the permissions of roles: they excuse nothing.
UserChange == \E a \in Admins : admins[a].at = "written" /\ admins[a].user

\* The entry is stale, or a request is about to make it so.
StaleExcused == StaleEntry \/ Gate!staleReaders # {} => excused \/ UserChange

LEMMA ClientExcused ==
    ASSUME GateType, StaleExcused, NEW c \in Clients, ClientEffect(c)
    PROVE  StaleExcused'
<1>1. clients \in [Clients -> ClientStates]
  BY DEF GateType
<1>2. UNCHANGED <<row, admins, excused>>
  BY DEF ClientEffect, Answering
<1>3. Gate!staleReaders' # {} => Gate!staleReaders # {}
  <2> SUFFICES ASSUME NEW d \in Gate!staleReaders' PROVE Gate!staleReaders # {}
    OBVIOUS
  <2>1. /\ d \in Clients /\ clients'[d].at \in {"read", "fetched", "priced"}
        /\ ~Gate!looksLike(clients'[d].row, row)
    BY <1>2 DEF Gate!staleReaders, Gate!looksLike, Gate!visible
  <2>2. CASE d # c
    <3>1. clients'[d] = clients[d]
      BY <1>1, <2>1, <2>2 DEF ClientEffect
    <3> QED
      BY <2>1, <3>1 DEF Gate!staleReaders
  <2>3. CASE d = c
    <3>1. PICK s \in ClientStates :
            /\ clients' = [clients EXCEPT ![c] = s]
            /\ s.at \in {"read", "fetched", "priced"} =>
                \/ s.row = row
                \/ clients[c].at \in {"read", "fetched"} /\ s.row = clients[c].row
      BY NewClientStates DEF ClientEffect
    <3>2. clients'[d] = s
      BY <1>1, <2>3, <3>1
    <3>3. s.row # row
      BY <2>1, <3>2, LooksLikeItself
    <3> QED
      BY <2>1, <2>3, <3>1, <3>2, <3>3 DEF Gate!staleReaders
  <2> QED
    BY <2>2, <2>3
<1>4. StaleEntry' => StaleEntry \/ Gate!staleReaders # {}
  <2>1. CASE access' = access
    BY <1>2, <2>1 DEF StaleEntry, Gate!matches, Gate!visible
  <2>2. CASE access' # access
    <3>1. PICK v \in Gate!Perms : access' = Gate!entryOf(clients[c].row, v)
      BY <2>2 DEF ClientEffect
    <3>2. clients[c].at \in {"read", "priced"}
      BY <2>2 DEF ClientEffect
    <3>3. ASSUME StaleEntry' PROVE ~Gate!matches(Gate!entryOf(clients[c].row, v), row)
      BY <1>2, <3>1, <3>3 DEF StaleEntry, Gate!matches, Gate!visible
    <3>4. ASSUME StaleEntry' PROVE c \in Gate!staleReaders
      BY <3>2, <3>3, <3>4, LooksAlike DEF Gate!staleReaders
    <3> QED
      BY <3>4
  <2> QED
    BY <2>1, <2>2
<1>5. UserChange' <=> UserChange
  BY <1>2 DEF UserChange
<1> QED
  BY <1>2, <1>3, <1>4, <1>5 DEF StaleExcused

LEMMA AdminExcused ==
    ASSUME Gate!AccessAssumption, GateInv, StaleExcused, NEW a \in Admins, AdminMoves(a)
    PROVE  StaleExcused'
<1>1. Plain /\ admins \in [Admins -> AdminStates]
  BY DEF GateInv, GateType
<1>2. ASSUME NEW s, admins' = [admins EXCEPT ![a] = s], ~(admins[a].at = "written" /\ admins[a].user),
             UserChange
      PROVE  UserChange'
  <2>1. PICK b \in Admins : admins[b].at = "written" /\ admins[b].user
    BY <1>2 DEF UserChange
  <2>2. b # a /\ admins'[b] = admins[b]
    BY <1>1, <1>2, <2>1
  <2> QED
    BY <2>1, <2>2 DEF UserChange
<1>3. ASSUME UNCHANGED <<access, row, clients>>
      PROVE  (StaleEntry' <=> StaleEntry) /\ Gate!staleReaders' = Gate!staleReaders
  BY <1>3 DEF StaleEntry, Gate!staleReaders, Gate!looksLike, Gate!matches, Gate!visible
<1>4. CASE Gate!WriteMember(a)
  <2>1. PICK s \in AdminStates :
          /\ admins' = [admins EXCEPT ![a] = s]
          /\ \/ s.at = "written" /\ s.user
             \/ excused'
             \/ Gate!looksLike(row, row') /\ excused' = excused
    BY <1>4, WriteStep
  <2>2. /\ admins[a].at = "loaded" /\ UNCHANGED <<access, clients>>
    BY <1>4 DEF Gate!WriteMember
  <2>3. CASE s.at = "written" /\ s.user
    BY <1>1, <2>1, <2>3 DEF StaleExcused, UserChange
  <2>4. CASE excused'
    BY <2>4 DEF StaleExcused
  <2>5. CASE Gate!looksLike(row, row') /\ excused' = excused
    <3>1. StaleEntry' => StaleEntry
      <4>1. StaleEntry' => access # Miss /\ ~Gate!matches(access, row')
        BY <2>2 DEF StaleEntry, Gate!matches, Gate!visible
      <4> QED
        BY <2>5, <4>1, LooksAlike DEF StaleEntry
    <3>2. ASSUME NEW d \in Gate!staleReaders' PROVE d \in Gate!staleReaders
      <4>1. /\ d \in Clients /\ clients[d].at \in {"read", "fetched", "priced"}
            /\ ~Gate!looksLike(clients[d].row, row')
        BY <2>2, <3>2 DEF Gate!staleReaders, Gate!looksLike, Gate!visible
      <4> QED
        BY <2>5, <4>1, LooksAlike DEF Gate!staleReaders
    <3>3. UserChange => UserChange'
      BY <1>2, <2>1, <2>2
    <3> QED
      BY <2>5, <3>1, <3>2, <3>3 DEF StaleExcused
  <2> QED
    BY <2>1, <2>3, <2>4, <2>5
<1>5. CASE \/ Gate!LoadMember(a)
           \/ \E r \in SSORoles : Gate!UpdateRole(a, r) \/ Gate!DeleteRoleCheck(a, r)
           \/ Gate!DeleteRole(a)
           \/ Gate!GiveUp(a)
  <2>1. /\ admins[a].at # "written"
        /\ UNCHANGED <<access, row, clients, excused>>
        /\ \E s : admins' = [admins EXCEPT ![a] = s]
    <3>1. CASE Gate!LoadMember(a)
      <4>1. PICK op \in Gate!Ops, n \in Gate!Membership : Gate!Load(a, op, n)
        BY <3>1, LoadStep DEF GateInv
      <4> QED
        BY <4>1 DEF Gate!Load
    <3>2. CASE ~Gate!LoadMember(a)
      BY <1>5, <3>2 DEF Gate!UpdateRole, Gate!DeleteRoleCheck, Gate!DeleteRole, Gate!GiveUp
    <3> QED
      BY <3>1, <3>2
  <2> QED
    BY <1>2, <1>3, <2>1 DEF StaleExcused
<1>6. CASE Gate!Invalidate(a)
  <2>1. Gate!staleReaders' = Gate!staleReaders
    BY <1>6 DEF Gate!Invalidate, Gate!staleReaders, Gate!looksLike, Gate!visible
  <2>2. CASE admins[a].user
    BY <1>6, <2>1, <2>2 DEF Gate!Invalidate, StaleExcused, StaleEntry
  <2>3. CASE ~admins[a].user
    <3>1. /\ UNCHANGED <<access, row, clients>>
          /\ excused' = (Gate!staleReaders # {} \/ excused)
          /\ admins' = [admins EXCEPT ![a] = [at |-> "idle"]]
      BY <1>6, <2>3 DEF Gate!Invalidate
    <3> QED
      BY <1>2, <1>3, <2>3, <3>1 DEF StaleExcused
  <2> QED
    BY <2>2, <2>3
<1>7. CASE Gate!LoseInvalidation(a)
  <2>1. CASE admins[a].user
    BY <1>7, <2>1 DEF Gate!LoseInvalidation, StaleExcused
  <2>2. CASE ~admins[a].user
    BY <1>2, <1>3, <1>7, <2>2 DEF Gate!LoseInvalidation, StaleExcused
  <2> QED
    BY <2>1, <2>2
<1> QED
  BY <1>4, <1>5, <1>6, <1>7 DEF AdminMoves, Gate!Finish

LEMMA PassExcused == ASSUME StaleExcused, Passes PROVE StaleExcused'
<1>1. CASE Gate!ExpireAccess
  BY <1>1 DEF Gate!ExpireAccess, StaleExcused, StaleEntry, Gate!staleReaders, Gate!looksLike,
     Gate!matches, Gate!visible
<1>2. CASE ~Gate!ExpireAccess
  <2>1. UNCHANGED <<access, row, clients, admins, excused>>
    BY <1>2 DEF Passes, Gate!ExpireRole
  <2> QED
    BY <2>1 DEF StaleExcused, StaleEntry, UserChange, Gate!staleReaders, Gate!looksLike,
       Gate!matches, Gate!visible
<1> QED
  BY <1>1, <1>2

\* A cached access that differs from the membership has its reason, for any number
\* of requests that race any number of handlers, those that save a row without
\* deleting a key included: the change is under way, a reader overtook the deletes,
\* they were lost, or a handler that deletes nothing wrote over another's change.
THEOREM StaleOnlyAfterARaceSound ==
    ASSUME Gate!AccessAssumption PROVE Gate!Spec => []StaleOnlyAfterARace
<1>1. GateInv /\ StaleExcused /\ [Gate!Next]_(Gate!vars) => GateInv' /\ StaleExcused'
  <2> SUFFICES ASSUME GateInv, StaleExcused, [Gate!Next]_(Gate!vars)
               PROVE  StaleExcused'
    BY GateStep
  <2>1. CASE Gate!Next
    BY <2>1, GateSteps, ClientExcused, AdminExcused, PassExcused DEF GateInv
  <2>2. CASE UNCHANGED Gate!vars
    BY <2>2 DEF Gate!vars, StaleExcused, StaleEntry, UserChange, Gate!staleReaders,
       Gate!looksLike, Gate!matches, Gate!visible
  <2> QED
    BY <2>1, <2>2
<1>2. Gate!Init => GateInv /\ StaleExcused
  <2> SUFFICES ASSUME Gate!Init PROVE StaleExcused
    BY GateInit
  <2>1. \A c \in Clients : clients[c].at = "done"
    BY NewClientStates DEF Gate!Init
  <2>2. Gate!staleReaders = {} /\ ~StaleEntry
    BY <2>1 DEF Gate!Init, Gate!staleReaders, StaleEntry
  <2> QED
    BY <2>2 DEF StaleExcused
<1>3. StaleExcused => StaleOnlyAfterARace
  BY DEF StaleExcused, StaleEntry, UserChange, StaleOnlyAfterARace, matches, visible,
         Gate!matches, Gate!visible
<1> QED
  BY <1>1, <1>2, <1>3, PTL DEF Gate!Spec

-----------------------------------------------------------------------------
(* Session, for any number of requests of a browser and of reissued tokens. *)

VARIABLE tokenCache

Door == INSTANCE Session

\* What a request may be doing.
Told == [at: {"done"}, reply: {"none", "401", "403", "503", "ok"}]
Asking == [at: {"asking"}, token: Tokens, retries: 0..1]
Valid == [at: {"valid"}, token: Tokens, carries: Tokens, account: {"good", "banned"}]

DoorType ==
    /\ session \in {"good", "banned", "dead"}
    /\ live \in Tokens /\ held \in Tokens
    /\ calls \in [Calls -> Told \cup Asking \cup Valid]
    /\ unheard \in BOOLEAN
    /\ tokenCache \in [Tokens -> {"none", "good", "banned"}]

LEMMA DoorStates == Door!TypeOK <=> DoorType
<1> QED
  BY DEF DoorType, Door!TypeOK, Door!Calling, Door!Tokens, Door!ssoTransientRetries, Tokens,
     Told, Asking, Valid

\* The step of a request tells what it carries.
LEMMA CallShape ==
    ASSUME NEW q \in Told \cup Asking \cup Valid
    PROVE  /\ q.at = "done" => q \in Told
           /\ q.at = "asking" => q \in Asking /\ q.token \in Tokens /\ q.retries \in 0..1
           /\ q.at = "valid" => /\ q.token \in Tokens /\ q.carries \in Tokens
                                /\ q.account \in {"good", "banned"}
<1> QED
  BY DEF Told, Asking, Valid

\* What a request becomes.
LEMMA NewCalls ==
    /\ \A reply \in {"none", "401", "403", "503", "ok"} :
          Door!Answered(reply) \in Told /\ Door!Answered(reply).at = "done"
    /\ \A v : /\ Door!admit(v) \in Told /\ Door!admit(v).at = "done"
              /\ Door!admit(v) # Answered("401")
    /\ Door!Answered("401") = Answered("401")
    /\ Door!Answered("503") # Answered("401")
    /\ \A t \in Tokens, n \in 0..1 : [at |-> "asking", token |-> t, retries |-> n] \in Asking
    /\ \A q \in Asking : q.retries # 0 =>
          /\ [q EXCEPT !.retries = @ - 1] \in Asking
          /\ [q EXCEPT !.retries = @ - 1].token = q.token
    /\ \A t, n \in Tokens, a \in {"good", "banned"} :
          [at |-> "valid", token |-> t, carries |-> n, account |-> a] \in Valid
    /\ \A q \in Asking : q.at = "asking" /\ q # Answered("401")
    /\ \A q \in Valid : q.at = "valid" /\ q # Answered("401")
<1>1. \A reply \in {"none", "401", "403", "503", "ok"} :
          Door!Answered(reply) \in Told /\ Door!Answered(reply).at = "done"
  BY DEF Door!Answered, Told
<1>2. Door!Answered("401") = Answered("401") /\ Door!Answered("503") # Answered("401")
      /\ Door!Answered("403") # Answered("401") /\ Door!Answered("ok") # Answered("401")
  BY DEF Door!Answered, Answered
<1>3. \A v : /\ Door!admit(v) \in Told /\ Door!admit(v).at = "done"
             /\ Door!admit(v) # Answered("401")
  BY <1>1, <1>2 DEF Door!admit
<1>4. \A q \in Asking : q.retries # 0 =>
          /\ [q EXCEPT !.retries = @ - 1] \in Asking
          /\ [q EXCEPT !.retries = @ - 1].token = q.token
  BY DEF Asking
<1>5. \A q \in Asking \cup Valid : q # Answered("401")
  BY DEF Asking, Valid, Answered
<1> QED
  BY <1>1, <1>2, <1>3, <1>4, <1>5 DEF Asking, Valid

\* A request that is to hand over a new token.
Handing(c) == calls[c].at = "valid" /\ calls[c].carries # calls[c].token

\* Unless an answer was lost: the browser is at most one token behind, and then
\* exactly one request is to hand the live one over; no request knows a token
\* that the browser has not had.
InStep ==
    unheard \/
        /\ held <= live
        /\ \A c \in Calls : calls[c].at \in {"asking", "valid"} => calls[c].token <= held
        /\ \A c \in Calls : Handing(c) => calls[c].carries = live /\ held # live
        /\ \A c, d \in Calls : Handing(c) /\ Handing(d) => c = d
        /\ held = live \/ \E c \in Calls : Handing(c)

\* A step of a request that shows, asks or is refused: nothing is handed over.
LEMMA QuietCall ==
    ASSUME DoorType, InStep, NEW c \in Calls, NEW s,
           calls' = [calls EXCEPT ![c] = s], UNCHANGED <<live, held, unheard>>,
           ~Handing(c), s.at \in {"done", "asking", "valid"},
           s.at = "valid" => s.carries = s.token,
           s.at \in {"asking", "valid"} =>
               s.token = held \/ (calls[c].at \in {"asking", "valid"} /\ s.token = calls[c].token)
    PROVE  InStep'
<1>1. /\ live \in Nat /\ held \in Nat
      /\ \A d \in Calls : calls'[d] = IF d = c THEN s ELSE calls[d]
  BY DEF DoorType, Tokens
<1>2. \A d \in Calls : Handing(d)' <=> Handing(d)
  BY <1>1 DEF Handing
<1>3. \A d \in Calls : Handing(d) => d # c
  OBVIOUS
<1>4. CASE unheard
  BY <1>4 DEF InStep
<1>5. CASE ~unheard
  <2>1. \A d \in Calls : calls'[d].at \in {"asking", "valid"} => calls'[d].token <= held'
    BY <1>1, <1>5 DEF InStep
  <2>2. \A d \in Calls : Handing(d) => calls'[d].carries = live' /\ held' # live'
    BY <1>1, <1>3, <1>5 DEF InStep
  <2> QED
    BY <1>2, <1>5, <2>1, <2>2 DEF InStep
<1> QED
  BY <1>4, <1>5

\* The steps of one request.
DoorCall(c) == Door!TokenHit(c) \/ Door!TokenMiss(c) \/ Door!Proceed(c)

\* A request is told 401 for a dead session or a replaced token.
Fair(d) == (calls[d] # Answered("401") /\ calls'[d] = Answered("401")) =>
               session = "dead" \/ calls[d].token # live

LEMMA CallStep ==
    ASSUME DoorType, InStep, NEW c \in Calls, DoorCall(c)
    PROVE  DoorType' /\ InStep' /\ \A d \in Calls : Fair(d)
<1> USE DEF Door!go
<1>1. /\ session \in {"good", "banned", "dead"}
      /\ live \in Tokens /\ held \in Tokens /\ Tokens = 0..MaxReissues
      /\ MaxReissues \in Nat
      /\ calls \in [Calls -> Told \cup Asking \cup Valid]
      /\ unheard \in BOOLEAN
      /\ tokenCache \in [Tokens -> {"none", "good", "banned"}]
  BY ReissuesAssumption DEF DoorType, Tokens
<1>2. calls[c] \in Told \cup Asking \cup Valid
  BY <1>1
<1>3. ASSUME NEW s \in Told \cup Asking \cup Valid, calls' = [calls EXCEPT ![c] = s],
             s = Answered("401") => session = "dead" \/ calls[c].token # live
      PROVE  (\A d \in Calls : Fair(d)) /\ calls' \in [Calls -> Told \cup Asking \cup Valid]
             /\ \A d \in Calls : calls'[d] = IF d = c THEN s ELSE calls[d]
  BY <1>1, <1>3 DEF Fair
<1>4. ASSUME NEW s \in Told \cup Asking \cup Valid, calls' = [calls EXCEPT ![c] = s],
             UNCHANGED <<session, live, held, unheard, tokenCache>>,
             ~Handing(c), s.at = "valid" => s.carries = s.token,
             s.at \in {"asking", "valid"} =>
                 s.token = held \/ (calls[c].at \in {"asking", "valid"} /\ s.token = calls[c].token),
             s = Answered("401") => session = "dead" \/ calls[c].token # live
      PROVE  DoorType' /\ InStep' /\ \A d \in Calls : Fair(d)
  <2>1. s.at \in {"done", "asking", "valid"}
    BY <1>4 DEF Told, Asking, Valid
  <2>2. InStep'
    BY <1>4, <2>1, QuietCall
  <2> QED
    BY <1>1, <1>3, <1>4, <2>2 DEF DoorType
<1>5. CASE Door!TokenHit(c)
  <2>1. PICK v : calls' = [calls EXCEPT ![c] = Door!admit(v)]
    BY <1>5 DEF Door!TokenHit
  <2> QED
    BY <1>4, <1>5, <2>1, NewCalls DEF Door!TokenHit, Handing
<1>6. CASE Door!TokenMiss(c)
  <2>1. PICK s \in Asking : /\ s = [at |-> "asking", token |-> held, retries |-> 1]
                            /\ calls' = [calls EXCEPT ![c] = s]
    <3>1. [at |-> "asking", token |-> held, retries |-> 1] \in Asking
      BY <1>1 DEF Asking
    <3> QED
      BY <1>6, <3>1 DEF Door!TokenMiss, Door!ssoTransientRetries
  <2>2. s.token = held
    BY <2>1
  <2> QED
    BY <1>4, <1>6, <2>1, <2>2, NewCalls DEF Door!TokenMiss, Handing
<1>7. CASE \E answer \in Door!unclear \cup {"401", "no success"} : Door!Refused(c, answer)
  <2>1. PICK answer : Door!Refused(c, answer)
    BY <1>7
  <2>2. PICK q \in Asking : q = calls[c]
    BY <1>2, <2>1, CallShape DEF Door!Refused
  <2>3. PICK s : s = IF ~Door!isTransientSSOError(answer) THEN Door!Answered("401")
                     ELSE IF q.retries = 0 THEN Door!Answered("503")
                     ELSE [q EXCEPT !.retries = @ - 1]
    OBVIOUS
  <2>4. calls' = [calls EXCEPT ![c] = s] /\ ~Handing(c)
        /\ UNCHANGED <<session, live, held, unheard, tokenCache>>
    BY <2>1, <2>2, <2>3 DEF Door!Refused, Handing
  <2>5. s \in Told \cup Asking /\ (s.at \in {"asking", "valid"} => s.at = "asking" /\ s.token = q.token)
    BY <2>3, NewCalls
  <2>6. s = Answered("401") => ~Door!isTransientSSOError(answer)
    BY <2>2, <2>3, NewCalls
  <2>7. s = Answered("401") => session = "dead" \/ q.token # live
    BY <2>1, <2>2, <2>6 DEF Door!Refused, Door!isTransientSSOError, Door!answersTo
  <2> QED
    BY <1>4, <2>2, <2>4, <2>5, <2>7, NewCalls
<1>8. CASE \E t \in Door!Tokens : Door!Validated(c, t)
  <2>1. PICK carries \in Tokens : Door!Validated(c, carries)
    BY <1>8 DEF Door!Tokens, Tokens
  <2>2. PICK q \in Asking : q = calls[c] /\ q.at = "asking" /\ q.token \in Tokens
    BY <1>2, <2>1, CallShape DEF Door!Validated
  <2>3. q.token = live /\ session \in {"good", "banned"}
    BY <1>1, <2>1, <2>2 DEF Door!Validated, Door!answersTo, Door!unclear
  <2> DEFINE v == [at |-> "valid", token |-> q.token, carries |-> carries, account |-> session]
  <2>4. v \in Valid /\ v.at = "valid" /\ v.token = live /\ v.carries = carries
    BY <2>2, <2>3, NewCalls
  <2>5. /\ calls' = [calls EXCEPT ![c] = v]
        /\ live' = carries /\ carries \in {live, live + 1}
        /\ UNCHANGED <<session, held, unheard, tokenCache>>
    BY <2>1, <2>2 DEF Door!Validated
  <2> HIDE DEF v
  <2>6. /\ \A d \in Calls : Fair(d)
        /\ calls' \in [Calls -> Told \cup Asking \cup Valid]
        /\ \A d \in Calls : calls'[d] = IF d = c THEN v ELSE calls[d]
    BY <1>3, <2>4, <2>5, NewCalls
  <2>7. DoorType'
    BY <1>1, <2>5, <2>6 DEF DoorType
  <2>8. ~unheard => held = live /\ \A d \in Calls : ~Handing(d)
    BY <1>1, <2>2, <2>3 DEF InStep
  <2>9. \A d \in Calls : Handing(d)' => d = c \/ Handing(d)
    BY <2>6 DEF Handing
  <2>10. Handing(c)' <=> carries # live
    BY <2>4, <2>6 DEF Handing
  <2>11. InStep'
    <3>1. CASE unheard
      BY <2>5, <3>1 DEF InStep
    <3>2. CASE ~unheard
      <4>1. held' = live /\ live' \in {live, live + 1} /\ live \in Nat
        BY <1>1, <2>5, <2>8, <3>2
      <4>2. \A d \in Calls : calls'[d].at \in {"asking", "valid"} => calls'[d].token <= held'
        BY <1>1, <2>4, <2>5, <2>6, <2>8, <3>2 DEF InStep
      <4>3. \A d \in Calls : Handing(d)' => d = c /\ carries # live
        BY <2>8, <2>9, <2>10, <3>2
      <4>4. calls'[c].carries = live'
        BY <2>4, <2>5, <2>6
      <4> QED
        BY <2>5, <2>10, <4>1, <4>2, <4>3, <4>4 DEF InStep
    <3> QED
      BY <3>1, <3>2
  <2> QED
    BY <2>6, <2>7, <2>11
<1>9. CASE Door!ReissueLost(c)
  <2>1. PICK q \in Asking : q = calls[c]
    BY <1>2, <1>9, CallShape DEF Door!ReissueLost
  <2>2. PICK s : s = IF q.retries = 0 THEN Door!Answered("503") ELSE [q EXCEPT !.retries = @ - 1]
    OBVIOUS
  <2>3. /\ calls' = [calls EXCEPT ![c] = s]
        /\ live < MaxReissues /\ live' = live + 1 /\ unheard' = TRUE
        /\ UNCHANGED <<session, held, tokenCache>>
    BY <1>9, <2>1, <2>2 DEF Door!ReissueLost
  <2>4. s \in Told \cup Asking /\ s # Answered("401")
    BY <2>2, NewCalls
  <2>5. (\A d \in Calls : Fair(d)) /\ calls' \in [Calls -> Told \cup Asking \cup Valid]
    BY <1>3, <2>3, <2>4
  <2>6. live' \in Tokens
    BY <1>1, <2>3
  <2> QED
    BY <1>1, <2>3, <2>5, <2>6 DEF DoorType, InStep
<1>10. CASE Door!TokenStored(c)
  <2>1. PICK q \in Valid : q = calls[c]
    BY <1>2, <1>10, CallShape DEF Door!TokenStored, Told, Asking
  <2>2. q.at = "valid" /\ q.token \in Tokens /\ q.carries \in Tokens /\ q.account \in {"good", "banned"}
    BY CallShape DEF Valid
  <2>3. PICK s \in Told : /\ s.at = "done" /\ s # Answered("401")
                          /\ calls' = [calls EXCEPT ![c] = s]
    BY <1>10, NewCalls DEF Door!TokenStored
  <2>4. /\ UNCHANGED <<session, live>>
        /\ tokenCache' \in {tokenCache, [tokenCache EXCEPT ![q.token] = q.account]}
        /\ \/ Handing(c) /\ held' = q.carries /\ unheard' = unheard
           \/ ~Handing(c) /\ held' = held /\ unheard' = unheard
           \/ Handing(c) /\ held' = held /\ unheard'
    <3>1. Handing(c) <=> q.carries # q.token
      BY <2>1, <2>2 DEF Handing
    <3> QED
      BY <1>10, <2>1, <3>1 DEF Door!TokenStored
  <2>5. /\ \A d \in Calls : Fair(d)
        /\ calls' \in [Calls -> Told \cup Asking \cup Valid]
        /\ \A d \in Calls : calls'[d] = IF d = c THEN s ELSE calls[d]
    BY <1>3, <2>3
  <2>6. tokenCache' \in [Tokens -> {"none", "good", "banned"}]
    BY <1>1, <2>2, <2>4
  <2>8. DoorType'
    BY <1>1, <2>2, <2>4, <2>5, <2>6 DEF DoorType
  <2>9. \A d \in Calls : Handing(d)' <=> d # c /\ Handing(d)
    BY <2>3, <2>5 DEF Handing
  <2>10. InStep'
    <3>1. CASE unheard'
      BY <3>1 DEF InStep
    <3>2. CASE ~unheard' /\ Handing(c)
      <4>1. ~unheard /\ held' = live' /\ held <= live /\ live' = live
        BY <2>1, <2>4, <3>2 DEF InStep
      <4>2. \A d \in Calls : ~Handing(d)'
        BY <2>9, <3>2, <4>1 DEF InStep
      <4>3. \A d \in Calls : calls[d].at \in {"asking", "valid"} => calls[d].token <= live
        <5>1. ASSUME NEW d \in Calls, calls[d].at \in {"asking", "valid"} PROVE calls[d].token <= live
          <6>1. calls[d].token \in Nat
            BY <1>1, <5>1, CallShape DEF Tokens
          <6>2. calls[d].token <= held /\ held \in Nat /\ live \in Nat
            BY <1>1, <4>1, <5>1 DEF InStep
          <6> QED
            BY <4>1, <6>1, <6>2
        <5> QED
          BY <5>1
      <4>4. live \in Nat
        BY <1>1
      <4> QED
        BY <2>3, <2>5, <4>1, <4>2, <4>3, <4>4 DEF InStep
    <3>3. CASE ~unheard' /\ ~Handing(c)
      <4>1. ~unheard /\ held' = held /\ live' = live
        BY <2>4, <3>3
      <4>2. \A d \in Calls : calls'[d].at \in {"asking", "valid"} => calls'[d].token <= held'
        BY <2>3, <2>5, <4>1 DEF InStep
      <4>3. \A d \in Calls : Handing(d)' <=> Handing(d)
        BY <2>9, <3>3
      <4>4. \A d \in Calls : Handing(d) => calls'[d].carries = calls[d].carries
        BY <2>5, <3>3
      <4> QED
        BY <4>1, <4>2, <4>3, <4>4 DEF InStep
    <3> QED
      BY <3>1, <3>2, <3>3
  <2> QED
    BY <2>5, <2>8, <2>10
<1> QED
  BY <1>5, <1>6, <1>7, <1>8, <1>9, <1>10 DEF DoorCall, Door!Proceed

\* Expiry and the end of a login touch no request.
LEMMA DoorStep ==
    ASSUME DoorType, InStep, [Door!Next]_(Door!vars)
    PROVE  DoorType' /\ InStep' /\ \A d \in Calls : Fair(d)
<1>1. CASE \E c \in Calls : DoorCall(c)
  BY <1>1, CallStep
<1>2. ASSUME UNCHANGED <<live, held, calls, unheard>>, session' \in {"good", "banned", "dead"},
             tokenCache' \in [Tokens -> {"none", "good", "banned"}]
      PROVE  DoorType' /\ InStep' /\ \A d \in Calls : Fair(d)
  BY <1>2 DEF DoorType, InStep, Handing, Fair
<1>3. CASE \E t \in Door!Tokens : Door!ExpireToken(t)
  <2>1. tokenCache' \in [Tokens -> {"none", "good", "banned"}]
    BY <1>3 DEF Door!ExpireToken, DoorType
  <2> QED
    BY <1>2, <1>3, <2>1 DEF Door!ExpireToken, DoorType
<1>4. CASE \E v \in {"banned", "dead"} : Door!Revoke(v)
  BY <1>2, <1>4 DEF Door!Revoke, DoorType
<1>5. CASE UNCHANGED Door!vars
  BY <1>2, <1>5 DEF Door!vars, DoorType
<1> QED
  BY <1>1, <1>3, <1>4, <1>5 DEF Door!Next, DoorCall

\* The browser begins with the live token.
LEMMA DoorInit == Door!Init => DoorType /\ InStep
<1> SUFFICES ASSUME Door!Init PROVE DoorType /\ InStep
  OBVIOUS
<1>1. \A c \in Calls : calls[c] = Door!Answered("none")
  BY DEF Door!Init
<1>2. \A c \in Calls : calls[c].at = "done"
  BY <1>1, NewCalls
<1>3. calls \in [Calls -> Told \cup Asking \cup Valid]
  BY NewCalls DEF Door!Init
<1>4. DoorType
  <2>1. 0 \in Tokens /\ Door!Tokens = Tokens
    BY ReissuesAssumption DEF Door!Tokens, Tokens
  <2> QED
    BY <1>3, <2>1 DEF Door!Init, DoorType
<1> QED
  BY <1>2, <1>4 DEF Door!Init, InStep, Handing

\* Every state of the door has its type.
THEOREM DoorTypeCorrect == Door!Spec => []Door!TypeOK
<1>1. DoorType /\ InStep /\ [Door!Next]_(Door!vars) => DoorType' /\ InStep'
  BY DoorStep
<1> QED
  BY <1>1, DoorInit, DoorStates, PTL DEF Door!Spec

\* However many requests are in flight, whatever the SSO answers or fails to: while
\* the login lives, a request is told 401 only if its token was replaced, and then
\* the browser has the new one or a request is about to hand it over, unless the
\* answer with it was lost.
THEOREM OutageNeverLogsAnyoneOut == Door!Spec => OutageNeverLogsOut
<1>2. DoorType /\ InStep /\ [Door!Next]_(Door!vars) => DoorType' /\ InStep'
  BY DoorStep
<1>3. DoorType /\ InStep /\ [Door!Next]_(Door!vars) =>
        [\A c \in Calls :
          (calls[c] # Answered("401") /\ calls'[c] = Answered("401")) =>
            \/ session = "dead"
            \/ /\ calls[c].token # live
               /\ \/ held = live
                  \/ unheard
                  \/ \E d \in Calls : calls[d].at = "valid" /\ calls[d].carries = live
        ]_<<session, live, held, calls, unheard>>
  <2> SUFFICES ASSUME DoorType, InStep, [Door!Next]_(Door!vars), NEW c \in Calls,
                      calls[c] # Answered("401"), calls'[c] = Answered("401")
               PROVE  \/ session = "dead"
                      \/ /\ calls[c].token # live
                         /\ \/ held = live
                            \/ unheard
                            \/ \E d \in Calls : calls[d].at = "valid" /\ calls[d].carries = live
    OBVIOUS
  <2>1. session = "dead" \/ calls[c].token # live
    BY DoorStep DEF Fair
  <2> QED
    BY <2>1 DEF InStep, Handing
<1> QED
  BY <1>2, <1>3, DoorInit, PTL DEF Door!Spec, OutageNeverLogsOut
=============================================================================
