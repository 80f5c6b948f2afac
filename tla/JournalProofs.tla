---------------------------- MODULE JournalProofs ---------------------------
(* Proofs about Journal for any number of entries, accounts, keys and      *)
(* concurrent handlers, and for any line lists.                            *)
EXTENDS Journal, SumTheorems, TLAPS

----------------------------------------------------------------------------
(* The inductive invariant of Spec. *)

\* Lines on their way into the table have been validated.
Validated == \A r \in Requests : requests[r].op \in Writing => validateLines(requests[r].lines)

\* A handler that changes an entry has read it.
Exists == \A r \in Requests :
    requests[r].op \in Changing => entries[requests[r].entry].row /= "absent"

\* One entry per key, deleted entries included.
KeysUnique == \A e, f \in Entries :
    /\ entries[e].row /= "absent" /\ entries[f].row /= "absent"
    /\ entries[e].key /= NoKey /\ entries[e].key = entries[f].key
    => e = f

\* e is, or was, the entry of the key.
Holds(e, key) == entries[e].row /= "absent" /\ entries[e].key = key

\* What was answered, or is about to be, is the entry of the key.
AnswersHold ==
    /\ \A x \in replies : Holds(x[2], x[1])
    /\ \A r \in Requests : requests[r].op = "answer" => Holds(requests[r].entry, requests[r].key)

IInv == TypeOK /\ Validated /\ Exists /\ KeysUnique /\ AnswersHold

----------------------------------------------------------------------------
(* The inductive invariant of SpecApart. *)

\* The header of an entry balances from its creation on.
HeadersBalanced == \A e \in Entries : entries[e].totalDebit = entries[e].totalCredit

\* What a handler has read of the entry it changes is still true.
StillRead == \A r \in Requests : requests[r].op \in Changing =>
    /\ Live(requests[r].entry)
    /\ entries[requests[r].entry].status = IF requests[r].op = "redraft" THEN "posted" ELSE "draft"

\* The lines about to be posted are those of the entry, and balance.
PostingHolds == \A r \in Requests : requests[r].op = "post" =>
    /\ requests[r].lines = entries[requests[r].entry].lines
    /\ TotalDebit(requests[r].lines) = TotalCredit(requests[r].lines)

\* Accounts of lines that have passed checkAccountsActive are not deleted.
Checked == {"create_tx", "insert", "update"}

AccountsStand == \A r \in Requests : requests[r].op \in Checked =>
    \A a \in AccountsOf(requests[r].lines) : accounts[a] /= "deleted"

\* An account about to be deleted is still unused.
StillUnused == \A r \in Requests : requests[r].op = "account_delete" =>
    \A e \in Entries : Live(e) => requests[r].account \notin AccountsOf(entries[e].lines)

IInvApart ==
    /\ TypeOK /\ Validated /\ Exists /\ Apart
    /\ HeadersBalanced /\ StillRead /\ PostingHolds
    /\ PostedImmutable /\ PostedBalanced
    /\ AccountsStand /\ StillUnused /\ NoDanglingAccount

----------------------------------------------------------------------------
(* Lines. *)

Line == [account : Accounts, debit : 0 .. MaxAmount, credit : 0 .. MaxAmount]

LEMMA SheetType ==
    ASSUME NEW s \in Sheets
    PROVE  s \in Seq(Line) /\ Len(s) \in Nat /\ DOMAIN s = 1 .. Len(s) /\ IsFiniteSet(DOMAIN s)
<1>1. s \in Seq(Line)
  BY SheetsAssumption DEF Line
<1>2. Len(s) \in Nat /\ DOMAIN s = 1 .. Len(s)
  BY <1>1
<1> QED
  BY <1>1, <1>2, FS_Interval

\* The totals of a line list are natural numbers.
LEMMA TotalsType ==
    ASSUME NEW s \in Sheets
    PROVE  TotalDebit(s) \in Nat /\ TotalCredit(s) \in Nat
<1> DEFINE d == [n \in DOMAIN s |-> s[n].debit]
           c == [n \in DOMAIN s |-> s[n].credit]
<1>1. \A n \in DOMAIN s : s[n] \in Line
  BY SheetType
<1>2. d \in [DOMAIN s -> Nat] /\ c \in [DOMAIN s -> Nat]
  BY <1>1, SheetsAssumption DEF Line
<1>3. TotalDebit(s) = SumOver(d, DOMAIN s) /\ TotalCredit(s) = SumOver(c, DOMAIN s)
  BY DEF TotalDebit, TotalCredit
<1> HIDE DEF d, c
<1> QED
  BY <1>2, <1>3, SheetType, SumType

\* Rounding keeps an amount natural.
LEMMA NumericType == ASSUME NEW n \in Nat PROVE Numeric(n) \in Nat
  BY DEF Numeric

\* Lines as stored name the accounts of the lines as sent.
LEMMA StoredAccounts ==
    ASSUME NEW s \in Sheets
    PROVE  AccountsOf(buildJournalLines(s)) = AccountsOf(s)
<1> DEFINE b == buildJournalLines(s)
<1>1. DOMAIN b = DOMAIN s
  BY DEF buildJournalLines
<1>2. ASSUME NEW n \in DOMAIN s PROVE b[n].account = s[n].account
  <2>1. s[n] \in Line
    BY SheetType
  <2> QED
    BY <2>1 DEF buildJournalLines, Line
<1> HIDE DEF b
<1>3. AccountsOf(b) = AccountsOf(s)
  BY <1>1, <1>2 DEF AccountsOf
<1> QED
  BY <1>3 DEF b

\* Validated lines are stored as a nonempty list.
LEMMA StoredNonempty ==
    ASSUME NEW s \in Sheets, validateLines(s)
    PROVE  buildJournalLines(s) \in Stored /\ buildJournalLines(s) /= <<>>
<1>1. 1 \in DOMAIN s
  BY SheetType DEF validateLines
<1>2. DOMAIN buildJournalLines(s) = DOMAIN s
  BY DEF buildJournalLines
<1>3. DOMAIN <<>> = {}
  OBVIOUS
<1> QED
  BY <1>1, <1>2, <1>3 DEF Stored

----------------------------------------------------------------------------
(* Type correctness, with Validated and Exists. *)

\* What a handler in flight has read is well typed.
LEMMA RequestType ==
    ASSUME TypeOK, NEW r \in Requests
    PROVE  LET m == requests[r] IN
           /\ m.op \in Writing => m.lines \in Sheets
           /\ m.op \in {"create_tx", "insert", "key_conflict"} =>
                  m.key \in Keys \cup {NoKey} /\ m.lines \in Sheets
           /\ m.op = "answer" => m.key \in Keys \cup {NoKey} /\ m.entry \in Entries
           /\ m.op \in Changing => m.entry \in Entries
           /\ m.op = "post" => m.lines \in Stored
           /\ m.op = "account_delete" => m.account \in Accounts
  BY DEF TypeOK, Request, NoRequest, Writing, Changing

\* A handler moves on to op with the lines and key, or entry, that it has.
LEMMA MovedType ==
    ASSUME TypeOK, NEW r \in Requests
    PROVE  /\ requests[r].op = "create_tx" =>
                  [requests[r] EXCEPT !.op = "insert"] =
                  [op |-> "insert", key |-> requests[r].key, lines |-> requests[r].lines]
           /\ requests[r].op = "insert" =>
                  [requests[r] EXCEPT !.op = "key_conflict"] =
                  [op |-> "key_conflict", key |-> requests[r].key, lines |-> requests[r].lines]
           /\ requests[r].op = "update_check" =>
                  [requests[r] EXCEPT !.op = "update"] =
                  [op |-> "update", entry |-> requests[r].entry, lines |-> requests[r].lines]
<1>1. requests[r] \in Request
  BY DEF TypeOK
<1>2. ASSUME requests[r].op = "create_tx"
      PROVE  [requests[r] EXCEPT !.op = "insert"] =
                  [op |-> "insert", key |-> requests[r].key, lines |-> requests[r].lines]
  BY <1>1, <1>2 DEF Request, NoRequest
<1>3. ASSUME requests[r].op = "insert"
      PROVE  [requests[r] EXCEPT !.op = "key_conflict"] =
                  [op |-> "key_conflict", key |-> requests[r].key, lines |-> requests[r].lines]
  BY <1>1, <1>3 DEF Request, NoRequest
<1>4. ASSUME requests[r].op = "update_check"
      PROVE  [requests[r] EXCEPT !.op = "update"] =
                  [op |-> "update", entry |-> requests[r].entry, lines |-> requests[r].lines]
  BY <1>1, <1>4 DEF Request, NoRequest
<1> QED
  BY <1>2, <1>3, <1>4

\* The database is well typed when it is empty.
LEMMA InitType == Init => TypeOK /\ Validated /\ Exists
  BY DEF Init, TypeOK, Validated, Exists, JournalEntry, Stored, Request, NoRequest,
         Writing, Changing

\* One handler r moves to m, and the rest of the requests stay.
LEMMA Moved ==
    ASSUME TypeOK, NEW r \in Requests, NEW m, Continue(r, m), NEW s \in Requests
    PROVE  requests'[s] = IF s = r THEN m ELSE requests[s]
  BY DEF Continue, TypeOK

\* What a handler starts, goes on with or ends.
LEMMA RequestSteps ==
    ASSUME TypeOK, Validated, Exists, [Next]_vars
    PROVE  \/ UNCHANGED requests
           \/ \E r \in Requests, m \in Request :
                 /\ Continue(r, m)
                 /\ m.op \in Writing => validateLines(m.lines)
                 /\ m.op \in Changing => entries[m.entry].row /= "absent"
                 /\ m.op = "answer" => entries'[m.entry].row /= "absent" /\ entries'[m.entry].key = m.key
<1> DEFINE Fine(m) ==
        /\ m \in Request
        /\ m.op \in Writing => validateLines(m.lines)
        /\ m.op \in Changing => entries[m.entry].row /= "absent"
        /\ m.op = "answer" => entries'[m.entry].row /= "absent" /\ entries'[m.entry].key = m.key
<1> SUFFICES ASSUME ~UNCHANGED requests
             PROVE  \E r \in Requests : \E m \in Request : Fine(m) /\ Continue(r, m)
  OBVIOUS
<1>0. Fine(NoRequest)
  BY DEF Request, NoRequest, Writing, Changing
<1>1. ASSUME NEW r \in Requests, NEW key \in Keys \cup {NoKey}, NEW s \in Sheets, CreateCheck(r, key, s)
      PROVE  \E m : Fine(m) /\ Continue(r, m)
  <2> DEFINE m == [op |-> "create_tx", key |-> key, lines |-> s]
  <2>1. Fine(m)
    BY <1>1 DEF CreateCheck, Request, Writing, Changing
  <2> QED
    BY <1>1, <2>1 DEF CreateCheck, Begin, Continue
<1>2. ASSUME NEW r \in Requests, NEW e \in Entries, NEW s \in Sheets, UpdateRead(r, e, s)
      PROVE  \E m : Fine(m) /\ Continue(r, m)
  <2> DEFINE m == [op |-> "update_check", entry |-> e, lines |-> s]
  <2>1. Fine(m)
    BY <1>2 DEF UpdateRead, Live, Request, Writing, Changing
  <2> QED
    BY <1>2, <2>1 DEF UpdateRead, Begin, Continue
<1>3. ASSUME NEW r \in Requests, NEW e \in Entries,
             DeleteRead(r, e) \/ PostRead(r, e) \/ BackToDraftRead(r, e)
      PROVE  \E m : Fine(m) /\ Continue(r, m)
  <2>1. PICK op \in {"delete", "post_check", "redraft"} :
            Live(e) /\ requests' = [requests EXCEPT ![r] = [op |-> op, entry |-> e]]
    BY <1>3 DEF DeleteRead, PostRead, BackToDraftRead, Begin
  <2> DEFINE m == [op |-> op, entry |-> e]
  <2>2. Fine(m)
    BY <2>1 DEF Live, Request, Writing, Changing
  <2> QED
    BY <2>1, <2>2 DEF Continue
<1>4. ASSUME NEW r \in Requests, NEW a \in Accounts, AccountDeleteCheck(r, a)
      PROVE  \E m : Fine(m) /\ Continue(r, m)
  <2> DEFINE m == [op |-> "account_delete", account |-> a]
  <2>1. Fine(m)
    BY DEF Request, Writing, Changing
  <2> QED
    BY <1>4, <2>1 DEF AccountDeleteCheck, Begin, Continue
<1>5. ASSUME NEW r \in Requests, CreateTx(r)
      PROVE  \E m : Fine(m) /\ Continue(r, m)
  <2>1. requests[r].op = "create_tx" /\ requests[r].key \in Keys \cup {NoKey}
        /\ requests[r].lines \in Sheets /\ validateLines(requests[r].lines)
    BY <1>5, RequestType DEF CreateTx, Validated, Writing
  <2>2. CASE Continue(r, [requests[r] EXCEPT !.op = "insert"])
    <3> DEFINE m == [op |-> "insert", key |-> requests[r].key, lines |-> requests[r].lines]
    <3>1. Fine(m)
      BY <2>1 DEF Request, Writing, Changing
    <3>2. [requests[r] EXCEPT !.op = "insert"] = m
      BY <2>1, MovedType
    <3> HIDE DEF m, Fine
    <3> QED
      BY <2>2, <3>1, <3>2
  <2>3. ASSUME NEW e \in WithKey(requests[r].key),
               Continue(r, [op |-> "answer", key |-> requests[r].key, entry |-> e])
        PROVE  \E m : Fine(m) /\ Continue(r, m)
    <3> DEFINE m == [op |-> "answer", key |-> requests[r].key, entry |-> e]
    <3>1. Fine(m)
      BY <1>5, <2>1, <2>3 DEF CreateTx, WithKey, Live, Request, Writing, Changing
    <3> HIDE DEF Fine
    <3> QED
      BY <2>3, <3>1
  <2> QED
    BY <1>5, <2>2, <2>3 DEF CreateTx
<1>6. ASSUME NEW r \in Requests, NEW e \in Entries, CreateInsert(r, e)
      PROVE  \E m : Fine(m) /\ Continue(r, m)
  <2> DEFINE m == [op |-> "answer", key |-> requests[r].key, entry |-> e]
  <2>1. Fine(m)
    BY <1>6, RequestType DEF CreateInsert, TypeOK, Request, Writing, Changing
  <2> HIDE DEF Fine
  <2> QED
    BY <1>6, <2>1 DEF CreateInsert
<1>7. ASSUME NEW r \in Requests, CreateConflict(r)
      PROVE  \E m : Fine(m) /\ Continue(r, m)
  <2> DEFINE m == [op |-> "key_conflict", key |-> requests[r].key, lines |-> requests[r].lines]
  <2>1. Fine(m)
    BY <1>7, RequestType DEF CreateConflict, Request, Writing, Changing
  <2>2. Continue(r, m)
    BY <1>7, MovedType DEF CreateConflict
  <2> HIDE DEF Fine
  <2> QED
    BY <2>1, <2>2
<1>8. ASSUME NEW r \in Requests, UpdateCheck(r)
      PROVE  \E m : Fine(m) /\ Continue(r, m)
  <2> DEFINE m == [op |-> "update", entry |-> requests[r].entry, lines |-> requests[r].lines]
  <2>1. Fine(m)
    BY <1>8, RequestType DEF UpdateCheck, Validated, Live, Request, Writing, Changing
  <2>2. Continue(r, m)
    BY <1>8, MovedType DEF UpdateCheck
  <2> HIDE DEF Fine
  <2> QED
    BY <2>1, <2>2
<1>9. ASSUME NEW r \in Requests, PostCheck(r)
      PROVE  \E m : Fine(m) /\ Continue(r, m)
  <2> DEFINE m == [op |-> "post", entry |-> requests[r].entry,
                   lines |-> entries[requests[r].entry].lines]
  <2>1. requests[r].entry \in Entries /\ entries[requests[r].entry].row /= "absent"
    BY <1>9, RequestType DEF PostCheck, Exists, Changing
  <2>2. entries[requests[r].entry].lines \in Stored
    BY <2>1 DEF TypeOK, JournalEntry
  <2>3. Fine(m)
    BY <2>1, <2>2 DEF Request, Writing, Changing
  <2> HIDE DEF Fine
  <2> QED
    BY <1>9, <2>3 DEF PostCheck
<1>10. ASSUME NEW r \in Requests,
             CreateAnswer(r) \/ UpdateCommit(r) \/ DeleteCommit(r) \/ SetStatus(r)
             \/ AccountDelete(r) \/ Abort(r)
      PROVE  \E m : Fine(m) /\ Continue(r, m)
  BY <1>0, <1>10
  DEF CreateAnswer, UpdateCommit, DeleteCommit, SetStatus, AccountDelete, Abort, Finish
<1>11. \E r \in Requests : \E m : Fine(m) /\ Continue(r, m)
  <2> HIDE DEF Fine
  <2> QED
    BY <1>1, <1>2, <1>3, <1>4, <1>5, <1>6, <1>7, <1>8, <1>9, <1>10
    DEF Next, vars, CreateReplay, AccountUpdate
<1> QED
  BY <1>11

\* Only these steps write entries.
LEMMA EntrySteps ==
    ASSUME [Next]_vars
    PROVE  \/ UNCHANGED <<entries, approved>>
           \/ \E r \in Requests : \/ \E e \in Entries : CreateInsert(r, e)
                                  \/ UpdateCommit(r) \/ DeleteCommit(r) \/ SetStatus(r)
  BY DEF Next, vars, CreateReplay, AccountUpdate, CreateCheck, UpdateRead, DeleteRead, PostRead,
         BackToDraftRead, AccountDeleteCheck, CreateTx, CreateConflict, CreateAnswer,
         UpdateCheck, PostCheck, AccountDelete, Abort

\* Each write leaves every entry well typed, and none becomes absent.
LEMMA EntryType ==
    ASSUME TypeOK, Validated, Exists, [Next]_vars
    PROVE  /\ entries' \in [Entries -> JournalEntry]
           /\ approved' \in [Entries -> Stored]
           /\ \A e \in Entries : entries'[e].row = "absent" <=> entries'[e].lines = <<>>
           /\ \A e \in Entries : entries'[e].row = "absent" => entries[e].row = "absent"
<1> DEFINE Rows ==
        /\ entries' \in [Entries -> JournalEntry]
        /\ approved' \in [Entries -> Stored]
        /\ \A e \in Entries : entries'[e].row = "absent" <=> entries'[e].lines = <<>>
        /\ \A e \in Entries : entries'[e].row = "absent" => entries[e].row = "absent"
<1> SUFFICES Rows
  OBVIOUS
<1>1. CASE UNCHANGED <<entries, approved>>
  BY <1>1 DEF TypeOK
<1>2. ASSUME NEW r \in Requests, NEW e \in Entries, CreateInsert(r, e)
      PROVE  Rows
  <2>1. /\ requests[r].key \in Keys \cup {NoKey} /\ requests[r].lines \in Sheets
        /\ validateLines(requests[r].lines)
    BY <1>2, RequestType DEF CreateInsert, Validated, Writing
  <2>2. /\ Numeric(TotalDebit(requests[r].lines)) \in Nat
        /\ Numeric(TotalCredit(requests[r].lines)) \in Nat
    BY <2>1, TotalsType, NumericType
  <2>3. buildJournalLines(requests[r].lines) \in Stored /\ buildJournalLines(requests[r].lines) /= <<>>
    BY <2>1, StoredNonempty
  <2>4. entries' \in [Entries -> JournalEntry]
    BY <1>2, <2>1, <2>2, <2>3 DEF CreateInsert, TypeOK, JournalEntry
  <2> QED
    BY <1>2, <2>3, <2>4 DEF CreateInsert, TypeOK
<1>3. ASSUME NEW r \in Requests, UpdateCommit(r)
      PROVE  Rows
  <2>1. /\ requests[r].entry \in Entries /\ requests[r].lines \in Sheets
        /\ validateLines(requests[r].lines) /\ entries[requests[r].entry].row /= "absent"
    BY <1>3, RequestType DEF UpdateCommit, Validated, Exists, Writing, Changing
  <2>2. PICK e \in Entries : e = requests[r].entry
    BY <2>1
  <2>3. PICK d \in Nat, c \in Nat :
            d = Numeric(TotalDebit(requests[r].lines)) /\ c = Numeric(TotalCredit(requests[r].lines))
    BY <2>1, TotalsType, NumericType
  <2>4. PICK b \in Stored : b = buildJournalLines(requests[r].lines) /\ b /= <<>>
    BY <2>1, StoredNonempty
  <2>5. entries[e] \in JournalEntry
    BY DEF TypeOK
  <2>6. entries'[e] = IF ~Live(e) THEN [entries[e] EXCEPT !.lines = b]
                      ELSE [entries[e] EXCEPT !.lines = b, !.totalDebit = d, !.totalCredit = c]
    BY <1>3, <2>2, <2>3, <2>4, <2>5 DEF UpdateCommit, TypeOK
  <2>7. /\ entries' = [entries EXCEPT ![e] = entries'[e]]
        /\ UNCHANGED approved
    BY <1>3, <2>2, <2>3, <2>4, <2>5 DEF UpdateCommit, TypeOK
  <2>8. entries'[e] \in JournalEntry /\ entries'[e].row = entries[e].row /\ entries'[e].lines = b
    BY <2>5, <2>6 DEF JournalEntry
  <2>9. \A x \in Entries : x /= e => entries'[x] = entries[x]
    BY <2>7 DEF TypeOK
  <2>10. entries' \in [Entries -> JournalEntry]
    BY <2>7, <2>8 DEF TypeOK
  <2> QED
    BY <2>1, <2>2, <2>4, <2>7, <2>8, <2>9, <2>10 DEF TypeOK
<1>4. ASSUME NEW r \in Requests, DeleteCommit(r)
      PROVE  Rows
  <2>1. PICK e \in Entries : e = requests[r].entry /\ entries[e].row = "live"
    BY <1>4, RequestType DEF DeleteCommit, Changing, Live
  <2>2. [entries[e] EXCEPT !.row = "deleted"] \in JournalEntry
    BY DEF TypeOK, JournalEntry
  <2>3. /\ entries'[e] = [entries[e] EXCEPT !.row = "deleted"]
        /\ \A x \in Entries : x /= e => entries'[x] = entries[x]
        /\ entries' \in [Entries -> JournalEntry]
        /\ UNCHANGED approved
    BY <1>4, <2>1, <2>2 DEF DeleteCommit, TypeOK
  <2>4. entries'[e].row = "deleted" /\ entries'[e].lines = entries[e].lines
    BY <2>3 DEF TypeOK, JournalEntry
  <2>5. \A x \in Entries : entries[x].row = "absent" <=> entries[x].lines = <<>>
    BY DEF TypeOK
  <2>6. entries'[e].lines /= <<>>
    BY <2>1, <2>4, <2>5
  <2>7. ASSUME NEW x \in Entries
        PROVE  /\ entries'[x].row = "absent" <=> entries'[x].lines = <<>>
               /\ entries'[x].row = "absent" => entries[x].row = "absent"
    <3>1. CASE x = e
      BY <2>4, <2>6, <3>1
    <3>2. CASE x /= e
      BY <2>3, <2>5, <3>2
    <3> QED
      BY <3>1, <3>2
  <2>8. approved' \in [Entries -> Stored]
    BY <2>3 DEF TypeOK
  <2> QED
    BY <2>3, <2>7, <2>8
<1>5. ASSUME NEW r \in Requests, SetStatus(r)
      PROVE  Rows
  <2>1. requests[r].entry \in Entries /\ (requests[r].op = "post" => requests[r].lines \in Stored)
    BY <1>5, RequestType DEF SetStatus, Changing
  <2> QED
    BY <1>5, <2>1 DEF SetStatus, TypeOK, JournalEntry
<1> QED
  BY <1>1, <1>2, <1>3, <1>4, <1>5, EntrySteps

\* Accounts and replies stay well typed.
LEMMA RestType ==
    ASSUME TypeOK, [Next]_vars
    PROVE  /\ accounts' \in [Accounts -> {"active", "inactive", "deleted"}]
           /\ replies' \subseteq Keys \X Entries
<1> DEFINE Rest == /\ accounts' \in [Accounts -> {"active", "inactive", "deleted"}]
                   /\ replies' \subseteq Keys \X Entries
<1> SUFFICES Rest
  OBVIOUS
<1>1. CASE UNCHANGED <<accounts, replies>>
  BY <1>1 DEF TypeOK
<1>2. ASSUME NEW key \in Keys, NEW e \in Entries, CreateReplay(key, e) PROVE Rest
  BY <1>2 DEF CreateReplay, Replied, TypeOK
<1>3. ASSUME NEW a \in Accounts, AccountUpdate(a) PROVE Rest
  BY <1>3 DEF AccountUpdate, TypeOK
<1>4. ASSUME NEW r \in Requests, CreateAnswer(r) PROVE Rest
  <2>1. requests[r].key \in Keys \cup {NoKey} /\ requests[r].entry \in Entries
    BY <1>4, RequestType DEF CreateAnswer
  <2> QED
    BY <1>4, <2>1 DEF CreateAnswer, Replied, TypeOK
<1>5. ASSUME NEW r \in Requests, AccountDelete(r) PROVE Rest
  <2>1. requests[r].account \in Accounts
    BY <1>5, RequestType DEF AccountDelete
  <2> QED
    BY <1>5, <2>1 DEF AccountDelete, TypeOK
<1> QED
  BY <1>1, <1>2, <1>3, <1>4, <1>5
  DEF Next, vars, CreateCheck, UpdateRead, DeleteRead, PostRead, BackToDraftRead,
      AccountDeleteCheck, CreateTx, CreateInsert, CreateConflict, UpdateCheck, UpdateCommit,
      DeleteCommit, PostCheck, SetStatus, Abort

\* A step keeps the types, the validation of what is written, and that it has
\* a place to be written to.
LEMMA NextType ==
    ASSUME TypeOK, Validated, Exists, [Next]_vars
    PROVE  TypeOK' /\ Validated' /\ Exists'
<1>1. CASE UNCHANGED requests
  <2>1. TypeOK'
    BY <1>1, EntryType, RestType DEF TypeOK
  <2>2. Validated'
    BY <1>1 DEF Validated
  <2>3. Exists'
    BY <1>1, EntryType, RequestType DEF Exists
  <2> QED
    BY <2>1, <2>2, <2>3
<1>2. ASSUME NEW r \in Requests, NEW m \in Request, Continue(r, m),
             m.op \in Writing => validateLines(m.lines),
             m.op \in Changing => entries[m.entry].row /= "absent"
      PROVE  TypeOK' /\ Validated' /\ Exists'
  <2>1. \A s \in Requests : requests'[s] = IF s = r THEN m ELSE requests[s]
    BY <1>2, Moved
  <2>2. TypeOK'
    BY <1>2, EntryType, RestType DEF TypeOK, Continue
  <2>3. Validated'
    BY <1>2, <2>1 DEF Validated
  <2>4. m.op \in Changing => m.entry \in Entries
    BY DEF Request, NoRequest, Changing
  <2>5. Exists'
    BY <1>2, <2>1, <2>4, EntryType, RequestType DEF Exists
  <2> QED
    BY <2>2, <2>3, <2>5
<1> QED
  BY <1>1, <1>2, RequestSteps

\* Every state is well typed; an entry that was written has lines.
THEOREM TypeCorrect == Spec => []TypeOK
<1>1. TypeOK /\ Validated /\ Exists /\ [Next]_vars => TypeOK' /\ Validated' /\ Exists'
  BY NextType
<1> QED
  BY <1>1, InitType, PTL DEF Spec


----------------------------------------------------------------------------
(* One entry for each key. *)

\* A written entry keeps its key, whatever becomes of it.
LEMMA HoldsStep ==
    ASSUME TypeOK, Exists, [Next]_vars, NEW e \in Entries, NEW key, Holds(e, key)
    PROVE  Holds(e, key)'
<1>0. entries[e] \in JournalEntry /\ entries[e].row /= "absent" /\ entries[e].key = key
  BY DEF TypeOK, Holds
<1> SUFFICES entries'[e].row /= "absent" /\ entries'[e].key = key
  BY DEF Holds
<1>1. CASE UNCHANGED <<entries, approved>>
  BY <1>0, <1>1
<1>2. ASSUME NEW r \in Requests, NEW x \in Entries, CreateInsert(r, x)
      PROVE  entries'[e].row /= "absent" /\ entries'[e].key = key
  BY <1>0, <1>2 DEF CreateInsert, TypeOK
<1>3. ASSUME NEW r \in Requests, UpdateCommit(r)
      PROVE  entries'[e].row /= "absent" /\ entries'[e].key = key
  BY <1>0, <1>3 DEF UpdateCommit, TypeOK, JournalEntry
<1>4. ASSUME NEW r \in Requests, DeleteCommit(r)
      PROVE  entries'[e].row /= "absent" /\ entries'[e].key = key
  BY <1>0, <1>4 DEF DeleteCommit, TypeOK, JournalEntry
<1>5. ASSUME NEW r \in Requests, SetStatus(r)
      PROVE  entries'[e].row /= "absent" /\ entries'[e].key = key
  BY <1>0, <1>5 DEF SetStatus, TypeOK, JournalEntry
<1> QED
  BY <1>1, <1>2, <1>3, <1>4, <1>5, EntrySteps

\* A step gives a key to a new entry only, and only while it is free.
LEMMA KeysUniqueStep ==
    ASSUME TypeOK, Exists, KeysUnique, [Next]_vars
    PROVE  KeysUnique'
<1>1. ASSUME NEW r \in Requests, NEW e \in Entries, CreateInsert(r, e)
      PROVE  KeysUnique'
  <2>1. /\ \A x \in Entries : x /= e => entries'[x] = entries[x]
        /\ entries'[e].key = requests[r].key
    BY <1>1 DEF CreateInsert, TypeOK
  <2>2. \A x \in Entries : entries[x].row /= "absent" /\ requests[r].key /= NoKey
                           => entries[x].key /= requests[r].key
    BY <1>1 DEF CreateInsert, KeyTaken
  <2> QED
    BY <2>1, <2>2 DEF KeysUnique
<1>2. ASSUME \A e \in Entries : /\ entries'[e].key = entries[e].key
                                /\ entries'[e].row /= "absent" => entries[e].row /= "absent"
      PROVE  KeysUnique'
  BY <1>2 DEF KeysUnique
<1>3. ASSUME NEW r \in Requests, UpdateCommit(r) \/ DeleteCommit(r) \/ SetStatus(r)
      PROVE  \A e \in Entries : /\ entries'[e].key = entries[e].key
                                /\ entries'[e].row /= "absent" => entries[e].row /= "absent"
  <2> SUFFICES ASSUME NEW e \in Entries
               PROVE  /\ entries'[e].key = entries[e].key
                      /\ entries'[e].row /= "absent" => entries[e].row /= "absent"
    OBVIOUS
  <2>0. entries[e] \in JournalEntry
    BY DEF TypeOK
  <2>1. CASE UpdateCommit(r)
    BY <2>0, <2>1 DEF UpdateCommit, TypeOK, JournalEntry
  <2>2. CASE DeleteCommit(r)
    BY <2>0, <2>2 DEF DeleteCommit, Live, TypeOK, JournalEntry
  <2>3. CASE SetStatus(r)
    BY <2>0, <2>3 DEF SetStatus, TypeOK, JournalEntry
  <2> QED
    BY <1>3, <2>1, <2>2, <2>3
<1>4. CASE UNCHANGED entries
  BY <1>4 DEF KeysUnique
<1> QED
  BY <1>1, <1>2, <1>3, <1>4, EntrySteps

\* What was answered, or is about to be, stays the entry of its key.
LEMMA AnswersStep ==
    ASSUME TypeOK, Validated, Exists, AnswersHold, [Next]_vars
    PROVE  AnswersHold'
<1>1. ASSUME NEW x \in replies' PROVE Holds(x[2], x[1])'
  <2>1. CASE x \in replies
    <3>1. x[2] \in Entries
      BY <2>1 DEF TypeOK
    <3>2. Holds(x[2], x[1])
      BY <2>1 DEF AnswersHold
    <3> QED
      BY <3>1, <3>2, HoldsStep
  <2>2. ASSUME NEW key \in Keys, NEW e \in Entries, CreateReplay(key, e), x \notin replies
        PROVE  Holds(x[2], x[1])'
    BY <2>2 DEF CreateReplay, Replied, WithKey, Live, Holds
  <2>3. ASSUME NEW r \in Requests, CreateAnswer(r), x \notin replies
        PROVE  Holds(x[2], x[1])'
    <3>1. x = <<requests[r].key, requests[r].entry>>
      BY <1>1, <2>3 DEF CreateAnswer, Replied
    <3>2. Holds(requests[r].entry, requests[r].key)
      BY <2>3 DEF CreateAnswer, AnswersHold
    <3> QED
      BY <2>3, <3>1, <3>2 DEF CreateAnswer, Holds
  <2>4. CASE UNCHANGED replies
    BY <1>1, <2>1, <2>4
  <2> QED
    BY <2>1, <2>2, <2>3, <2>4
    DEF Next, vars, AccountUpdate, CreateCheck, UpdateRead, DeleteRead, PostRead,
        BackToDraftRead, AccountDeleteCheck, CreateTx, CreateInsert, CreateConflict, UpdateCheck,
        UpdateCommit, DeleteCommit, PostCheck, SetStatus, AccountDelete, Abort
<1>2. ASSUME NEW s \in Requests, requests'[s].op = "answer"
      PROVE  entries'[requests'[s].entry].row /= "absent"
             /\ entries'[requests'[s].entry].key = requests'[s].key
  <2>1. CASE requests'[s] = requests[s]
    <3>1. PICK e \in Entries, key \in Keys \cup {NoKey} : e = requests[s].entry /\ key = requests[s].key
      BY <1>2, <2>1, RequestType
    <3>2. Holds(e, key)
      BY <1>2, <2>1, <3>1 DEF AnswersHold
    <3>3. Holds(e, key)'
      BY <3>2, HoldsStep
    <3> QED
      BY <2>1, <3>1, <3>3 DEF Holds
  <2>2. ASSUME NEW r \in Requests, NEW m, Continue(r, m), requests'[s] /= requests[s],
               m.op = "answer" => entries'[m.entry].row /= "absent" /\ entries'[m.entry].key = m.key
        PROVE  entries'[requests'[s].entry].row /= "absent"
               /\ entries'[requests'[s].entry].key = requests'[s].key
    BY <1>2, <2>2, Moved
  <2> QED
    BY <2>1, <2>2, RequestSteps
<1> QED
  BY <1>1, <1>2 DEF AnswersHold, Holds

\* The invariant holds in every reachable state.
LEMMA Invariant == Spec => []IInv
<1>1. Init => IInv
  BY InitType DEF Init, IInv, KeysUnique, AnswersHold, NoRequest
<1>2. IInv /\ [Next]_vars => IInv'
  BY NextType, KeysUniqueStep, AnswersStep DEF IInv
<1> QED
  BY <1>1, <1>2, PTL DEF Spec

\* Creates under one key are all answered with the same entry, however they
\* are retried and raced, and whatever is deleted in between: CreateTx looks
\* again, and the index behind CreateInsert remembers deleted rows.
THEOREM OneEntryPerKey == Spec => []SameKeySameEntry
<1>1. IInv => SameKeySameEntry
  <2> SUFFICES ASSUME IInv, NEW x \in replies, NEW y \in replies, x[1] = y[1]
               PROVE  x[2] = y[2]
    BY DEF SameKeySameEntry
  <2>1. /\ x[1] \in Keys /\ x[1] /= NoKey
        /\ x[2] \in Entries /\ y[2] \in Entries
    BY NoKeyAssumption DEF IInv, TypeOK
  <2>2. Holds(x[2], x[1]) /\ Holds(y[2], y[1])
    BY DEF IInv, AnswersHold
  <2> QED
    BY <2>1, <2>2 DEF IInv, KeysUnique, Holds
<1> QED
  BY <1>1, Invariant, PTL

----------------------------------------------------------------------------
(* Entries that stand, while handlers stay apart. *)

\* Validated lines balance in the header of the entry too, where they round.
LEMMA HeadersStep ==
    ASSUME TypeOK, Validated, Exists, HeadersBalanced, [Next]_vars
    PROVE  HeadersBalanced'
<1> SUFFICES ASSUME NEW e \in Entries PROVE entries'[e].totalDebit = entries'[e].totalCredit
  BY DEF HeadersBalanced
<1>0. entries[e] \in JournalEntry /\ entries[e].totalDebit = entries[e].totalCredit
  BY DEF TypeOK, HeadersBalanced
<1>1. CASE UNCHANGED <<entries, approved>>
  BY <1>0, <1>1
<1>2. ASSUME NEW r \in Requests, NEW x \in Entries, CreateInsert(r, x)
      PROVE  entries'[e].totalDebit = entries'[e].totalCredit
  <2>1. TotalDebit(requests[r].lines) = TotalCredit(requests[r].lines)
    BY <1>2 DEF CreateInsert, Validated, Writing, validateLines
  <2> QED
    BY <1>0, <1>2, <2>1 DEF CreateInsert, TypeOK
<1>3. ASSUME NEW r \in Requests, UpdateCommit(r)
      PROVE  entries'[e].totalDebit = entries'[e].totalCredit
  <2>1. TotalDebit(requests[r].lines) = TotalCredit(requests[r].lines)
    BY <1>3 DEF UpdateCommit, Validated, Writing, validateLines
  <2>2. PICK t : t = Numeric(TotalDebit(requests[r].lines)) /\ t = Numeric(TotalCredit(requests[r].lines))
    BY <2>1
  <2> QED
    BY <1>0, <1>3, <2>2 DEF UpdateCommit, TypeOK, JournalEntry
<1>4. ASSUME NEW r \in Requests, DeleteCommit(r)
      PROVE  entries'[e].totalDebit = entries'[e].totalCredit
  BY <1>0, <1>4 DEF DeleteCommit, TypeOK, JournalEntry
<1>5. ASSUME NEW r \in Requests, SetStatus(r)
      PROVE  entries'[e].totalDebit = entries'[e].totalCredit
  BY <1>0, <1>5 DEF SetStatus, TypeOK, JournalEntry
<1> QED
  BY <1>1, <1>2, <1>3, <1>4, <1>5, EntrySteps

\* The lines and the status of an entry are written by the one handler that
\* changes it: a posted entry is the one that was validated.
LEMMA PostedStep ==
    ASSUME TypeOK, Validated, Exists, HeadersBalanced, StillRead, PostingHolds,
           PostedImmutable, PostedBalanced, [Next]_vars
    PROVE  PostedImmutable' /\ PostedBalanced'
<1> DEFINE Stands(e) ==
        entries'[e].status = "posted" =>
            /\ entries'[e].row = "live"
            /\ entries'[e].lines = approved'[e]
            /\ TotalDebit(entries'[e].lines) = TotalCredit(entries'[e].lines)
<1> SUFFICES ASSUME NEW e \in Entries PROVE Stands(e)
  <2> QED
    BY HeadersStep DEF PostedImmutable, PostedBalanced, HeadersBalanced, Live, TotalDebit, TotalCredit
<1>0. /\ entries[e] \in JournalEntry
      /\ entries[e].status = "posted" =>
            /\ entries[e].row = "live"
            /\ entries[e].lines = approved[e]
            /\ TotalDebit(entries[e].lines) = TotalCredit(entries[e].lines)
  BY DEF TypeOK, PostedImmutable, PostedBalanced, Live
<1>1. CASE entries'[e] = entries[e] /\ approved'[e] = approved[e]
  BY <1>0, <1>1
<1>2. CASE entries'[e].status = "draft"
  BY <1>2
<1>3. ASSUME NEW r \in Requests, NEW x \in Entries, CreateInsert(r, x)
      PROVE  Stands(e)
  <2>1. e = x => entries'[e].status = "draft"
    BY <1>3 DEF CreateInsert, TypeOK
  <2>2. e /= x => entries'[e] = entries[e] /\ approved'[e] = approved[e]
    BY <1>3 DEF CreateInsert, TypeOK
  <2> QED
    BY <1>1, <1>2, <2>1, <2>2
<1>4. ASSUME NEW r \in Requests, UpdateCommit(r) \/ DeleteCommit(r)
      PROVE  Stands(e)
  <2>1. requests[r].op \in {"update", "delete"} /\ approved' = approved
    BY <1>4 DEF UpdateCommit, DeleteCommit
  <2>2. e = requests[r].entry => entries[e].status = "draft"
    BY <2>1 DEF StillRead, Changing
  <2>3. e = requests[r].entry => entries'[e].status = entries[e].status
    <3>1. CASE UpdateCommit(r)
      BY <1>0, <3>1 DEF UpdateCommit, TypeOK, JournalEntry
    <3>2. CASE DeleteCommit(r)
      BY <1>0, <3>2 DEF DeleteCommit, TypeOK, JournalEntry
    <3> QED
      BY <1>4, <3>1, <3>2
  <2>4. e /= requests[r].entry => entries'[e] = entries[e]
    <3>1. CASE UpdateCommit(r)
      BY <3>1 DEF UpdateCommit, TypeOK
    <3>2. CASE DeleteCommit(r)
      BY <3>2 DEF DeleteCommit, TypeOK
    <3> QED
      BY <1>4, <3>1, <3>2
  <2> QED
    BY <1>1, <1>2, <2>1, <2>2, <2>3, <2>4
<1>5. ASSUME NEW r \in Requests, SetStatus(r)
      PROVE  Stands(e)
  <2>1. CASE e /= requests[r].entry
    BY <1>1, <1>5, <2>1 DEF SetStatus, TypeOK
  <2>2. CASE e = requests[r].entry /\ requests[r].op = "redraft"
    BY <1>0, <1>2, <1>5, <2>2 DEF SetStatus, TypeOK, JournalEntry
  <2>3. CASE e = requests[r].entry /\ requests[r].op = "post"
    <3>1. /\ requests[r].lines = entries[e].lines
          /\ TotalDebit(entries[e].lines) = TotalCredit(entries[e].lines)
      BY <2>3 DEF PostingHolds
    <3>2. entries[e].row = "live"
      BY <1>5, <2>3 DEF SetStatus, Live
    <3>3. approved'[e] = requests[r].lines
      BY <1>5, <2>3 DEF SetStatus, TypeOK
    <3>4. entries'[e] = [entries[e] EXCEPT !.status = "posted"]
      BY <1>5, <2>3 DEF SetStatus, TypeOK
    <3>5. entries'[e].row = "live" /\ entries'[e].lines = entries[e].lines
      BY <1>0, <3>2, <3>4 DEF JournalEntry
    <3> QED
      BY <3>1, <3>3, <3>5
  <2> QED
    BY <1>5, <2>1, <2>2, <2>3 DEF SetStatus
<1> QED
  <2> HIDE DEF Stands
  <2> QED
    BY <1>1, <1>3, <1>4, <1>5, EntrySteps

----------------------------------------------------------------------------
(* What handlers have read, while they stay apart. *)

\* Nobody else changes the entry that a handler is changing.
LEMMA EntryKept ==
    ASSUME TypeOK, Apart, StillRead, [Next]_vars,
           NEW s \in Requests, requests[s].op \in Changing, requests'[s] = requests[s]
    PROVE  entries'[requests[s].entry] = entries[requests[s].entry]
<1>1. requests[s].entry \in Entries /\ entries[requests[s].entry].row = "live"
  BY RequestType DEF StillRead, Live
<1>2. CASE UNCHANGED <<entries, approved>>
  BY <1>2
<1>3. ASSUME NEW r \in Requests, NEW e \in Entries, CreateInsert(r, e)
      PROVE  entries'[requests[s].entry] = entries[requests[s].entry]
  BY <1>1, <1>3 DEF CreateInsert, TypeOK
<1>4. ASSUME NEW r \in Requests, UpdateCommit(r) \/ DeleteCommit(r) \/ SetStatus(r)
      PROVE  entries'[requests[s].entry] = entries[requests[s].entry]
  <2>1. requests[r].op \in Changing /\ requests'[r] = NoRequest
    BY <1>4 DEF UpdateCommit, DeleteCommit, SetStatus, Changing, Finish, Continue, TypeOK
  <2>2. requests[r].entry /= requests[s].entry
    BY <2>1 DEF Apart, NoRequest, Changing
  <2>3. CASE UpdateCommit(r)
    BY <1>1, <2>2, <2>3 DEF UpdateCommit, TypeOK
  <2>4. CASE DeleteCommit(r)
    BY <1>1, <2>2, <2>4 DEF DeleteCommit, TypeOK
  <2>5. CASE SetStatus(r)
    BY <1>1, <2>2, <2>5 DEF SetStatus, TypeOK
  <2> QED
    BY <1>4, <2>3, <2>4, <2>5
<1> QED
  BY <1>2, <1>3, <1>4, EntrySteps

\* Live lines are as they were, or come from a handler that writes them.
LEMMA LineSteps ==
    ASSUME TypeOK, [Next]_vars, NEW e \in Entries, entries'[e].row = "live"
    PROVE  \/ entries[e].row = "live" /\ entries'[e].lines = entries[e].lines
           \/ \E r \in Requests :
                 /\ requests[r].op \in {"insert", "update"}
                 /\ AccountsOf(entries'[e].lines) = AccountsOf(requests[r].lines)
                 /\ UNCHANGED accounts
<1> DEFINE Kept == entries[e].row = "live" /\ entries'[e].lines = entries[e].lines
           Written(r) == /\ requests[r].op \in {"insert", "update"}
                         /\ AccountsOf(entries'[e].lines) = AccountsOf(requests[r].lines)
                         /\ UNCHANGED accounts
<1>0. entries[e] \in JournalEntry
  BY DEF TypeOK
<1>1. CASE entries'[e] = entries[e]
  BY <1>1
<1>2. ASSUME NEW r \in Requests, NEW x \in Entries, CreateInsert(r, x)
      PROVE  Kept \/ Written(r)
  <2>1. AccountsOf(buildJournalLines(requests[r].lines)) = AccountsOf(requests[r].lines)
    BY <1>2, RequestType, StoredAccounts DEF CreateInsert
  <2>2. CASE e /= x
    BY <1>1, <1>2, <2>2 DEF CreateInsert, TypeOK
  <2>3. CASE e = x
    <3>1. entries'[e].lines = buildJournalLines(requests[r].lines)
      BY <1>2, <2>3 DEF CreateInsert, TypeOK
    <3> QED
      BY <1>2, <2>1, <3>1 DEF CreateInsert
  <2> QED
    BY <2>2, <2>3
<1>3. ASSUME NEW r \in Requests, UpdateCommit(r)
      PROVE  Kept \/ Written(r)
  <2>1. AccountsOf(buildJournalLines(requests[r].lines)) = AccountsOf(requests[r].lines)
    BY <1>3, RequestType, StoredAccounts DEF UpdateCommit, Writing
  <2>2. CASE e /= requests[r].entry
    BY <1>1, <1>3, <2>2 DEF UpdateCommit, TypeOK
  <2>3. CASE e = requests[r].entry
    <3>1. PICK b : b = buildJournalLines(requests[r].lines)
      OBVIOUS
    <3>2. entries'[e].lines = b
      BY <1>0, <1>3, <2>3, <3>1 DEF UpdateCommit, TypeOK, JournalEntry
    <3> QED
      BY <1>3, <2>1, <3>1, <3>2 DEF UpdateCommit
  <2> QED
    BY <2>2, <2>3
<1>4. ASSUME NEW r \in Requests, DeleteCommit(r)
      PROVE  Kept
  BY <1>0, <1>4 DEF DeleteCommit, TypeOK, JournalEntry
<1>5. ASSUME NEW r \in Requests, SetStatus(r)
      PROVE  Kept
  BY <1>0, <1>5 DEF SetStatus, TypeOK, JournalEntry
<1> QED
  <2> HIDE DEF Kept, Written
  <2>1. Kept \/ \E r \in Requests : Written(r)
    <3>1. CASE UNCHANGED <<entries, approved>>
      BY <1>1, <3>1 DEF Kept
    <3> QED
      BY <1>2, <1>3, <1>4, <1>5, <3>1, EntrySteps
  <2> QED
    BY <2>1 DEF Kept, Written

\* Only AccountDelete deletes an account.
LEMMA AccountSteps ==
    ASSUME TypeOK, [Next]_vars, NEW a \in Accounts, accounts[a] /= "deleted", accounts'[a] = "deleted"
    PROVE  \E r \in Requests : /\ requests[r].op = "account_delete" /\ requests[r].account = a
                               /\ requests'[r] = NoRequest /\ UNCHANGED entries
<1>1. ASSUME NEW x \in Accounts, AccountUpdate(x) PROVE accounts'[a] /= "deleted"
  BY <1>1 DEF AccountUpdate, TypeOK
<1>2. PICK r \in Requests : AccountDelete(r)
  BY <1>1 DEF Next, vars, CreateReplay, CreateCheck, UpdateRead, DeleteRead, PostRead,
         BackToDraftRead, AccountDeleteCheck, CreateTx, CreateInsert, CreateConflict, CreateAnswer,
         UpdateCheck, UpdateCommit, DeleteCommit, PostCheck, SetStatus, Abort
<1>3. requests[r].account \in Accounts
  BY <1>2, RequestType DEF AccountDelete
<1> QED
  BY <1>2, <1>3 DEF AccountDelete, Finish, Continue, TypeOK

\* Line lists name existing accounts.
LEMMA SheetAccounts ==
    ASSUME NEW s \in Sheets
    PROVE  AccountsOf(s) \subseteq Accounts
<1>1. \A n \in DOMAIN s : s[n] \in Line
  BY SheetType
<1> QED
  BY <1>1 DEF AccountsOf, Line

\* What a handler has read when it starts or goes on is true at that moment.
ReadNow(m) ==
    /\ m.op \in Changing =>
          /\ entries[m.entry].row = "live"
          /\ entries[m.entry].status = IF m.op = "redraft" THEN "posted" ELSE "draft"
    /\ m.op = "post" =>
          m.lines = entries[m.entry].lines /\ TotalDebit(m.lines) = TotalCredit(m.lines)
    /\ m.op \in Checked => \A a \in AccountsOf(m.lines) : accounts[a] /= "deleted"
    /\ m.op = "account_delete" => \A e \in Entries :
          entries[e].row = "live" => m.account \notin AccountsOf(entries[e].lines)

\* And it writes nothing else in that step, unless it is about to answer or ends.
LEMMA ReadSteps ==
    ASSUME TypeOK, StillRead, AccountsStand, [Next]_vars
    PROVE  \/ UNCHANGED requests
           \/ \E r \in Requests : \E m :
                /\ Continue(r, m)
                /\ \/ m.op \in {"none", "answer"}
                   \/ ReadNow(m) /\ UNCHANGED <<entries, accounts>>
<1> DEFINE Fine(m) == \/ m.op \in {"none", "answer"}
                      \/ ReadNow(m) /\ UNCHANGED <<entries, accounts>>
<1> SUFFICES ASSUME ~UNCHANGED requests
             PROVE  \E r \in Requests : \E m : Fine(m) /\ Continue(r, m)
  BY Zenon
<1>1. ASSUME NEW r \in Requests, NEW key, NEW s, CreateCheck(r, key, s)
      PROVE  \E m : Fine(m) /\ Continue(r, m)
  <2> DEFINE m == [op |-> "create_tx", key |-> key, lines |-> s]
  <2>1. \A a \in AccountsOf(s) : accounts[a] = "active"
    BY <1>1 DEF CreateCheck, checkAccountsActive
  <2>2. ReadNow(m)
    BY <2>1 DEF ReadNow, Changing
  <2> HIDE DEF m
  <2>3. Continue(r, m) /\ UNCHANGED <<entries, accounts>>
    BY <1>1 DEF CreateCheck, Begin, Continue, m
  <2> QED
    BY <2>2, <2>3
<1>2. ASSUME NEW r \in Requests, NEW e \in Entries, NEW s, UpdateRead(r, e, s)
      PROVE  \E m : Fine(m) /\ Continue(r, m)
  <2> DEFINE m == [op |-> "update_check", entry |-> e, lines |-> s]
  <2>1. entries[e].row = "live" /\ entries[e].status = "draft"
    BY <1>2 DEF UpdateRead, Live, TypeOK, JournalEntry
  <2>2. ReadNow(m)
    BY <2>1 DEF ReadNow, Changing, Checked
  <2> HIDE DEF m
  <2>3. Continue(r, m) /\ UNCHANGED <<entries, accounts>>
    BY <1>2 DEF UpdateRead, Begin, Continue, m
  <2> QED
    BY <2>2, <2>3
<1>3. ASSUME NEW r \in Requests, NEW e \in Entries,
             DeleteRead(r, e) \/ PostRead(r, e) \/ BackToDraftRead(r, e)
      PROVE  \E m : Fine(m) /\ Continue(r, m)
  <2>1. PICK op \in {"delete", "post_check", "redraft"} :
            /\ entries[e].row = "live"
            /\ entries[e].status = IF op = "redraft" THEN "posted" ELSE "draft"
            /\ requests' = [requests EXCEPT ![r] = [op |-> op, entry |-> e]]
    BY <1>3 DEF DeleteRead, PostRead, BackToDraftRead, Begin, Live, TypeOK, JournalEntry
  <2> DEFINE m == [op |-> op, entry |-> e]
  <2>2. ReadNow(m)
    BY <2>1 DEF ReadNow, Changing, Checked
  <2> HIDE DEF m
  <2>3. Continue(r, m) /\ UNCHANGED <<entries, accounts>>
    BY <1>3, <2>1 DEF DeleteRead, PostRead, BackToDraftRead, Continue, m
  <2> QED
    BY <2>2, <2>3
<1>4. ASSUME NEW r \in Requests, NEW a, AccountDeleteCheck(r, a)
      PROVE  \E m : Fine(m) /\ Continue(r, m)
  <2> DEFINE m == [op |-> "account_delete", account |-> a]
  <2>1. ReadNow(m)
    BY <1>4 DEF AccountDeleteCheck, ReadNow, Changing, Checked, Live
  <2> HIDE DEF m
  <2>2. Continue(r, m) /\ UNCHANGED <<entries, accounts>>
    BY <1>4 DEF AccountDeleteCheck, Begin, Continue, m
  <2> QED
    BY <2>1, <2>2
<1>5. ASSUME NEW r \in Requests, CreateTx(r)
      PROVE  \E m : Fine(m) /\ Continue(r, m)
  <2> DEFINE m == [op |-> "insert", key |-> requests[r].key, lines |-> requests[r].lines]
  <2>1. CASE Continue(r, [requests[r] EXCEPT !.op = "insert"])
    <3>1. \A a \in AccountsOf(requests[r].lines) : accounts[a] /= "deleted"
      BY <1>5 DEF CreateTx, AccountsStand, Checked
    <3>2. ReadNow(m)
      BY <3>1 DEF ReadNow, Changing
    <3>3. [requests[r] EXCEPT !.op = "insert"] = m
      BY <1>5, MovedType DEF CreateTx
    <3> HIDE DEF m
    <3> QED
      BY <1>5, <2>1, <3>2, <3>3 DEF CreateTx
  <2>2. ASSUME NEW e, Continue(r, [op |-> "answer", key |-> requests[r].key, entry |-> e])
        PROVE  \E x : Fine(x) /\ Continue(r, x)
    BY <2>2
  <2> QED
    BY <1>5, <2>1, <2>2 DEF CreateTx
<1>6. ASSUME NEW r \in Requests, NEW e, CreateInsert(r, e)
      PROVE  \E m : Fine(m) /\ Continue(r, m)
  BY <1>6 DEF CreateInsert
<1>7. ASSUME NEW r \in Requests, CreateConflict(r)
      PROVE  \E m : Fine(m) /\ Continue(r, m)
  <2> DEFINE m == [op |-> "key_conflict", key |-> requests[r].key, lines |-> requests[r].lines]
  <2>1. ReadNow(m)
    BY DEF ReadNow, Changing, Checked
  <2>2. [requests[r] EXCEPT !.op = "key_conflict"] = m
    BY <1>7, MovedType DEF CreateConflict
  <2> HIDE DEF m
  <2> QED
    BY <1>7, <2>1, <2>2 DEF CreateConflict
<1>8. ASSUME NEW r \in Requests, UpdateCheck(r)
      PROVE  \E m : Fine(m) /\ Continue(r, m)
  <2> DEFINE m == [op |-> "update", entry |-> requests[r].entry, lines |-> requests[r].lines]
  <2>1. \A a \in AccountsOf(requests[r].lines) : accounts[a] = "active"
    BY <1>8 DEF UpdateCheck, checkAccountsActive
  <2>2. entries[requests[r].entry].row = "live" /\ entries[requests[r].entry].status = "draft"
    BY <1>8 DEF UpdateCheck, StillRead, Changing, Live
  <2>3. ReadNow(m)
    BY <2>1, <2>2 DEF ReadNow, Changing
  <2>4. [requests[r] EXCEPT !.op = "update"] = m
    BY <1>8, MovedType DEF UpdateCheck
  <2> HIDE DEF m
  <2> QED
    BY <1>8, <2>3, <2>4 DEF UpdateCheck
<1>9. ASSUME NEW r \in Requests, PostCheck(r)
      PROVE  \E m : Fine(m) /\ Continue(r, m)
  <2> DEFINE lines == entries[requests[r].entry].lines
             m == [op |-> "post", entry |-> requests[r].entry, lines |-> lines]
  <2>1. TotalDebit(lines) = TotalCredit(lines)
    BY <1>9 DEF PostCheck, validateLines
  <2>2. entries[requests[r].entry].row = "live" /\ entries[requests[r].entry].status = "draft"
    BY <1>9 DEF PostCheck, StillRead, Changing, Live
  <2>3. ReadNow(m)
    BY <2>1, <2>2 DEF ReadNow, Changing, Checked
  <2>4. Continue(r, m) /\ UNCHANGED <<entries, accounts>>
    BY <1>9 DEF PostCheck
  <2> HIDE DEF m
  <2> QED
    BY <2>3, <2>4
<1>10. ASSUME NEW r \in Requests,
             CreateAnswer(r) \/ UpdateCommit(r) \/ DeleteCommit(r) \/ SetStatus(r)
             \/ AccountDelete(r) \/ Abort(r)
      PROVE  \E m : Fine(m) /\ Continue(r, m)
  BY <1>10
  DEF CreateAnswer, UpdateCommit, DeleteCommit, SetStatus, AccountDelete, Abort, Finish, NoRequest
<1> QED
  <2> HIDE DEF Fine
  <2> QED
    BY <1>1, <1>2, <1>3, <1>4, <1>5, <1>6, <1>7, <1>8, <1>9, <1>10
    DEF Next, vars, CreateReplay, AccountUpdate

\* So each handler has either just read what it has, or has kept it.
LEMMA KeptOrRead ==
    ASSUME TypeOK, StillRead, AccountsStand, [Next]_vars, NEW s \in Requests,
           requests'[s].op \notin {"none", "answer"}
    PROVE  \/ requests'[s] = requests[s]
           \/ ReadNow(requests'[s]) /\ UNCHANGED <<entries, accounts>>
<1>1. ASSUME NEW r \in Requests, NEW m, Continue(r, m),
             \/ m.op \in {"none", "answer"}
             \/ ReadNow(m) /\ UNCHANGED <<entries, accounts>>
      PROVE  \/ requests'[s] = requests[s]
             \/ ReadNow(requests'[s]) /\ UNCHANGED <<entries, accounts>>
  <2>1. requests'[s] = IF s = r THEN m ELSE requests[s]
    BY <1>1, Moved
  <2> QED
    BY <1>1, <2>1
<1> QED
  BY <1>1, ReadSteps

\* What a handler has read of its entry stays true, up to its own write.
LEMMA StillReadStep ==
    ASSUME TypeOK, Apart, StillRead, PostingHolds, AccountsStand, [Next]_vars
    PROVE  StillRead' /\ PostingHolds'
<1> SUFFICES ASSUME NEW s \in Requests, requests'[s].op \in Changing
             PROVE  LET m == requests'[s] IN
                    /\ entries'[m.entry].row = "live"
                    /\ entries'[m.entry].status = IF m.op = "redraft" THEN "posted" ELSE "draft"
                    /\ m.op = "post" => /\ m.lines = entries'[m.entry].lines
                                        /\ TotalDebit(m.lines) = TotalCredit(m.lines)
  BY DEF StillRead, PostingHolds, Live, Changing, TotalDebit, TotalCredit
<1>1. CASE requests'[s] = requests[s]
  BY <1>1, EntryKept DEF StillRead, PostingHolds, Live
<1>2. CASE ReadNow(requests'[s]) /\ UNCHANGED <<entries, accounts>>
  BY <1>2 DEF ReadNow
<1> QED
  BY <1>1, <1>2, KeptOrRead DEF Changing

\* Nobody else deletes an account that a handler is about to write to, nor
\* writes to one that a handler is about to delete.
LEMMA AccountsStep ==
    ASSUME TypeOK, Apart, StillRead, AccountsStand, StillUnused, [Next]_vars
    PROVE  AccountsStand' /\ StillUnused'
<1>1. ASSUME NEW s \in Requests, requests'[s].op \in Checked, NEW a \in AccountsOf(requests'[s].lines)
      PROVE  accounts'[a] /= "deleted"
  <2>1. CASE requests'[s] = requests[s]
    <3>1. /\ a \in AccountsOf(requests[s].lines) /\ accounts[a] /= "deleted"
          /\ requests[s].op \in Writing
      BY <1>1, <2>1 DEF AccountsStand, Checked, Writing
    <3>2. a \in Accounts
      BY <3>1, RequestType, SheetAccounts
    <3>3. ASSUME NEW r \in Requests, requests[r].op = "account_delete", requests[r].account = a
          PROVE  FALSE
      BY <3>1, <3>3 DEF Apart, Writing
    <3> QED
      BY <3>1, <3>2, <3>3, AccountSteps
  <2>2. CASE ReadNow(requests'[s]) /\ UNCHANGED <<entries, accounts>>
    BY <1>1, <2>2 DEF ReadNow
  <2> QED
    BY <1>1, <2>1, <2>2, KeptOrRead DEF Checked
<1>2. ASSUME NEW s \in Requests, requests'[s].op = "account_delete",
             NEW e \in Entries, entries'[e].row = "live"
      PROVE  requests'[s].account \notin AccountsOf(entries'[e].lines)
  <2>1. CASE requests'[s] = requests[s]
    <3>1. CASE entries[e].row = "live" /\ entries'[e].lines = entries[e].lines
      BY <1>2, <2>1, <3>1 DEF StillUnused, Live
    <3>2. ASSUME NEW r \in Requests, requests[r].op \in {"insert", "update"},
                 AccountsOf(entries'[e].lines) = AccountsOf(requests[r].lines)
          PROVE  requests'[s].account \notin AccountsOf(entries'[e].lines)
      BY <1>2, <2>1, <3>2 DEF Apart, Writing
    <3> QED
      BY <1>2, <3>1, <3>2, LineSteps
  <2>2. CASE ReadNow(requests'[s]) /\ UNCHANGED <<entries, accounts>>
    BY <1>2, <2>2 DEF ReadNow
  <2> QED
    BY <1>2, <2>1, <2>2, KeptOrRead
<1>3. AccountsStand'
  BY <1>1 DEF AccountsStand, AccountsOf
<1>4. StillUnused'
  BY <1>2 DEF StillUnused, Live, AccountsOf
<1> QED
  BY <1>3, <1>4

\* So no live line is left with a deleted account.
LEMMA DanglingStep ==
    ASSUME TypeOK, AccountsStand, StillUnused, NoDanglingAccount, [Next]_vars
    PROVE  NoDanglingAccount'
<1>1. ASSUME NEW e \in Entries, entries'[e].row = "live", NEW a \in AccountsOf(entries'[e].lines)
      PROVE  accounts'[a] /= "deleted"
  <2>1. CASE entries[e].row = "live" /\ entries'[e].lines = entries[e].lines
    <3>1. accounts[a] /= "deleted"
      BY <1>1, <2>1 DEF NoDanglingAccount, Live
    <3>2. a \in Accounts
      <4>1. entries[e].lines \in Stored /\ entries[e].lines /= <<>>
        BY <2>1 DEF TypeOK, JournalEntry
      <4>2. PICK b \in Sheets : entries[e].lines = buildJournalLines(b)
        BY <4>1 DEF Stored
      <4> QED
        BY <1>1, <2>1, <4>2, StoredAccounts, SheetAccounts
    <3>3. ASSUME NEW r \in Requests, requests[r].op = "account_delete", requests[r].account = a
          PROVE  FALSE
      BY <1>1, <2>1, <3>3 DEF StillUnused, Live
    <3> QED
      BY <3>1, <3>2, <3>3, AccountSteps
  <2>2. ASSUME NEW r \in Requests, requests[r].op \in {"insert", "update"},
               AccountsOf(entries'[e].lines) = AccountsOf(requests[r].lines), UNCHANGED accounts
        PROVE  accounts'[a] /= "deleted"
    BY <1>1, <2>2 DEF AccountsStand, Checked
  <2> QED
    BY <1>1, <2>1, <2>2, LineSteps
<1> QED
  BY <1>1 DEF NoDanglingAccount, Live, AccountsOf

\* The invariant holds in every reachable state.
LEMMA InvariantApart == SpecApart => []IInvApart
<1>1. Init => IInvApart
  <2> SUFFICES ASSUME Init PROVE IInvApart
    OBVIOUS
  <2>1. /\ \A e \in Entries : /\ entries[e].row = "absent" /\ entries[e].status = "draft"
                              /\ entries[e].totalDebit = entries[e].totalCredit
        /\ \A r \in Requests : requests[r].op = "none"
    BY DEF Init, NoRequest
  <2>2. Apart
    BY <2>1 DEF Apart, Changing
  <2>3. HeadersBalanced /\ PostedImmutable /\ PostedBalanced /\ NoDanglingAccount
    BY <2>1 DEF HeadersBalanced, PostedImmutable, PostedBalanced, NoDanglingAccount, Live
  <2>4. StillRead /\ PostingHolds /\ AccountsStand /\ StillUnused
    BY <2>1 DEF StillRead, PostingHolds, AccountsStand, StillUnused, Changing, Checked
  <2> QED
    BY <2>2, <2>3, <2>4, InitType DEF IInvApart
<1>2. IInvApart /\ [Next /\ Apart']_vars => IInvApart'
  <2> SUFFICES ASSUME IInvApart, [Next /\ Apart']_vars PROVE IInvApart'
    OBVIOUS
  <2>1. [Next]_vars
    OBVIOUS
  <2>2. Apart'
    BY DEF IInvApart, Apart, vars
  <2>3. TypeOK' /\ Validated' /\ Exists' /\ HeadersBalanced'
    BY <2>1, NextType, HeadersStep DEF IInvApart
  <2>4. PostedImmutable' /\ PostedBalanced'
    BY <2>1, PostedStep DEF IInvApart
  <2>5. StillRead' /\ PostingHolds' /\ AccountsStand' /\ StillUnused' /\ NoDanglingAccount'
    BY <2>1, StillReadStep, AccountsStep, DanglingStep DEF IInvApart
  <2> QED
    BY <2>2, <2>3, <2>4, <2>5 DEF IInvApart
<1> QED
  BY <1>1, <1>2, PTL DEF SpecApart

\* A posted entry stands, with the lines that were validated when it was
\* posted, until BackToDraft.
THEOREM PostedStands == SpecApart => []PostedImmutable
<1>1. IInvApart => PostedImmutable
  BY DEF IInvApart
<1> QED
  BY <1>1, InvariantApart, PTL

\* A posted entry balances in its header and in its rounded lines: what is
\* posted was validated as stored.
THEOREM PostedBalances == SpecApart => []PostedBalanced
<1>1. IInvApart => PostedBalanced
  BY DEF IInvApart
<1> QED
  BY <1>1, InvariantApart, PTL

\* No line of a live entry names a deleted account.
THEOREM NothingDangles == SpecApart => []NoDanglingAccount
<1>1. IInvApart => NoDanglingAccount
  BY DEF IInvApart
<1> QED
  BY <1>1, InvariantApart, PTL
=============================================================================
