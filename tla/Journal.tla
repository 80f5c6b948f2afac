------------------------------ MODULE Journal ------------------------------
(***************************************************************************)
(* Journal entries with their debit and credit lines, and the accounts     *)
(* those lines name: creation under an idempotency key, edits, posting,    *)
(* back to draft, deletion; activating, deactivating and deleting an       *)
(* account.                                                                *)
(*                                                                         *)
(* The service reads an entry, checks it, and only then writes by id, so   *)
(* every handler is split between what it read and what it does.  Amounts  *)
(* are counted in half cents: a request may carry them (float64), while    *)
(* the columns are numeric(18,2) and round.  Numbers of entries are in     *)
(* DocumentNumbers.                                                        *)
(***************************************************************************)
EXTENDS Integers, Sequences, Sums

CONSTANTS
    Entries,    \* ids of journal_entries rows
    Accounts,   \* ids of accounts rows
    Keys,       \* idempotency keys
    NoKey,      \* no idempotency key
    Requests,   \* handlers that may be in flight at the same time
    Sheets,     \* the line lists that requests carry
    MaxAmount   \* bound on the amount of a line, in half cents

ASSUME NoKeyAssumption == NoKey \notin Keys
ASSUME SheetsAssumption ==
    /\ MaxAmount \in Nat
    /\ \A s \in Sheets :
          s \in Seq([account : Accounts, debit : 0 .. MaxAmount, credit : 0 .. MaxAmount])

VARIABLES
    entries,    \* journal_entries with their journal_lines
    accounts,   \* active, inactive or deleted
    requests,   \* what each handler in flight has read so far
    approved,   \* history: the lines the last Post of an entry validated
    replies     \* history: <<key, entry>> of every create that succeeded

vars == <<entries, accounts, requests, approved, replies>>

----------------------------------------------------------------------------
(* Lines. *)

TotalDebit(lines)  == SumOver([n \in DOMAIN lines |-> lines[n].debit], DOMAIN lines)
TotalCredit(lines) == SumOver([n \in DOMAIN lines |-> lines[n].credit], DOMAIN lines)
AccountsOf(lines)  == {lines[n].account : n \in DOMAIN lines}

\* The epsilon of the comparison is far below half a cent.
validateLines(lines) ==
    /\ Len(lines) >= 2
    /\ \A n \in DOMAIN lines : (lines[n].debit > 0) /= (lines[n].credit > 0)
    /\ TotalDebit(lines) > 0
    /\ TotalDebit(lines) = TotalCredit(lines)

\* numeric(18,2): half a cent rounds up to a whole one (two half cents).
Numeric(amount) == amount + (amount % 2)

buildJournalLines(lines) ==
    [n \in DOMAIN lines |-> [lines[n] EXCEPT !.debit = Numeric(@), !.credit = Numeric(@)]]

checkAccountsActive(lines) == \A a \in AccountsOf(lines) : accounts[a] = "active"

----------------------------------------------------------------------------
(* State. *)

Stored == {buildJournalLines(s) : s \in Sheets} \cup {<<>>}

JournalEntry ==
    [row : {"absent", "live", "deleted"}, status : {"draft", "posted"}, key : Keys \cup {NoKey},
     totalDebit : Nat, totalCredit : Nat, lines : Stored]

NoRequest == [op |-> "none"]

Request ==
         {NoRequest}
    \cup [op : {"create_tx", "insert", "key_conflict"}, key : Keys \cup {NoKey}, lines : Sheets]
    \cup [op : {"answer"}, key : Keys \cup {NoKey}, entry : Entries]
    \cup [op : {"update_check", "update"}, entry : Entries, lines : Sheets]
    \cup [op : {"delete", "post_check", "redraft"}, entry : Entries]
    \cup [op : {"post"}, entry : Entries, lines : Stored]
    \cup [op : {"account_delete"}, account : Accounts]

\* An entry has lines from its creation on, also when it is deleted.
TypeOK ==
    /\ entries \in [Entries -> JournalEntry]
    /\ \A e \in Entries : entries[e].row = "absent" <=> entries[e].lines = <<>>
    /\ accounts \in [Accounts -> {"active", "inactive", "deleted"}]
    /\ requests \in [Requests -> Request]
    /\ approved \in [Entries -> Stored]
    /\ replies \subseteq Keys \X Entries

Live(e) == entries[e].row = "live"

Begin(r, m) == requests[r] = NoRequest /\ requests' = [requests EXCEPT ![r] = m]

Continue(r, m) == requests' = [requests EXCEPT ![r] = m]

Finish(r) == Continue(r, NoRequest)

\* A refused check, a database error or a crash ends the handler.
Abort(r) ==
    /\ requests[r] /= NoRequest
    /\ Finish(r)
    /\ UNCHANGED <<entries, accounts, approved, replies>>

----------------------------------------------------------------------------
(* Create. *)

\* findByIdempotencyKey looks at live rows only.
WithKey(key) == {e \in Entries : Live(e) /\ key /= NoKey /\ entries[e].key = key}

\* Faulty variant: the index covers live rows only, as those on numbers do.
FaultyKeyTaken(key) == WithKey(key) /= {}

\* The unique index on the key also covers deleted rows.
KeyTaken(key) ==
    key /= NoKey /\ \E e \in Entries : entries[e].row /= "absent" /\ entries[e].key = key

Replied(key, e) == IF key = NoKey THEN replies ELSE replies \cup {<<key, e>>}

\* The service finds the key and answers with the entry it belongs to.
CreateReplay(key, e) ==
    /\ e \in WithKey(key)
    /\ replies' = Replied(key, e)
    /\ UNCHANGED <<entries, accounts, requests, approved>>

CreateCheck(r, key, lines) ==
    /\ WithKey(key) = {}
    /\ validateLines(lines)
    /\ checkAccountsActive(lines)
    /\ Begin(r, [op |-> "create_tx", key |-> key, lines |-> lines])
    /\ UNCHANGED <<entries, accounts, approved, replies>>

\* The second look at the key, inside the transaction.
CreateTx(r) ==
    LET m == requests[r] IN
    /\ m.op = "create_tx"
    /\ \/ /\ WithKey(m.key) = {}
          /\ Continue(r, [m EXCEPT !.op = "insert"])
       \/ \E e \in WithKey(m.key) : Continue(r, [op |-> "answer", key |-> m.key, entry |-> e])
    /\ UNCHANGED <<entries, accounts, approved, replies>>

CreateInsert(r, e) ==
    LET m == requests[r] IN
    /\ m.op = "insert"
    /\ ~KeyTaken(m.key)
    /\ entries[e].row = "absent"
    /\ entries' = [entries EXCEPT ![e] =
           [row |-> "live", status |-> "draft", key |-> m.key,
            totalDebit |-> Numeric(TotalDebit(m.lines)),
            totalCredit |-> Numeric(TotalCredit(m.lines)),
            lines |-> buildJournalLines(m.lines)]]
    /\ Continue(r, [op |-> "answer", key |-> m.key, entry |-> e])
    /\ UNCHANGED <<accounts, approved, replies>>

\* The index refuses the row.  PostgreSQL then refuses every statement of the
\* transaction up to its rollback, the re-fetch of the key included.
CreateConflict(r) ==
    LET m == requests[r] IN
    /\ m.op = "insert"
    /\ KeyTaken(m.key)
    /\ Continue(r, [m EXCEPT !.op = "key_conflict"])
    /\ UNCHANGED <<entries, accounts, approved, replies>>

\* FindByID after the commit.
CreateAnswer(r) ==
    LET m == requests[r] IN
    /\ m.op = "answer"
    /\ Live(m.entry)
    /\ replies' = Replied(m.key, m.entry)
    /\ Finish(r)
    /\ UNCHANGED <<entries, accounts, approved>>

----------------------------------------------------------------------------
(* Update and Delete. *)

\* Faulty variant: the status is not looked at.
FaultyUpdateRead(r, e, lines) ==
    /\ Live(e)
    /\ validateLines(lines)
    /\ Begin(r, [op |-> "update_check", entry |-> e, lines |-> lines])
    /\ UNCHANGED <<entries, accounts, approved, replies>>

UpdateRead(r, e, lines) ==
    /\ Live(e) /\ entries[e].status /= "posted"
    /\ validateLines(lines)
    /\ Begin(r, [op |-> "update_check", entry |-> e, lines |-> lines])
    /\ UNCHANGED <<entries, accounts, approved, replies>>

UpdateCheck(r) ==
    LET m == requests[r] IN
    /\ m.op = "update_check"
    /\ checkAccountsActive(m.lines)
    /\ Live(m.entry)
    /\ Continue(r, [m EXCEPT !.op = "update"])
    /\ UNCHANGED <<entries, accounts, approved, replies>>

\* The UPDATE of the header locks it, so edits of a live entry follow each
\* other.  It matches nothing, without an error, when the entry is deleted;
\* the lines are replaced all the same.
UpdateCommit(r) ==
    LET m == requests[r]
        edited == [entries EXCEPT ![m.entry].lines = buildJournalLines(m.lines)]
    IN
    /\ m.op = "update"
    /\ entries' = IF ~Live(m.entry) THEN edited
                  ELSE [edited EXCEPT ![m.entry].totalDebit = Numeric(TotalDebit(m.lines)),
                                      ![m.entry].totalCredit = Numeric(TotalCredit(m.lines))]
    /\ Finish(r)
    /\ UNCHANGED <<accounts, approved, replies>>

DeleteRead(r, e) ==
    /\ Live(e) /\ entries[e].status /= "posted"
    /\ Begin(r, [op |-> "delete", entry |-> e])
    /\ UNCHANGED <<entries, accounts, approved, replies>>

\* The status is not part of the condition; the lines are kept.
DeleteCommit(r) ==
    LET m == requests[r] IN
    /\ m.op = "delete"
    /\ Live(m.entry)
    /\ entries' = [entries EXCEPT ![m.entry].row = "deleted"]
    /\ Finish(r)
    /\ UNCHANGED <<accounts, approved, replies>>

----------------------------------------------------------------------------
(* Post and BackToDraft. *)

PostRead(r, e) ==
    /\ Live(e) /\ entries[e].status = "draft"
    /\ Begin(r, [op |-> "post_check", entry |-> e])
    /\ UNCHANGED <<entries, accounts, approved, replies>>

\* Faulty variant: a draft is trusted, it was validated when it was written.
FaultyPostCheck(r) ==
    LET m == requests[r]
        lines == entries[m.entry].lines
    IN
    /\ m.op = "post_check"
    /\ checkAccountsActive(lines)
    /\ Continue(r, [op |-> "post", entry |-> m.entry, lines |-> lines])
    /\ UNCHANGED <<entries, accounts, approved, replies>>

\* FindByID loads the lines in a second query; they are validated as stored.
PostCheck(r) ==
    LET m == requests[r]
        lines == entries[m.entry].lines
    IN
    /\ m.op = "post_check"
    /\ validateLines(lines)
    /\ checkAccountsActive(lines)
    /\ Continue(r, [op |-> "post", entry |-> m.entry, lines |-> lines])
    /\ UNCHANGED <<entries, accounts, approved, replies>>

BackToDraftRead(r, e) ==
    /\ Live(e) /\ entries[e].status = "posted"
    /\ Begin(r, [op |-> "redraft", entry |-> e])
    /\ UNCHANGED <<entries, accounts, approved, replies>>

\* An UPDATE by id, for posting and for going back to draft.
SetStatus(r) ==
    LET m == requests[r] IN
    /\ m.op \in {"post", "redraft"}
    /\ Live(m.entry)
    /\ entries' = [entries EXCEPT ![m.entry].status = IF m.op = "post" THEN "posted" ELSE "draft"]
    /\ approved' = IF m.op = "post" THEN [approved EXCEPT ![m.entry] = m.lines] ELSE approved
    /\ Finish(r)
    /\ UNCHANGED <<accounts, replies>>

----------------------------------------------------------------------------
(* Accounts. *)

\* Update with is_active; a built-in account can be deactivated too.
AccountUpdate(a) ==
    /\ accounts[a] /= "deleted"
    /\ accounts' = [accounts EXCEPT ![a] = IF @ = "active" THEN "inactive" ELSE "active"]
    /\ UNCHANGED <<entries, requests, approved, replies>>

\* Faulty variant: only posted entries count as a use of the account.
FaultyAccountDeleteCheck(r, a) ==
    /\ accounts[a] /= "deleted"
    /\ \A e \in Entries : Live(e) /\ entries[e].status = "posted" => a \notin AccountsOf(entries[e].lines)
    /\ Begin(r, [op |-> "account_delete", account |-> a])
    /\ UNCHANGED <<entries, accounts, approved, replies>>

\* checkAccountUnused counts the lines of live entries.
AccountDeleteCheck(r, a) ==
    /\ accounts[a] /= "deleted"
    /\ \A e \in Entries : Live(e) => a \notin AccountsOf(entries[e].lines)
    /\ Begin(r, [op |-> "account_delete", account |-> a])
    /\ UNCHANGED <<entries, accounts, approved, replies>>

AccountDelete(r) ==
    LET m == requests[r] IN
    /\ m.op = "account_delete"
    /\ accounts' = [accounts EXCEPT ![m.account] = "deleted"]
    /\ Finish(r)
    /\ UNCHANGED <<entries, approved, replies>>

----------------------------------------------------------------------------
Init ==
    /\ entries = [e \in Entries |-> [row |-> "absent", status |-> "draft", key |-> NoKey,
                                     totalDebit |-> 0, totalCredit |-> 0, lines |-> <<>>]]
    /\ accounts = [a \in Accounts |-> "active"]
    /\ requests = [r \in Requests |-> NoRequest]
    /\ approved = [e \in Entries |-> <<>>]
    /\ replies = {}

Next ==
    \/ \E key \in Keys, e \in Entries : CreateReplay(key, e)
    \/ \E a \in Accounts : AccountUpdate(a)
    \/ \E r \in Requests :
          \/ \E key \in Keys \cup {NoKey}, s \in Sheets : CreateCheck(r, key, s)
          \/ \E e \in Entries, s \in Sheets : UpdateRead(r, e, s)
          \/ \E e \in Entries :
                \/ CreateInsert(r, e) \/ DeleteRead(r, e)
                \/ PostRead(r, e) \/ BackToDraftRead(r, e)
          \/ \E a \in Accounts : AccountDeleteCheck(r, a)
          \/ CreateTx(r) \/ CreateConflict(r) \/ CreateAnswer(r)
          \/ UpdateCheck(r) \/ UpdateCommit(r) \/ DeleteCommit(r)
          \/ PostCheck(r) \/ SetStatus(r) \/ AccountDelete(r) \/ Abort(r)

Spec == Init /\ [][Next]_vars

----------------------------------------------------------------------------
(* The assumption: what the code leaves to its users. *)

Changing == {"update_check", "update", "delete", "post_check", "post", "redraft"}

Writing == {"create_tx", "insert", "update_check", "update"}

\* Two handlers never change one entry, nor does one delete an account that
\* another is about to write into lines: the code takes no lock that would
\* prevent either.  Creates under one key do race.
Apart ==
    \A r, s \in Requests : r /= s =>
        /\ ~ (/\ {requests[r].op, requests[s].op} \subseteq Changing
              /\ requests[r].entry = requests[s].entry)
        /\ ~ (/\ requests[r].op = "account_delete" /\ requests[s].op \in Writing
              /\ requests[r].account \in AccountsOf(requests[s].lines))

SpecApart == Init /\ [][Next /\ Apart']_vars

----------------------------------------------------------------------------
\* Whatever is retried, raced or deleted, all successful creates under one key
\* were answered with one and the same entry: two looks at the key and an index
\* that never forgets one.
SameKeySameEntry ==
    \A x, y \in replies : x[1] = y[1] => x[2] = y[2]

\* Debits equal credits on every posted entry, in its header and in its lines
\* as the columns hold them, although it was balanced before rounding.
PostedBalanced ==
    \A e \in Entries : entries[e].status = "posted" =>
        /\ entries[e].totalDebit = entries[e].totalCredit
        /\ TotalDebit(entries[e].lines) = TotalCredit(entries[e].lines)

\* A posted entry stands, with the lines that were validated when it was
\* posted, until it is moved back to draft.
PostedImmutable ==
    \A e \in Entries : entries[e].status = "posted" =>
        Live(e) /\ entries[e].lines = approved[e]

\* No line of a live entry names a deleted account.
NoDanglingAccount ==
    \A e \in Entries : Live(e) =>
        \A a \in AccountsOf(entries[e].lines) : accounts[a] /= "deleted"
=============================================================================
