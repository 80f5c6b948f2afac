----------------------------- MODULE Onboarding -----------------------------
(***************************************************************************)
(* How a company comes into being and gets its master data: the submission *)
(* of the onboarding form, the lists that seed an empty table when they    *)
(* are opened, and the backfill of units at startup.                       *)
(*                                                                         *)
(* Nothing here is a transaction across tables.  A submission creates the  *)
(* company, then the owner's membership, then the defaults, and deletes    *)
(* the company again when the membership fails.  Seeding counts the rows   *)
(* of a table and inserts the defaults when there are none.                *)
(***************************************************************************)
EXTENDS Naturals, FiniteSets

CONSTANTS
    Companies,      \* ids
    Readers,        \* the requests that open a list, each of them again and again
    Tables,         \* the tables with defaults
    OwnTables,      \* the tables users add rows to: a bound
    Fallback,       \* RBACMigrationFallback: does a member without a role get in?
    MaxFaults       \* the bound on failed statements and crashes

ASSUME OnboardingAssumption ==
    /\ Tables \subseteq {"accounts", "taxes", "units", "books"}
    /\ {"accounts", "taxes", "units"} \subseteq Tables
    /\ OwnTables \subseteq Tables
    /\ Fallback \in BOOLEAN
    /\ IsFiniteSet(Readers) /\ "submit" \notin Readers
    /\ MaxFaults \in Nat

VARIABLES
    companies,  \* the companies rows
    creators,   \* the membership of a company's creator: none, owner, or roleless
    tables,     \* the rows of a table: how often seeded, and whether the user has own ones
    unlinked,   \* companies with taxes of a submission that have no accounts
    submits,    \* where the submission of a company stands
    readers,    \* where the opening of a list stands
    startup,    \* where the process stands: down, in the backfill, or serving
    recorded,   \* is the backfill's migration record there?
    faults,     \* how many faults there were
    orphans,    \* history: companies whose submission or rollback was cut off
    raced,      \* history: tables two requests were about to seed at once
    ownChart    \* history: companies with an own account and no chart

vars == <<companies, creators, tables, unlinked, submits, readers, startup, recorded, faults,
          orphans, raced, ownChart>>
data == <<companies, creators, tables, unlinked, recorded>>
history == <<orphans, ownChart>>

\* At most every reader and the submission seed a table at once; the backfill
\* is over before there are any.
MaxSeeds == Cardinality(Readers) + 1

\* A submission seeds these three; books are seeded by their list alone.
Seeding == [at : {"count", "insert"}, table : {"accounts", "taxes", "units"}]

TypeOK ==
    /\ companies \in [Companies -> {"absent", "active", "purged"}]
    /\ creators \in [Companies -> {"none", "owner", "roleless"}]
    /\ tables \in [Companies -> [Tables -> [seeds : 0..MaxSeeds, own : BOOLEAN]]]
    /\ unlinked \subseteq Companies
    /\ submits \in [Companies -> Seeding \cup
          [at : {"new", "created", "rollback", "invites", "ok", "failed"}]]
    /\ readers \in [Readers ->
          [at : {"idle"}] \cup [at : {"count", "insert"}, company : Companies, table : Tables]]
    /\ startup \in      [at : {"down", "check", "up"}]
                  \cup [at : {"next"}, todo : SUBSET Companies]
                  \cup [at : {"insert"}, todo : SUBSET Companies, company : Companies]
    /\ recorded \in BOOLEAN
    /\ faults \in 0..MaxFaults
    /\ orphans \subseteq Companies /\ ownChart \subseteq Companies
    /\ raced \subseteq Companies \X Tables

Serving == startup = [at |-> "up"]
Fault == faults < MaxFaults /\ faults' = faults + 1

----------------------------------------------------------------------------
(* Seeding one table. *)

IsEmpty(c, x) == tables[c][x].seeds = 0 /\ ~tables[c][x].own

\* The unique codes of accounts and books refuse a second set of defaults.
indexAllows(c, x) == x \in {"accounts", "books"} => tables[c][x].seeds = 0

seeded(c, x) == [tables EXCEPT ![c][x].seeds = @ + 1]

\* accountIDsByCode: the accounts of the template are found when it is there.
accountsFound(c) == tables[c]["accounts"].seeds > 0

----------------------------------------------------------------------------
(* The submission of the form. *)

SubmitStep(c, from, to) == submits[c] = from /\ submits' = [submits EXCEPT ![c] = to]

CreateCompany(c) ==
    /\ Serving
    /\ companies[c] = "absent"
    /\ SubmitStep(c, [at |-> "new"], [at |-> "created"])
    /\ companies' = [companies EXCEPT ![c] = "active"]
    /\ UNCHANGED <<creators, tables, unlinked, recorded, readers, startup, faults, history>>

\* The creator's membership is stored whether or not the SSO's lists, or the pin,
\* told the id of the owner role.
LinkCompanyCreator(c) ==
    /\ SubmitStep(c, [at |-> "created"], [at |-> "count", table |-> "accounts"])
    /\ \E role \in {"owner", "roleless"} : creators' = [creators EXCEPT ![c] = role]
    /\ UNCHANGED <<companies, tables, unlinked, recorded, readers, startup, faults, history>>

\* Faulty variant: the company is left behind.
FaultyLinkFails(c) ==
    /\ SubmitStep(c, [at |-> "created"], [at |-> "failed"])
    /\ Fault
    /\ UNCHANGED <<data, readers, startup, history>>

LinkFails(c) ==
    /\ SubmitStep(c, [at |-> "created"], [at |-> "rollback"])
    /\ Fault
    /\ UNCHANGED <<data, readers, startup, history>>

HardDeleteCompany(c) ==
    /\ SubmitStep(c, [at |-> "rollback"], [at |-> "failed"])
    /\ companies' = [companies EXCEPT ![c] = "purged"]
    /\ UNCHANGED <<creators, tables, unlinked, recorded, readers, startup, faults, history>>

\* Only logged.
HardDeleteFails(c) ==
    /\ SubmitStep(c, [at |-> "rollback"], [at |-> "failed"])
    /\ Fault
    /\ orphans' = orphans \cup {c}
    /\ UNCHANGED <<data, readers, startup, ownChart>>

\* SeedCompanyDefaults: the chart of accounts, the taxes, the units.
after(x) ==
    CASE x = "accounts" -> [at |-> "count", table |-> "taxes"]
      [] x = "taxes" -> [at |-> "count", table |-> "units"]
      [] x = "units" -> [at |-> "invites"]

SubmitCount(c) ==
    /\ submits[c].at = "count"
    /\ LET x == submits[c].table IN
       SubmitStep(c, submits[c], IF IsEmpty(c, x) THEN [at |-> "insert", table |-> x] ELSE after(x))
    /\ UNCHANGED <<data, readers, startup, faults, history>>

SubmitInsert(c) ==
    /\ submits[c].at = "insert"
    /\ LET x == submits[c].table IN
       /\ indexAllows(c, x)
       /\ SubmitStep(c, submits[c], after(x))
       /\ tables' = seeded(c, x)
       /\ unlinked' = IF x = "taxes" /\ ~accountsFound(c) THEN unlinked \cup {c} ELSE unlinked
    /\ UNCHANGED <<companies, creators, recorded, readers, startup, faults, history>>

\* Faulty variant: the seeder goes on with the next table.
FaultyNextAfterFailure(x) == after(x)

\* The first error ends the seeding; the submission goes on.
nextAfterFailure(x) == [at |-> "invites"]

\* A statement fails, or the index refuses the rows: logged.
SubmitSeedFails(c) ==
    /\ submits[c].at \in {"count", "insert"}
    /\ LET x == submits[c].table IN
       /\ SubmitStep(c, submits[c], nextAfterFailure(x))
       /\ IF submits[c].at = "insert" /\ ~indexAllows(c, x) THEN UNCHANGED faults ELSE Fault
    /\ UNCHANGED <<data, readers, startup, history>>

\* sendInvites, whose errors go into the answer; Membership has the rest.
SendInvites(c) ==
    /\ SubmitStep(c, [at |-> "invites"], [at |-> "ok"])
    /\ UNCHANGED <<data, readers, startup, faults, history>>

----------------------------------------------------------------------------
(* A member opens a list, or adds and deletes rows. *)

ReaderStep(r, to) == readers' = [readers EXCEPT ![r] = to]

\* A member with a role may open the lists; one without a role has permissions
\* through the fallback only.
MayEnter(c) ==
    companies[c] = "active" /\ (creators[c] = "owner" \/ (Fallback /\ creators[c] = "roleless"))

\* An empty list without a filter is seeded; any other one changes nothing.
List(r, c, x) ==
    /\ Serving
    /\ readers[r].at = "idle"
    /\ MayEnter(c) /\ IsEmpty(c, x)
    /\ ReaderStep(r, [at |-> "count", company |-> c, table |-> x])
    /\ UNCHANGED <<data, submits, startup, faults, history>>

\* Faulty variant: the list that was read has already shown that there are none.
FaultySeedCount(r) ==
    /\ readers[r].at = "count"
    /\ ReaderStep(r, [readers[r] EXCEPT !.at = "insert"])
    /\ UNCHANGED <<data, submits, startup, faults, history>>

\* Faulty variant: only a company whose submission has ended well is healed.
FaultySelfHeal(r) ==
    /\ readers[r].at = "count"
    /\ LET c == readers[r].company IN
       ReaderStep(r, IF IsEmpty(c, readers[r].table) /\ submits[c].at = "ok"
                     THEN [readers[r] EXCEPT !.at = "insert"] ELSE [at |-> "idle"])
    /\ UNCHANGED <<data, submits, startup, faults, history>>

SeedCount(r) ==
    /\ readers[r].at = "count"
    /\ ReaderStep(r, IF IsEmpty(readers[r].company, readers[r].table)
                     THEN [readers[r] EXCEPT !.at = "insert"] ELSE [at |-> "idle"])
    /\ UNCHANGED <<data, submits, startup, faults, history>>

SeedInsert(r) ==
    /\ readers[r].at = "insert"
    /\ LET c == readers[r].company
           x == readers[r].table IN
       indexAllows(c, x) /\ tables' = seeded(c, x)
    /\ ReaderStep(r, [at |-> "idle"])
    /\ UNCHANGED <<companies, creators, unlinked, recorded, submits, startup, faults, history>>

\* The list stays as empty as it was read.
SeedFails(r) ==
    /\ readers[r].at \in {"count", "insert"}
    /\ IF readers[r].at = "insert" /\ ~indexAllows(readers[r].company, readers[r].table)
       THEN UNCHANGED faults ELSE Fault
    /\ ReaderStep(r, [at |-> "idle"])
    /\ UNCHANGED <<data, submits, startup, history>>

\* Rows a user makes, and deletes: only built-in rows stay.
OwnRow(c, x) ==
    /\ Serving
    /\ MayEnter(c)
    /\ tables' = [tables EXCEPT ![c][x].own = ~@]
    /\ ownChart' = IF x = "accounts" /\ tables[c][x].seeds = 0 THEN ownChart \cup {c} ELSE ownChart
    /\ UNCHANGED <<companies, creators, unlinked, recorded, submits, readers, startup, faults, orphans>>

----------------------------------------------------------------------------
(* The process. *)

\* The answers of every request in flight are lost.
Crash ==
    /\ startup.at /= "down"
    /\ Fault
    /\ startup' = [at |-> "down"]
    /\ submits' = [c \in Companies |-> IF submits[c].at \in {"new", "ok", "failed"} THEN submits[c]
                                                                          ELSE [at |-> "failed"]]
    /\ readers' = [r \in Readers |-> [at |-> "idle"]]
    /\ orphans' = orphans \cup {c \in Companies : submits[c].at \in {"created", "rollback"}}
    /\ UNCHANGED <<data, ownChart>>

\* runServer: the requests in flight are answered first.
Shutdown ==
    /\ Serving
    /\ \A r \in Readers : readers[r].at = "idle"
    /\ \A c \in Companies : submits[c].at \in {"new", "ok", "failed"}
    /\ startup' = [at |-> "down"]
    /\ UNCHANGED <<data, submits, readers, faults, history>>

Start ==
    /\ startup.at = "down"
    /\ startup' = [at |-> "check"]
    /\ UNCHANGED <<data, submits, readers, faults, history>>

StartupStep(to) ==
    startup' = to /\ UNCHANGED <<companies, creators, unlinked, submits, readers, history>>

\* BackfillUnitsOnce: without a record, the companies are listed.
BackfillCheck ==
    /\ startup.at = "check"
    /\ StartupStep(IF recorded THEN [at |-> "up"]
                   ELSE [at |-> "next", todo |-> {c \in Companies : companies[c] = "active"}])
    /\ UNCHANGED <<tables, recorded, faults>>

BackfillCount(c) ==
    /\ startup.at = "next" /\ c \in startup.todo
    /\ StartupStep(IF IsEmpty(c, "units") THEN [at |-> "insert", todo |-> startup.todo, company |-> c]
                   ELSE [startup EXCEPT !.todo = @ \ {c}])
    /\ UNCHANGED <<tables, recorded, faults>>

BackfillInsert ==
    /\ startup.at = "insert"
    /\ StartupStep([at |-> "next", todo |-> startup.todo \ {startup.company}])
    /\ tables' = seeded(startup.company, "units")
    /\ UNCHANGED <<recorded, faults>>

BackfillRecord ==
    /\ startup = [at |-> "next", todo |-> {}]
    /\ StartupStep([at |-> "up"])
    /\ recorded' = TRUE
    /\ UNCHANGED <<tables, faults>>

\* Faulty variant: a company that fails is skipped.
FaultyBackfillFails ==
    /\ startup.at = "insert"
    /\ Fault
    /\ StartupStep([at |-> "next", todo |-> startup.todo \ {startup.company}])
    /\ UNCHANGED <<tables, recorded>>

\* The first error ends the backfill, without the record; the process goes on.
BackfillFails ==
    /\ startup.at \in {"check", "next", "insert"}
    /\ Fault
    /\ StartupStep([at |-> "up"])
    /\ UNCHANGED <<tables, recorded>>

----------------------------------------------------------------------------
(* The specification. *)

aboutToSeed(c, x) ==
    {r \in Readers : readers[r] = [at |-> "insert", company |-> c, table |-> x]}
        \cup (IF submits[c] = [at |-> "insert", table |-> x] THEN {"submit"} ELSE {})

\* No index keeps the second set of defaults out of these.
Unindexed == Tables \ {"accounts", "books"}

overlaps == {p \in Companies \X Unindexed : Cardinality(aboutToSeed(p[1], p[2])) > 1}

\* Before the first start there may be companies from before these tables.
Init ==
    /\ \E old \in SUBSET Companies :
          /\ companies = [c \in Companies |-> IF c \in old THEN "active" ELSE "absent"]
          /\ creators \in [Companies -> {"none", "owner", "roleless"}]
          /\ \A c \in Companies : creators[c] = "none" <=> c \notin old
          /\ submits = [c \in Companies |-> [at |-> IF c \in old THEN "ok" ELSE "new"]]
    /\ tables = [c \in Companies |-> [x \in Tables |-> [seeds |-> 0, own |-> FALSE]]]
    /\ unlinked = {}
    /\ readers = [r \in Readers |-> [at |-> "idle"]]
    /\ startup = [at |-> "down"]
    /\ recorded = FALSE
    /\ faults = 0
    /\ orphans = {} /\ raced = {} /\ ownChart = {}

Submit(c) ==
    CreateCompany(c) \/ LinkCompanyCreator(c) \/ HardDeleteCompany(c)
        \/ SubmitCount(c) \/ SubmitInsert(c) \/ SendInvites(c)

SubmitFails(c) == LinkFails(c) \/ HardDeleteFails(c) \/ SubmitSeedFails(c)

Read(r) == SeedCount(r) \/ SeedInsert(r)

Startup ==
    Start \/ BackfillCheck \/ (\E c \in Companies : BackfillCount(c)) \/ BackfillInsert
        \/ BackfillRecord

Next ==
    /\ \/ \E c \in Companies : Submit(c) \/ SubmitFails(c)
       \/ \E r \in Readers : Read(r) \/ SeedFails(r)
       \/ \E r \in Readers, c \in Companies, x \in Tables : List(r, c, x)
       \/ \E c \in Companies, x \in OwnTables : OwnRow(c, x)
       \/ Startup \/ BackfillFails \/ Crash \/ Shutdown
    /\ raced' = raced \cup overlaps'

\* A request that has found a list empty runs to its answer, unless the process
\* ends.  Nothing makes a user open a list.
Fairness ==
    \A r \in Readers : WF_vars((Read(r) \/ SeedFails(r)) /\ raced' = raced \cup overlaps')

Spec == Init /\ [][Next]_vars /\ Fairness

----------------------------------------------------------------------------
(* Properties. *)

\* A company is active without a member only while its submission runs, or when
\* a crash or a failed rollback cut the submission off.  (Whether the member is
\* an owner is up to the SSO: the code tolerates a creator without a role.)
NoMemberlessCompany ==
    \A c \in Companies : companies[c] = "active" /\ creators[c] = "none" =>
        c \in orphans \/ submits[c].at \in {"created", "rollback"}

\* A table gets its defaults once, whoever seeds it and however often it is
\* tried again; taxes and units may get them twice when two requests were
\* about to insert them at once, accounts and books never.
SeededOnce ==
    \A c \in Companies, x \in Tables :
        tables[c][x].seeds > 1 => x \in {"taxes", "units"} /\ <<c, x>> \in raced

\* The taxes of a submission know their accounts, unless the user made an
\* account before the chart was there.
TaxesLinked == unlinked \subseteq ownChart

\* The backfill is recorded when every company has units, and only then, so
\* that what a crash or an error left out is done at the next start.
BackfillReachesAll ==
    [][recorded' /= recorded =>
          \A c \in Companies : companies[c] = "active" => ~IsEmpty(c, "units")]_vars

\* A table whose list is found empty again and again gets its defaults, however
\* the submission ended and whatever failed before; only rows of the user's own,
\* there again and again, can keep them away.
EventuallySeeded ==
    \A c \in Companies, x \in Tables :
        []<>(\E r \in Readers : readers[r] = [at |-> "count", company |-> c, table |-> x]) =>
            <>(tables[c][x].seeds > 0) \/ []<>tables[c][x].own
=============================================================================
