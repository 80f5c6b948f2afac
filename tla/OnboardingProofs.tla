-------------------------- MODULE OnboardingProofs --------------------------
(* Proofs about Onboarding for any number of companies and readers, with   *)
(* any number of faults.                                                   *)
EXTENDS Onboarding, CompanyState, FiniteSetTheorems, TLAPS

----------------------------------------------------------------------------
(* The inductive invariant. *)

\* While the process is down or in the backfill, no request is in flight.
Quiet ==
    /\ \A r \in Readers : readers[r] = [at |-> "idle"]
    /\ \A c \in Companies : submits[c].at \in {"new", "ok", "failed"}

QuietWhileStarting == ~Serving => Quiet

\* A table that has its defaults is about to get them again only when two
\* requests were about to insert them at once.
AgainIsRaced == \A c \in Companies, x \in Unindexed :
    tables[c][x].seeds > 0 /\ aboutToSeed(c, x) /= {} => <<c, x>> \in raced

\* Those who have seeded a table, or are about to, are the requests there are.
SeedsBounded == \A c \in Companies, x \in Tables :
    tables[c][x].seeds + Cardinality(aboutToSeed(c, x)) <= MaxSeeds

\* An account is there before the taxes are seeded: the one of the template,
\* unless the user was faster.
ChartFirst == \A c \in Companies :
    /\ tables[c]["accounts"].own => accountsFound(c) \/ c \in ownChart
    /\ submits[c].at \in {"count", "insert"} /\ submits[c].table /= "accounts" =>
          accountsFound(c) \/ c \in ownChart

\* What the backfill has done, and what it is about to do.
BackfillDone ==
    /\ startup.at \in {"next", "insert"} => \A c \in Companies :
          companies[c] = "active" => c \in startup.todo \/ ~IsEmpty(c, "units")
    /\ startup.at = "insert" => IsEmpty(startup.company, "units")

IInv ==
    /\ TypeOK /\ QuietWhileStarting
    /\ overlaps \subseteq raced /\ AgainIsRaced /\ SeedsBounded /\ SeededOnce
    /\ ChartFirst /\ TaxesLinked
    /\ BackfillDone
    /\ NoMemberlessCompany

----------------------------------------------------------------------------
(* The requests about to seed a table, and how a step changes them. *)

LEMMA MaxSeedsIsNat == MaxSeeds \in Nat /\ MaxSeeds = Cardinality(Readers) + 1
<1>1. IsFiniteSet(Readers)
  BY OnboardingAssumption
<1>2. Cardinality(Readers) \in Nat
  BY <1>1, FS_CardinalityType
<1> QED
  BY <1>2 DEF MaxSeeds

\* At most every reader and the submission are about to seed a table.
LEMMA AboutBounded ==
    ASSUME NEW S, S \subseteq Readers \cup {"submit"}
    PROVE  IsFiniteSet(S) /\ Cardinality(S) \in Nat /\ Cardinality(S) <= MaxSeeds
<1>1. IsFiniteSet(Readers) /\ "submit" \notin Readers
  BY OnboardingAssumption
<1>2. /\ IsFiniteSet(Readers \cup {"submit"})
      /\ Cardinality(Readers \cup {"submit"}) = Cardinality(Readers) + 1
  BY <1>1, FS_AddElement
<1>3. IsFiniteSet(S) /\ Cardinality(S) <= Cardinality(Readers \cup {"submit"})
  BY <1>2, FS_Subset
<1>4. Cardinality(S) \in Nat
  BY <1>3, FS_CardinalityType
<1> QED
  BY <1>2, <1>3, <1>4 DEF MaxSeeds

\* Taking one request away leaves one less.
LEMMA OneLess ==
    ASSUME NEW S, S \subseteq Readers \cup {"submit"}, NEW s \in S, NEW T, T \subseteq S \ {s}
    PROVE  /\ Cardinality(T) \in Nat /\ Cardinality(T) + 1 <= Cardinality(S)
           /\ T # {} => Cardinality(S) > 1
<1>1. IsFiniteSet(S) /\ Cardinality(S) \in Nat
  BY AboutBounded
<1>2. IsFiniteSet(S \ {s}) /\ Cardinality(S \ {s}) = Cardinality(S) - 1
  BY <1>1, FS_RemoveElement
<1>3. IsFiniteSet(T) /\ Cardinality(T) <= Cardinality(S \ {s})
  BY <1>2, FS_Subset
<1>4. Cardinality(T) \in Nat /\ (T # {} => Cardinality(T) # 0)
  BY <1>3, FS_CardinalityType, FS_EmptySet
<1> QED
  BY <1>1, <1>2, <1>3, <1>4

\* What a step does to the seeding of a table: nothing, or it lets go;
Rests(c, x) ==
    /\ tables'[c][x].seeds = tables[c][x].seeds
    /\ aboutToSeed(c, x)' \subseteq aboutToSeed(c, x)

\* it finds the table empty;
FindsEmpty(c, x) == tables[c][x].seeds = 0 /\ tables'[c][x].seeds = 0

\* one of those about to seed it inserts the defaults;
Inserts(c, x) ==
    /\ tables'[c][x].seeds = tables[c][x].seeds + 1
    /\ \E s \in aboutToSeed(c, x) : aboutToSeed(c, x)' \subseteq aboutToSeed(c, x) \ {s}
    /\ indexAllows(c, x)

\* or the backfill does, when there is nobody else.
Backfills(c, x) ==
    /\ tables[c][x].seeds = 0 /\ tables'[c][x].seeds = 1
    /\ aboutToSeed(c, x)' = {}

SeedStep == \A c \in Companies, x \in Tables :
    Rests(c, x) \/ FindsEmpty(c, x) \/ Inserts(c, x) \/ Backfills(c, x)

LEMMA AboutType == \A c, x : aboutToSeed(c, x) \subseteq Readers \cup {"submit"}
  BY DEF aboutToSeed

\* What the rows of a table are.
LEMMA RowType ==
    ASSUME TypeOK, NEW c \in Companies, NEW x \in Tables
    PROVE  /\ tables \in [Companies -> [Tables -> [seeds : 0..MaxSeeds, own : BOOLEAN]]]
           /\ tables[c][x] \in [seeds : 0..MaxSeeds, own : BOOLEAN]
           /\ tables[c][x].seeds \in Nat /\ tables[c][x].own \in BOOLEAN
  BY MaxSeedsIsNat DEF TypeOK

\* What seeding a table does to the rows of every table.
LEMMA Seeded ==
    ASSUME TypeOK, NEW c \in Companies, NEW x \in Tables, tables' = seeded(c, x)
    PROVE  \A d \in Companies, y \in Tables :
              /\ tables'[d][y].own = tables[d][y].own
              /\ tables'[d][y].seeds =
                    IF d = c /\ y = x THEN tables[d][y].seeds + 1 ELSE tables[d][y].seeds
  BY RowType DEF seeded, TypeOK

\* A submission that moves on lets go of what it was about to insert.
LEMMA SubmitLetsGo ==
    ASSUME TypeOK, NEW c \in Companies, NEW to, SubmitStep(c, submits[c], to),
           to.at # "insert", readers' = readers
    PROVE  \A d \in Companies, x \in Tables :
              aboutToSeed(d, x)' \subseteq
                  IF d = c THEN aboutToSeed(d, x) \ {"submit"} ELSE aboutToSeed(d, x)
<1> SUFFICES ASSUME NEW d \in Companies, NEW x \in Tables
             PROVE  aboutToSeed(d, x)' \subseteq
                        IF d = c THEN aboutToSeed(d, x) \ {"submit"} ELSE aboutToSeed(d, x)
  OBVIOUS
<1>1. submits' = [submits EXCEPT ![c] = to] /\ to # [at |-> "insert", table |-> x]
  BY DEF SubmitStep
<1>2. submits'[d] = IF d = c THEN to ELSE submits[d]
  BY <1>1 DEF TypeOK
<1> QED
  BY <1>1, <1>2, OnboardingAssumption DEF aboutToSeed

\* So does a reader that becomes idle or is still counting.
LEMMA ReaderLetsGo ==
    ASSUME TypeOK, NEW r \in Readers, NEW to, ReaderStep(r, to),
           to.at # "insert", submits' = submits
    PROVE  \A d \in Companies, x \in Tables :
              aboutToSeed(d, x)' \subseteq aboutToSeed(d, x) \ {r}
<1> SUFFICES ASSUME NEW d \in Companies, NEW x \in Tables
             PROVE  aboutToSeed(d, x)' \subseteq aboutToSeed(d, x) \ {r}
  OBVIOUS
<1>1. readers' = [readers EXCEPT ![r] = to] /\ to # [at |-> "insert", company |-> d, table |-> x]
  BY DEF ReaderStep
<1>2. \A q \in Readers : readers'[q] = IF q = r THEN to ELSE readers[q]
  BY <1>1 DEF TypeOK
<1>3. aboutToSeed(d, x)' \subseteq aboutToSeed(d, x)
  BY <1>1, <1>2 DEF aboutToSeed
<1>4. r \notin aboutToSeed(d, x)'
  BY <1>1, <1>2, OnboardingAssumption DEF aboutToSeed
<1> QED
  BY <1>3, <1>4

----------------------------------------------------------------------------
(* The steps, and what they do to the seeding of the tables. *)

\* A step is one of these.
LEMMA Steps ==
    ASSUME Next
    PROVE  \/ \E c \in Companies : Submit(c) \/ SubmitFails(c)
           \/ \E r \in Readers : Read(r) \/ SeedFails(r)
           \/ \E r \in Readers, c \in Companies, x \in Tables : List(r, c, x)
           \/ \E c \in Companies, x \in OwnTables : OwnRow(c, x)
           \/ Startup \/ BackfillFails \/ Crash \/ Shutdown
  BY DEF Next

\* A request in flight needs a process that serves.
LEMMA Flying ==
    ASSUME TypeOK, QuietWhileStarting
    PROVE  /\ \A c \in Companies : submits[c].at \notin {"new", "ok", "failed"} => Serving
           /\ \A r \in Readers : readers[r].at # "idle" => Serving
  BY DEF QuietWhileStarting, Quiet

\* When nothing is in flight, nobody is about to seed.
LEMMA QuietSeedsNothing ==
    ASSUME NEW c \in Companies, NEW x \in Tables, Quiet
    PROVE  aboutToSeed(c, x) = {}
<1>1. \A r \in Readers : readers[r] # [at |-> "insert", company |-> c, table |-> x]
  BY DEF Quiet
<1>2. submits[c] # [at |-> "insert", table |-> x]
  BY DEF Quiet
<1> QED
  BY <1>1, <1>2 DEF aboutToSeed

\* Where a submission goes when it leaves a table.
LEMMA AfterTable ==
    ASSUME NEW x \in {"accounts", "taxes", "units"}
    PROVE  /\ after(x) \in {[at |-> "count", table |-> "taxes"], [at |-> "count", table |-> "units"],
                            [at |-> "invites"]}
           /\ after(x).at \in {"count", "invites"}
  BY DEF after

\* A step that leaves the tables alone and does not begin an insert.
LEMMA RestsWhenUnchanged ==
    ASSUME tables' = tables,
           \A d \in Companies, y \in Tables : aboutToSeed(d, y)' \subseteq aboutToSeed(d, y)
    PROVE  SeedStep
  BY DEF SeedStep, Rests

\* The same with the requests where they were.
LEMMA RestsWhenNobodyMoves ==
    ASSUME submits' = submits, readers' = readers,
           \A d \in Companies, y \in Tables : tables'[d][y].seeds = tables[d][y].seeds
    PROVE  SeedStep
  BY DEF SeedStep, Rests, aboutToSeed

\* What a submission is at.
LEMMA SubmitType ==
    ASSUME TypeOK, NEW c \in Companies
    PROVE  LET q == submits[c] IN
           /\ q.at \in {"new", "created", "rollback", "invites", "ok", "failed", "count", "insert"}
           /\ q.at \in {"count", "insert"} =>
                 /\ q.table \in {"accounts", "taxes", "units"} /\ q.table \in Tables
                 /\ q = [at |-> q.at, table |-> q.table]
  BY OnboardingAssumption DEF TypeOK, Seeding

\* What a reader is at.
LEMMA ReaderType ==
    ASSUME TypeOK, NEW r \in Readers
    PROVE  LET q == readers[r] IN
           /\ q.at \in {"idle", "count", "insert"}
           /\ q.at = "idle" => q = [at |-> "idle"]
           /\ q.at # "idle" =>
                 /\ q.company \in Companies /\ q.table \in Tables
                 /\ q = [at |-> q.at, company |-> q.company, table |-> q.table]
  BY DEF TypeOK

\* A submission that finds a table empty is about to seed it.
LEMMA SubmitCountSeeds ==
    ASSUME TypeOK, NEW c \in Companies, SubmitCount(c)
    PROVE  SeedStep
<1> DEFINE x == submits[c].table
<1>1. /\ submits[c].at = "count" /\ tables' = tables /\ readers' = readers
      /\ x \in {"accounts", "taxes", "units"} /\ x \in Tables
  BY SubmitType DEF SubmitCount, data
<1>2. CASE IsEmpty(c, x)
  <2>1. submits' = [submits EXCEPT ![c] = [at |-> "insert", table |-> x]]
    BY <1>2 DEF SubmitCount, SubmitStep
  <2>2. \A d \in Companies, y \in Tables :
           d # c \/ y # x => aboutToSeed(d, y)' = aboutToSeed(d, y)
    <3> SUFFICES ASSUME NEW d \in Companies, NEW y \in Tables, d # c \/ y # x
                 PROVE  aboutToSeed(d, y)' = aboutToSeed(d, y)
      OBVIOUS
    <3>1. submits'[d] = IF d = c THEN [at |-> "insert", table |-> x] ELSE submits[d]
      BY <2>1 DEF TypeOK
    <3>2. submits'[d] = [at |-> "insert", table |-> y] <=> submits[d] = [at |-> "insert", table |-> y]
      <4>1. CASE d = c
        <5>1. x # y
          BY <4>1
        <5>2. [at |-> "insert", table |-> x] # [at |-> "insert", table |-> y]
          BY <5>1
        <5>3. submits[d] # [at |-> "insert", table |-> y]
          BY <1>1, <4>1
        <5> QED
          BY <3>1, <4>1, <5>2, <5>3
      <4> QED
        BY <3>1, <4>1
    <3> QED
      BY <1>1, <3>2 DEF aboutToSeed
  <2>3. \A d \in Companies, y \in Tables : IF d = c /\ y = x THEN FindsEmpty(d, y) ELSE Rests(d, y)
    BY <1>1, <1>2, <2>2 DEF FindsEmpty, Rests, IsEmpty
  <2> HIDE DEF x
  <2> QED
    BY <2>3 DEF SeedStep
<1>3. CASE ~IsEmpty(c, x)
  <2>1. SubmitStep(c, submits[c], after(x))
    BY <1>3 DEF SubmitCount
  <2>2. after(x).at # "insert"
    BY <1>1, AfterTable
  <2>3. \A d \in Companies, y \in Tables : aboutToSeed(d, y)' \subseteq aboutToSeed(d, y)
    BY <1>1, <2>1, <2>2, SubmitLetsGo
  <2> QED
    BY <1>1, <2>3, RestsWhenUnchanged
<1> QED
  BY <1>2, <1>3

\* A submission inserts the defaults of the table it found empty.
LEMMA SubmitInsertSeeds ==
    ASSUME TypeOK, NEW c \in Companies, SubmitInsert(c)
    PROVE  SeedStep
<1> DEFINE x == submits[c].table
<1>1. /\ submits[c].at = "insert" /\ submits[c] = [at |-> "insert", table |-> x]
      /\ x \in {"accounts", "taxes", "units"} /\ x \in Tables
  BY SubmitType DEF SubmitInsert
<1>2. /\ indexAllows(c, x) /\ tables' = seeded(c, x) /\ readers' = readers
      /\ SubmitStep(c, submits[c], after(x))
  BY DEF SubmitInsert
<1>3. after(x).at # "insert"
  BY <1>1, AfterTable
<1>4. \A d \in Companies, y \in Tables :
         aboutToSeed(d, y)' \subseteq
             IF d = c THEN aboutToSeed(d, y) \ {"submit"} ELSE aboutToSeed(d, y)
  BY <1>2, <1>3, SubmitLetsGo
<1>5. "submit" \in aboutToSeed(c, x)
  BY <1>1 DEF aboutToSeed
<1> HIDE DEF x
<1>6. \A d \in Companies, y \in Tables : IF d = c /\ y = x THEN Inserts(d, y) ELSE Rests(d, y)
  BY <1>1, <1>2, <1>4, <1>5, Seeded DEF Inserts, Rests
<1> QED
  BY <1>6 DEF SeedStep

\* A reader that finds a table empty is about to seed it.
LEMMA SeedCountSeeds ==
    ASSUME TypeOK, NEW r \in Readers, SeedCount(r)
    PROVE  SeedStep
<1> DEFINE c == readers[r].company
           x == readers[r].table
<1>1. /\ readers[r].at = "count" /\ tables' = tables /\ submits' = submits
      /\ c \in Companies /\ x \in Tables
      /\ readers[r] = [at |-> "count", company |-> c, table |-> x]
  BY ReaderType DEF SeedCount, data
<1>2. CASE IsEmpty(c, x)
  <2>1. readers' = [readers EXCEPT ![r] = [readers[r] EXCEPT !.at = "insert"]]
    BY <1>2 DEF SeedCount, ReaderStep
  <2>2. [readers[r] EXCEPT !.at = "insert"] = [at |-> "insert", company |-> c, table |-> x]
    BY <1>1
  <2>3. \A q \in Readers : readers'[q] =
           IF q = r THEN [at |-> "insert", company |-> c, table |-> x] ELSE readers[q]
    BY <2>1, <2>2 DEF TypeOK
  <2>4. \A d \in Companies, y \in Tables :
           d # c \/ y # x => aboutToSeed(d, y)' \subseteq aboutToSeed(d, y)
    <3> SUFFICES ASSUME NEW d \in Companies, NEW y \in Tables, d # c \/ y # x
                 PROVE  aboutToSeed(d, y)' \subseteq aboutToSeed(d, y)
      OBVIOUS
    <3>1. [at |-> "insert", company |-> c, table |-> x] # [at |-> "insert", company |-> d, table |-> y]
      OBVIOUS
    <3> QED
      BY <1>1, <2>3, <3>1 DEF aboutToSeed
  <2>5. \A d \in Companies, y \in Tables : IF d = c /\ y = x THEN FindsEmpty(d, y) ELSE Rests(d, y)
    BY <1>1, <1>2, <2>4 DEF FindsEmpty, Rests, IsEmpty
  <2> HIDE DEF c, x
  <2> QED
    BY <2>5 DEF SeedStep
<1>3. CASE ~IsEmpty(c, x)
  <2>1. ReaderStep(r, [at |-> "idle"])
    BY <1>3 DEF SeedCount
  <2>2. \A d \in Companies, y \in Tables : aboutToSeed(d, y)' \subseteq aboutToSeed(d, y)
    BY <1>1, <2>1, ReaderLetsGo
  <2> QED
    BY <1>1, <2>2, RestsWhenUnchanged
<1> QED
  BY <1>2, <1>3

\* A reader inserts the defaults of the table it found empty.
LEMMA SeedInsertSeeds ==
    ASSUME TypeOK, NEW r \in Readers, SeedInsert(r)
    PROVE  SeedStep
<1> DEFINE c == readers[r].company
           x == readers[r].table
<1>1. /\ readers[r].at = "insert" /\ c \in Companies /\ x \in Tables
      /\ readers[r] = [at |-> "insert", company |-> c, table |-> x]
  BY ReaderType DEF SeedInsert
<1>2. /\ indexAllows(c, x) /\ tables' = seeded(c, x) /\ submits' = submits
      /\ ReaderStep(r, [at |-> "idle"])
  BY DEF SeedInsert
<1>3. \A d \in Companies, y \in Tables : aboutToSeed(d, y)' \subseteq aboutToSeed(d, y) \ {r}
  BY <1>2, ReaderLetsGo
<1>4. r \in aboutToSeed(c, x)
  BY <1>1 DEF aboutToSeed
<1> HIDE DEF c, x
<1>5. \A d \in Companies, y \in Tables : IF d = c /\ y = x THEN Inserts(d, y) ELSE Rests(d, y)
  BY <1>1, <1>2, <1>3, <1>4, Seeded DEF Inserts, Rests
<1> QED
  BY <1>5 DEF SeedStep

\* What a row of the user's own does to the tables.
LEMMA OwnRowTables ==
    ASSUME TypeOK, NEW c \in Companies, NEW x \in Tables, OwnRow(c, x)
    PROVE  /\ tables' \in [Companies -> [Tables -> [seeds : 0..MaxSeeds, own : BOOLEAN]]]
           /\ \A d \in Companies, y \in Tables :
                 /\ tables'[d][y].seeds = tables[d][y].seeds
                 /\ d # c \/ y # x => tables'[d][y] = tables[d][y]
<1>1. tables' = [tables EXCEPT ![c][x].own = ~@]
  BY DEF OwnRow
<1>2. PICK has \in BOOLEAN : has = ~tables[c][x].own
  OBVIOUS
<1>3. tables' = [tables EXCEPT ![c][x].own = has]
  BY <1>1, <1>2
<1> QED
  BY <1>3, RowType

\* A submission's other steps insert nothing.
LEMMA SubmitRestSeeds ==
    ASSUME TypeOK, NEW c \in Companies,
           \/ CreateCompany(c) \/ LinkCompanyCreator(c) \/ HardDeleteCompany(c) \/ SendInvites(c)
           \/ SubmitFails(c)
    PROVE  SeedStep
<1>1. PICK to \in {"created", "rollback", "failed", "ok", "invites", "count"} :
         \E q : q.at = to /\ SubmitStep(c, submits[c], q)
  <2>1. CASE CreateCompany(c)
    BY <2>1 DEF CreateCompany, SubmitStep
  <2>2. CASE LinkCompanyCreator(c)
    BY <2>2 DEF LinkCompanyCreator, SubmitStep
  <2>3. CASE HardDeleteCompany(c)
    BY <2>3 DEF HardDeleteCompany, SubmitStep
  <2>4. CASE SendInvites(c)
    BY <2>4 DEF SendInvites, SubmitStep
  <2>5. CASE SubmitFails(c)
    BY <2>5 DEF SubmitFails, LinkFails, HardDeleteFails, SubmitSeedFails, SubmitStep, nextAfterFailure
  <2> QED
    BY <2>1, <2>2, <2>3, <2>4, <2>5
<1>2. tables' = tables /\ readers' = readers
  BY DEF CreateCompany, LinkCompanyCreator, HardDeleteCompany, SendInvites, SubmitFails,
         LinkFails, HardDeleteFails, SubmitSeedFails, data
<1>3. \A d \in Companies, y \in Tables : aboutToSeed(d, y)' \subseteq aboutToSeed(d, y)
  BY <1>1, <1>2, SubmitLetsGo
<1> QED
  BY <1>2, <1>3, RestsWhenUnchanged

\* The opening of a list, and a reader that fails, insert nothing.
LEMMA ReaderRestSeeds ==
    ASSUME TypeOK, NEW r \in Readers,
           SeedFails(r) \/ \E c \in Companies, x \in Tables : List(r, c, x)
    PROVE  SeedStep
<1>1. PICK to : to.at # "insert" /\ ReaderStep(r, to)
  <2>1. CASE SeedFails(r)
    BY <2>1 DEF SeedFails
  <2>2. ASSUME NEW c \in Companies, NEW x \in Tables, List(r, c, x)
        PROVE  \E to : to.at # "insert" /\ ReaderStep(r, to)
    <3>1. ReaderStep(r, [at |-> "count", company |-> c, table |-> x])
      BY <2>2 DEF List
    <3>2. [at |-> "count", company |-> c, table |-> x].at # "insert"
      OBVIOUS
    <3> QED
      BY <3>1, <3>2
  <2> QED
    BY <2>1, <2>2
<1>2. tables' = tables /\ submits' = submits
  BY DEF SeedFails, List, data
<1>3. \A d \in Companies, y \in Tables : aboutToSeed(d, y)' \subseteq aboutToSeed(d, y)
  BY <1>1, <1>2, ReaderLetsGo
<1> QED
  BY <1>2, <1>3, RestsWhenUnchanged

\* The backfill seeds a table nobody else is about to seed.
LEMMA BackfillInsertSeeds ==
    ASSUME TypeOK, QuietWhileStarting, BackfillDone, BackfillInsert
    PROVE  SeedStep
<1> DEFINE c == startup.company
<1>1. /\ startup.at = "insert" /\ c \in Companies
      /\ tables' = seeded(c, "units") /\ submits' = submits /\ readers' = readers
  BY DEF BackfillInsert, StartupStep, TypeOK
<1>2. "units" \in Tables /\ tables[c]["units"].seeds = 0
  BY <1>1, OnboardingAssumption DEF BackfillDone, IsEmpty
<1>3. Quiet
  BY <1>1 DEF QuietWhileStarting, Serving
<1>4. \A d \in Companies, y \in Tables : aboutToSeed(d, y)' = aboutToSeed(d, y)
  BY <1>1 DEF aboutToSeed
<1>5. aboutToSeed(c, "units") = {}
  BY <1>1, <1>2, <1>3, QuietSeedsNothing
<1> HIDE DEF c
<1>6. \A d \in Companies, y \in Tables :
         IF d = c /\ y = "units" THEN Backfills(d, y) ELSE Rests(d, y)
  BY <1>1, <1>2, <1>4, <1>5, Seeded DEF Backfills, Rests
<1> QED
  BY <1>6 DEF SeedStep

\* The process stops, and with it every request.
LEMMA CrashSeeds ==
    ASSUME TypeOK, Crash
    PROVE  SeedStep
<1>1. tables' = tables
  BY DEF Crash, data
<1>2. \A r \in Readers : readers'[r] = [at |-> "idle"]
  BY DEF Crash
<1>3. \A c \in Companies : submits'[c].at \in {"new", "ok", "failed"}
  BY DEF Crash
<1>4. \A c \in Companies, x \in Tables : aboutToSeed(c, x)' = {}
  <2> SUFFICES ASSUME NEW c \in Companies, NEW x \in Tables
               PROVE  aboutToSeed(c, x)' = {}
    OBVIOUS
  <2>1. submits'[c] # [at |-> "insert", table |-> x]
    BY <1>3
  <2> QED
    BY <1>2, <2>1 DEF aboutToSeed
<1> QED
  BY <1>1, <1>4, RestsWhenUnchanged

\* Every step does one of the four things to the seeding of each table.
LEMMA SeedSteps ==
    ASSUME TypeOK, QuietWhileStarting, BackfillDone, Next
    PROVE  SeedStep
<1>1. ASSUME NEW c \in Companies, Submit(c) \/ SubmitFails(c)
      PROVE  SeedStep
  BY <1>1, SubmitCountSeeds, SubmitInsertSeeds, SubmitRestSeeds DEF Submit
<1>2. ASSUME NEW r \in Readers, Read(r) \/ SeedFails(r)
      PROVE  SeedStep
  BY <1>2, SeedCountSeeds, SeedInsertSeeds, ReaderRestSeeds DEF Read
<1>3. ASSUME NEW r \in Readers, NEW c \in Companies, NEW x \in Tables, List(r, c, x)
      PROVE  SeedStep
  BY <1>3, ReaderRestSeeds
<1>4. ASSUME NEW c \in Companies, NEW x \in OwnTables, OwnRow(c, x)
      PROVE  SeedStep
  <2>1. x \in Tables
    BY OnboardingAssumption
  <2> QED
    BY <1>4, <2>1, OwnRowTables, RestsWhenNobodyMoves DEF OwnRow
<1>5. CASE Startup \/ BackfillFails \/ Shutdown
  <2>1. CASE BackfillInsert
    BY <2>1, BackfillInsertSeeds
  <2>2. CASE ~BackfillInsert
    <3>1. tables' = tables /\ submits' = submits /\ readers' = readers
      BY <1>5, <2>2 DEF Startup, Start, BackfillCheck, BackfillCount, BackfillRecord,
                        BackfillFails, Shutdown, StartupStep, data
    <3> QED
      BY <3>1, RestsWhenNobodyMoves
  <2> QED
    BY <2>1, <2>2
<1>6. CASE Crash
  BY <1>6, CrashSeeds
<1> QED
  BY <1>1, <1>2, <1>3, <1>4, <1>5, <1>6, Steps

----------------------------------------------------------------------------
(* How often a table is seeded. *)

LEMMA SeedsStayBounded ==
    ASSUME TypeOK, SeedsBounded, SeedStep
    PROVE  SeedsBounded'
<1> SUFFICES ASSUME NEW c \in Companies, NEW x \in Tables
             PROVE  tables'[c][x].seeds + Cardinality(aboutToSeed(c, x)') <= MaxSeeds
  BY DEF SeedsBounded, MaxSeeds
<1> DEFINE S == aboutToSeed(c, x)
           T == aboutToSeed(c, x)'
           n == tables[c][x].seeds
<1>1. n \in Nat /\ MaxSeeds \in Nat /\ n + Cardinality(S) <= MaxSeeds
  BY RowType, MaxSeedsIsNat DEF SeedsBounded
<1>2. S \subseteq Readers \cup {"submit"}
  BY AboutType
<1>3. T \subseteq Readers \cup {"submit"}
  BY DEF aboutToSeed
<1>4. Cardinality(S) \in Nat /\ IsFiniteSet(S)
  BY <1>2, AboutBounded
<1>5. Cardinality(T) \in Nat /\ Cardinality(T) <= MaxSeeds
  BY <1>3, AboutBounded
<1> HIDE DEF S, T, n
<1>6. CASE Rests(c, x)
  <2>1. Cardinality(T) <= Cardinality(S)
    BY <1>4, <1>6, FS_Subset DEF Rests, S, T
  <2> QED
    BY <1>1, <1>4, <1>5, <1>6, <2>1 DEF Rests, n, T
<1>7. CASE FindsEmpty(c, x)
  BY <1>5, <1>7 DEF FindsEmpty, T
<1>8. CASE Inserts(c, x)
  <2>1. PICK s \in S : T \subseteq S \ {s}
    BY <1>8 DEF Inserts, S, T
  <2>2. Cardinality(T) + 1 <= Cardinality(S)
    BY <1>2, <2>1, OneLess
  <2> QED
    BY <1>1, <1>4, <1>5, <1>8, <2>2 DEF Inserts, n, T
<1>9. CASE Backfills(c, x)
  <2>1. Cardinality({}) = 0 /\ MaxSeeds >= 1
    <3>1. Cardinality({}) = 0
      BY FS_EmptySet
    <3>2. IsFiniteSet(Readers)
      BY OnboardingAssumption
    <3>3. Cardinality(Readers) \in Nat
      BY <3>2, FS_CardinalityType
    <3> QED
      BY <3>1, <3>3, MaxSeedsIsNat
  <2> QED
    BY <1>9, <2>1 DEF Backfills
<1> QED
  BY <1>6, <1>7, <1>8, <1>9 DEF SeedStep

\* A table that was seeded and is about to be seeded again was raced for: the
\* request that inserted was not the only one.
LEMMA AgainStaysRaced ==
    ASSUME TypeOK, SeedStep, AgainIsRaced, overlaps \subseteq raced, raced \subseteq raced'
    PROVE  AgainIsRaced'
<1> SUFFICES ASSUME NEW c \in Companies, NEW x \in Unindexed,
                    tables'[c][x].seeds > 0, aboutToSeed(c, x)' # {}
             PROVE  <<c, x>> \in raced'
  BY DEF AgainIsRaced, Unindexed
<1> DEFINE S == aboutToSeed(c, x)
           T == aboutToSeed(c, x)'
<1>1. x \in Tables /\ tables[c][x].seeds \in Nat
  BY RowType DEF Unindexed
<1>2. S \subseteq Readers \cup {"submit"}
  BY AboutType
<1>3. CASE Rests(c, x)
  BY <1>1, <1>3 DEF Rests, AgainIsRaced
<1>4. CASE FindsEmpty(c, x)
  BY <1>4 DEF FindsEmpty
<1>5. CASE Inserts(c, x)
  <2>1. PICK s \in S : T \subseteq S \ {s}
    BY <1>5 DEF Inserts
  <2>2. T # {}
    OBVIOUS
  <2> HIDE DEF S, T
  <2>3. Cardinality(S) > 1
    BY <1>2, <2>1, <2>2, OneLess
  <2>4. <<c, x>> \in overlaps
    BY <2>3 DEF overlaps, S
  <2> QED
    BY <2>4
<1>6. CASE Backfills(c, x)
  BY <1>6 DEF Backfills
<1> QED
  BY <1>1, <1>3, <1>4, <1>5, <1>6 DEF SeedStep

\* A second set of defaults is one that was raced for, and that no index refused.
LEMMA SeededOnceStays ==
    ASSUME TypeOK, SeedStep, SeededOnce, AgainIsRaced, raced \subseteq raced'
    PROVE  SeededOnce'
<1> SUFFICES ASSUME NEW c \in Companies, NEW x \in Tables, tables'[c][x].seeds > 1
             PROVE  x \in {"taxes", "units"} /\ <<c, x>> \in raced'
  BY DEF SeededOnce
<1>1. tables[c][x].seeds \in Nat
  BY RowType
<1>2. CASE Rests(c, x)
  BY <1>2 DEF Rests, SeededOnce
<1>3. CASE FindsEmpty(c, x)
  BY <1>3 DEF FindsEmpty
<1>4. CASE Inserts(c, x)
  <2>1. tables[c][x].seeds > 0 /\ aboutToSeed(c, x) # {}
    BY <1>1, <1>4 DEF Inserts
  <2>2. x \in Unindexed
    BY <1>4, <2>1 DEF Inserts, indexAllows, Unindexed
  <2>3. x \in {"taxes", "units"}
    BY <2>2, OnboardingAssumption DEF Unindexed
  <2> QED
    BY <2>1, <2>2, <2>3 DEF AgainIsRaced
<1>5. CASE Backfills(c, x)
  BY <1>5 DEF Backfills
<1> QED
  BY <1>2, <1>3, <1>4, <1>5 DEF SeedStep

----------------------------------------------------------------------------
(* Requests and the process. *)

\* Requests move only while the process serves.
LEMMA RequestsServed ==
    ASSUME TypeOK, QuietWhileStarting,
           \/ \E c \in Companies : Submit(c) \/ SubmitFails(c)
           \/ \E r \in Readers : Read(r) \/ SeedFails(r)
           \/ \E r \in Readers, c \in Companies, x \in Tables : List(r, c, x)
           \/ \E c \in Companies, x \in OwnTables : OwnRow(c, x)
    PROVE  Serving /\ startup' = startup /\ recorded' = recorded
<1>1. ASSUME NEW c \in Companies, Submit(c) \/ SubmitFails(c)
      PROVE  Serving /\ startup' = startup /\ recorded' = recorded
  <2>1. Serving
    <3>1. CASE CreateCompany(c)
      BY <3>1 DEF CreateCompany
    <3>2. CASE ~CreateCompany(c)
      <4>1. submits[c].at \in {"created", "rollback", "count", "insert", "invites"}
        BY <1>1, <3>2 DEF Submit, SubmitFails, LinkCompanyCreator, HardDeleteCompany, SubmitCount,
           SubmitInsert, SendInvites, LinkFails, HardDeleteFails, SubmitSeedFails, SubmitStep
      <4> QED
        BY <4>1, Flying
    <3> QED
      BY <3>1, <3>2
  <2>2. startup' = startup /\ recorded' = recorded
    BY <1>1 DEF Submit, SubmitFails, CreateCompany, LinkCompanyCreator, HardDeleteCompany,
       SubmitCount, SubmitInsert, SendInvites, LinkFails, HardDeleteFails, SubmitSeedFails, data
  <2> QED
    BY <2>1, <2>2
<1>2. ASSUME NEW r \in Readers, Read(r) \/ SeedFails(r)
      PROVE  Serving /\ startup' = startup /\ recorded' = recorded
  <2>1. readers[r].at \in {"count", "insert"}
    BY <1>2 DEF Read, SeedCount, SeedInsert, SeedFails
  <2>2. startup' = startup /\ recorded' = recorded
    BY <1>2 DEF Read, SeedCount, SeedInsert, SeedFails, data
  <2> QED
    BY <2>1, <2>2, Flying
<1> QED
  BY <1>1, <1>2 DEF List, OwnRow, data

LEMMA QuietStays ==
    ASSUME TypeOK, QuietWhileStarting, Next
    PROVE  QuietWhileStarting'
<1>1. CASE Serving /\ startup' = startup
  BY <1>1 DEF QuietWhileStarting, Serving
<1>2. CASE Startup \/ BackfillFails
  <2>1. startup.at # "up" /\ submits' = submits /\ readers' = readers
    BY <1>2 DEF Startup, Start, BackfillCheck, BackfillCount, BackfillInsert, BackfillRecord,
       BackfillFails, StartupStep
  <2>2. Quiet
    BY <2>1 DEF QuietWhileStarting, Serving
  <2> QED
    BY <2>1, <2>2 DEF QuietWhileStarting, Quiet
<1>3. CASE Crash
  BY <1>3 DEF Crash, QuietWhileStarting, Quiet
<1>4. CASE Shutdown
  <2>1. \A r \in Readers : readers[r] = [at |-> "idle"]
    BY <1>4, ReaderType DEF Shutdown
  <2> QED
    BY <1>4, <2>1 DEF Shutdown, QuietWhileStarting, Quiet
<1> QED
  BY <1>1, <1>2, <1>3, <1>4, Steps, RequestsServed

----------------------------------------------------------------------------
(* The backfill. *)

\* A row of a company's units stays one while the backfill runs.
LEMMA BackfillStays ==
    ASSUME TypeOK, QuietWhileStarting, BackfillDone, Next
    PROVE  BackfillDone'
<1>1. CASE startup'.at \notin {"next", "insert"}
  BY <1>1 DEF BackfillDone
<1>2. CASE BackfillCheck
  <2>1. CASE recorded
    BY <1>2, <2>1 DEF BackfillCheck, StartupStep, BackfillDone
  <2>2. CASE ~recorded
    <3>1. /\ startup' = [at |-> "next", todo |-> {c \in Companies : companies[c] = "active"}]
          /\ companies' = companies
      BY <1>2, <2>2 DEF BackfillCheck, StartupStep
    <3> QED
      BY <3>1 DEF BackfillDone
  <2> QED
    BY <2>1, <2>2 DEF TypeOK
<1>3. ASSUME NEW c \in Companies, BackfillCount(c)
      PROVE  BackfillDone'
  <2>1. startup.at = "next" /\ companies' = companies /\ tables' = tables
    BY <1>3 DEF BackfillCount, StartupStep
  <2>2. CASE IsEmpty(c, "units")
    <3>1. startup' = [at |-> "insert", todo |-> startup.todo, company |-> c]
      BY <1>3, <2>2 DEF BackfillCount, StartupStep
    <3> QED
      BY <2>1, <2>2, <3>1 DEF BackfillDone, IsEmpty
  <2>3. CASE ~IsEmpty(c, "units")
    <3>1. startup' = [startup EXCEPT !.todo = startup.todo \ {c}]
      BY <1>3, <2>3 DEF BackfillCount, StartupStep
    <3>2. PICK todo \in SUBSET Companies : startup = [at |-> "next", todo |-> todo]
      BY <2>1 DEF TypeOK
    <3>3. startup' = [at |-> "next", todo |-> todo \ {c}]
      BY <3>1, <3>2
    <3> QED
      BY <2>1, <2>3, <3>2, <3>3 DEF BackfillDone, IsEmpty
  <2> QED
    BY <2>2, <2>3
<1>4. CASE BackfillInsert
  <2>1. PICK todo \in SUBSET Companies, c \in Companies :
           startup = [at |-> "insert", todo |-> todo, company |-> c]
    BY <1>4 DEF BackfillInsert, TypeOK
  <2>2. /\ startup' = [at |-> "next", todo |-> todo \ {c}]
        /\ tables' = seeded(c, "units") /\ companies' = companies
    BY <1>4, <2>1 DEF BackfillInsert, StartupStep
  <2>3. "units" \in Tables
    BY OnboardingAssumption
  <2>4. \A d \in Companies : /\ tables'[d]["units"].own = tables[d]["units"].own
                            /\ tables[d]["units"].seeds \in Nat
                            /\ tables'[d]["units"].seeds =
                                 IF d = c THEN tables[d]["units"].seeds + 1
                                          ELSE tables[d]["units"].seeds
    BY <2>2, <2>3, Seeded, RowType
  <2> QED
    BY <2>1, <2>2, <2>4 DEF BackfillDone, IsEmpty
<1>5. CASE Serving /\ startup' = startup
  BY <1>5 DEF BackfillDone, Serving
<1>6. CASE Start \/ BackfillRecord \/ BackfillFails \/ Crash \/ Shutdown
  <2>1. startup'.at \in {"down", "check", "up"}
    BY <1>6 DEF Start, BackfillRecord, BackfillFails, Crash, Shutdown, StartupStep
  <2> QED
    BY <1>1, <2>1
<1> QED
  BY <1>2, <1>3, <1>4, <1>5, <1>6, Steps, RequestsServed DEF Startup

\* Only the end of the backfill records it.
LEMMA BackfillRecords ==
    ASSUME TypeOK, QuietWhileStarting, BackfillDone, Next
    PROVE  recorded' # recorded =>
              \A c \in Companies : companies[c] = "active" => ~IsEmpty(c, "units")
<1>1. CASE BackfillRecord
  <2>1. startup = [at |-> "next", todo |-> {}]
    BY <1>1 DEF BackfillRecord
  <2> QED
    BY <2>1 DEF BackfillDone
<1>2. CASE ~BackfillRecord /\ (Startup \/ BackfillFails \/ Crash \/ Shutdown)
  BY <1>2 DEF Startup, Start, BackfillCheck, BackfillCount, BackfillInsert, BackfillFails, Crash,
     Shutdown, data
<1> QED
  BY <1>1, <1>2, Steps, RequestsServed

----------------------------------------------------------------------------
(* Accounts come before taxes. *)

\* No step takes a table's defaults, or an own account that came too early, away.
LEMMA SeedsGrow ==
    ASSUME TypeOK, SeedStep
    PROVE  \A c \in Companies, x \in Tables :
              /\ tables'[c][x].seeds \in Nat
              /\ tables'[c][x].seeds >= tables[c][x].seeds
<1> SUFFICES ASSUME NEW c \in Companies, NEW x \in Tables
             PROVE  /\ tables'[c][x].seeds \in Nat
                    /\ tables'[c][x].seeds >= tables[c][x].seeds
  OBVIOUS
<1>1. tables[c][x].seeds \in Nat
  BY RowType
<1> QED
  BY <1>1 DEF SeedStep, Rests, FindsEmpty, Inserts, Backfills

\* How a step leaves the user's own rows: all but OwnRow keep them.
LEMMA OwnRows ==
    ASSUME TypeOK, Next
    PROVE  \/ /\ \A c \in Companies, x \in Tables : tables'[c][x].own = tables[c][x].own
              /\ tables' \in [Companies -> [Tables -> [seeds : Nat, own : BOOLEAN]]]
              /\ ownChart' = ownChart
           \/ \E c \in Companies, x \in OwnTables : OwnRow(c, x)
<1> DEFINE Kept == /\ \A c \in Companies, x \in Tables : tables'[c][x].own = tables[c][x].own
                   /\ tables' \in [Companies -> [Tables -> [seeds : Nat, own : BOOLEAN]]]
<1>1. tables' = tables => Kept
  BY MaxSeedsIsNat DEF TypeOK
<1>2. ASSUME NEW c \in Companies, NEW x \in Tables, tables' = seeded(c, x)
      PROVE  Kept
  <2>1. PICK n \in Nat : n = tables[c][x].seeds + 1
    BY RowType
  <2>2. tables' = [tables EXCEPT ![c][x].seeds = n]
    BY <1>2, <2>1 DEF seeded
  <2>3. tables \in [Companies -> [Tables -> [seeds : Nat, own : BOOLEAN]]]
    BY MaxSeedsIsNat DEF TypeOK
  <2> QED
    BY <2>2, <2>3
<1>3. ASSUME NEW c \in Companies, Submit(c) \/ SubmitFails(c)
      PROVE  ownChart' = ownChart /\ Kept
  <2>1. CASE SubmitInsert(c)
    <3>1. submits[c].table \in Tables
      BY <2>1, SubmitType DEF SubmitInsert
    <3> QED
      BY <1>2, <2>1, <3>1 DEF SubmitInsert, history
  <2>2. CASE ~SubmitInsert(c)
    BY <1>1, <1>3, <2>2 DEF Submit, SubmitFails, CreateCompany, LinkCompanyCreator,
       HardDeleteCompany, SubmitCount, SendInvites, LinkFails, HardDeleteFails, SubmitSeedFails,
       data, history
  <2> QED
    BY <2>1, <2>2
<1>4. ASSUME NEW r \in Readers,
             \/ Read(r) \/ SeedFails(r)
             \/ \E c \in Companies, x \in Tables : List(r, c, x)
      PROVE  ownChart' = ownChart /\ Kept
  <2>1. CASE SeedInsert(r)
    <3>1. readers[r].company \in Companies /\ readers[r].table \in Tables
      BY <2>1, ReaderType DEF SeedInsert
    <3> QED
      BY <1>2, <2>1, <3>1 DEF SeedInsert, history
  <2>2. CASE ~SeedInsert(r)
    BY <1>1, <1>4, <2>2 DEF Read, SeedCount, SeedFails, List, data, history
  <2> QED
    BY <2>1, <2>2
<1>5. CASE Startup \/ BackfillFails \/ Crash \/ Shutdown
  <2>1. CASE BackfillInsert
    <3>1. startup.company \in Companies /\ "units" \in Tables
      BY <2>1, OnboardingAssumption DEF BackfillInsert, TypeOK
    <3> QED
      BY <1>2, <2>1, <3>1 DEF BackfillInsert, StartupStep, history
  <2>2. CASE ~BackfillInsert
    <3>1. tables' = tables /\ ownChart' = ownChart
      BY <1>5, <2>2 DEF Startup, Start, BackfillCheck, BackfillCount, BackfillRecord,
         BackfillFails, Crash, Shutdown, StartupStep, data, history
    <3> QED
      BY <1>1, <3>1
  <2> QED
    BY <2>1, <2>2
<1> QED
  BY <1>3, <1>4, <1>5, Steps

\* The histories only grow.
LEMMA HistoriesGrow ==
    ASSUME Next
    PROVE  ownChart \subseteq ownChart' /\ orphans \subseteq orphans' /\ raced \subseteq raced'
<1>1. raced \subseteq raced'
  BY DEF Next
<1>2. ASSUME NEW c \in Companies, Submit(c) \/ SubmitFails(c)
      PROVE  ownChart \subseteq ownChart' /\ orphans \subseteq orphans'
  BY <1>2 DEF Submit, SubmitFails, CreateCompany, LinkCompanyCreator, HardDeleteCompany,
     SubmitCount, SubmitInsert, SendInvites, LinkFails, HardDeleteFails, SubmitSeedFails, history
<1>3. ASSUME NEW r \in Readers,
             \/ Read(r) \/ SeedFails(r)
             \/ \E c \in Companies, x \in Tables : List(r, c, x)
      PROVE  ownChart \subseteq ownChart' /\ orphans \subseteq orphans'
  BY <1>3 DEF Read, SeedCount, SeedInsert, SeedFails, List, history
<1>4. ASSUME NEW c \in Companies, NEW x \in OwnTables, OwnRow(c, x)
      PROVE  ownChart \subseteq ownChart' /\ orphans \subseteq orphans'
  BY <1>4 DEF OwnRow
<1>5. CASE Startup \/ BackfillFails \/ Crash \/ Shutdown
  BY <1>1, <1>5 DEF Startup, Start, BackfillCheck, BackfillCount, BackfillInsert, BackfillRecord,
     BackfillFails, Crash, Shutdown, StartupStep, history
<1> QED
  BY <1>1, <1>2, <1>3, <1>4, <1>5, Steps

\* An own account does not keep the chart out unless it was there first.
LEMMA OwnAccountNoted ==
    ASSUME TypeOK, ChartFirst, SeedStep, Next, NEW c \in Companies
    PROVE  tables'[c]["accounts"].own => accountsFound(c)' \/ c \in ownChart'
<1>1. "accounts" \in Tables
  BY OnboardingAssumption
<1>2. accountsFound(c) => accountsFound(c)'
  BY <1>1, SeedsGrow, RowType DEF accountsFound
<1>3. ownChart \subseteq ownChart'
  BY HistoriesGrow
<1>4. CASE tables'[c]["accounts"].own = tables[c]["accounts"].own
  BY <1>2, <1>3, <1>4 DEF ChartFirst
<1>5. ASSUME NEW d \in Companies, NEW x \in OwnTables, OwnRow(d, x)
      PROVE  tables'[c]["accounts"].own => accountsFound(c)' \/ c \in ownChart'
  <2>1. x \in Tables
    BY OnboardingAssumption
  <2>2. CASE c # d \/ x # "accounts"
    BY <1>1, <1>4, <1>5, <2>1, <2>2, OwnRowTables
  <2>3. CASE c = d /\ x = "accounts"
    <3>1. CASE tables[c][x].seeds = 0
      BY <1>5, <2>3, <3>1 DEF OwnRow
    <3>2. CASE tables[c][x].seeds # 0
      BY <1>1, <1>2, <2>3, <3>2, RowType DEF accountsFound
    <3> QED
      BY <3>1, <3>2
  <2> QED
    BY <2>2, <2>3
<1> QED
  BY <1>1, <1>4, <1>5, OwnRows

\* Only its own submission, or the end of the process, moves a submission.
LEMMA SubmissionMoves ==
    ASSUME TypeOK, Next, NEW c \in Companies, ~Submit(c), ~SubmitFails(c)
    PROVE  /\ companies'[c] = companies[c]
           /\ creators[c] # "none" => creators'[c] # "none"
           /\ \/ submits'[c] = submits[c]
              \/ Crash /\ submits'[c] = [at |-> "failed"]
<1> DEFINE Goal == /\ companies'[c] = companies[c]
                   /\ creators[c] # "none" => creators'[c] # "none"
                   /\ \/ submits'[c] = submits[c]
                      \/ Crash /\ submits'[c] = [at |-> "failed"]
<1>1. ASSUME NEW d \in Companies, Submit(d) \/ SubmitFails(d)
      PROVE  Goal
  <2>1. d # c
    BY <1>1
  <2>2. /\ \E to : SubmitStep(d, submits[d], to)
        /\ creators' = creators \/ \E role \in {"owner", "roleless"} :
              creators' = [creators EXCEPT ![d] = role]
        /\ companies' = companies \/ \E to : companies' = [companies EXCEPT ![d] = to]
    <3>1. CASE Submit(d)
      BY <3>1 DEF Submit, CreateCompany, LinkCompanyCreator, HardDeleteCompany,
         SubmitCount, SubmitInsert, SendInvites, SubmitStep, data
    <3>2. CASE SubmitFails(d)
      BY <3>2 DEF SubmitFails, LinkFails, HardDeleteFails, SubmitSeedFails, SubmitStep, data
    <3> QED
      BY <1>1, <3>1, <3>2
  <2>3. submits'[c] = submits[c]
    BY <2>1, <2>2 DEF SubmitStep, TypeOK
  <2> QED
    BY <2>1, <2>2, <2>3 DEF TypeOK
<1>2. ASSUME NEW r \in Readers,
             \/ Read(r) \/ SeedFails(r)
             \/ \E d \in Companies, x \in Tables : List(r, d, x)
      PROVE  Goal
  BY <1>2 DEF Read, SeedCount, SeedInsert, SeedFails, List, data
<1>3. ASSUME NEW d \in Companies, NEW x \in OwnTables, OwnRow(d, x)
      PROVE  Goal
  BY <1>3 DEF OwnRow
<1>4. CASE Startup \/ BackfillFails \/ Shutdown
  BY <1>4 DEF Startup, Start, BackfillCheck, BackfillCount, BackfillInsert, BackfillRecord,
     BackfillFails, Shutdown, StartupStep, data
<1>5. CASE Crash
  BY <1>5 DEF Crash, data
<1> QED
  BY <1>1, <1>2, <1>3, <1>4, <1>5, Steps

\* The submission reaches the taxes only when there is an account to link them to.
LEMMA ChartStaysFirst ==
    ASSUME TypeOK, ChartFirst, SeedStep, Next
    PROVE  ChartFirst'
<1> SUFFICES ASSUME NEW c \in Companies
             PROVE  /\ tables'[c]["accounts"].own => accountsFound(c)' \/ c \in ownChart'
                    /\ submits'[c].at \in {"count", "insert"} /\ submits'[c].table # "accounts" =>
                          accountsFound(c)' \/ c \in ownChart'
  BY DEF ChartFirst
<1>1. tables'[c]["accounts"].own => accountsFound(c)' \/ c \in ownChart'
  BY OwnAccountNoted
<1>2. "accounts" \in Tables
  BY OnboardingAssumption
<1>3. accountsFound(c) \/ c \in ownChart => accountsFound(c)' \/ c \in ownChart'
  BY <1>2, SeedsGrow, RowType, HistoriesGrow DEF accountsFound
<1>4. ASSUME submits'[c].at \in {"count", "insert"}, submits'[c].table # "accounts"
      PROVE  accountsFound(c)' \/ c \in ownChart'
  <2>1. CASE SubmitCount(c) \/ SubmitInsert(c)
    <3>1. submits[c].at \in {"count", "insert"}
      BY <2>1 DEF SubmitCount, SubmitInsert
    <3>2. CASE submits[c].table # "accounts"
      BY <1>3, <3>1, <3>2 DEF ChartFirst
    <3>3. CASE submits[c].table = "accounts" /\ SubmitInsert(c)
      BY <1>2, <3>3, Seeded, RowType DEF SubmitInsert, accountsFound
    <3>4. CASE submits[c].table = "accounts" /\ SubmitCount(c)
      <4>1. ~IsEmpty(c, "accounts")
        <5>1. SUFFICES ASSUME IsEmpty(c, "accounts") PROVE FALSE
          OBVIOUS
        <5>2. submits' = [submits EXCEPT ![c] = [at |-> "insert", table |-> "accounts"]]
          BY <3>4, <5>1 DEF SubmitCount, SubmitStep
        <5> QED
          BY <1>4, <5>2 DEF TypeOK
      <4> QED
        BY <1>2, <1>3, <4>1, RowType DEF IsEmpty, ChartFirst, accountsFound
    <3> QED
      BY <2>1, <3>2, <3>3, <3>4
  <2>2. CASE LinkCompanyCreator(c)
    BY <1>4, <2>2 DEF LinkCompanyCreator, SubmitStep, TypeOK
  <2>3. CASE \/ CreateCompany(c) \/ HardDeleteCompany(c) \/ SendInvites(c)
             \/ SubmitFails(c)
    BY <1>4, <2>3 DEF CreateCompany, HardDeleteCompany, SendInvites, SubmitFails, LinkFails,
       HardDeleteFails, SubmitSeedFails, SubmitStep, nextAfterFailure, TypeOK
  <2>4. CASE ~Submit(c) /\ ~SubmitFails(c)
    <3>1. submits'[c] = submits[c]
      BY <1>4, <2>4, SubmissionMoves
    <3> QED
      BY <1>3, <1>4, <3>1 DEF ChartFirst
  <2> QED
    BY <2>1, <2>2, <2>3, <2>4 DEF Submit
<1> QED
  BY <1>1, <1>4

LEMMA TaxesStayLinked ==
    ASSUME TypeOK, ChartFirst, TaxesLinked, Next
    PROVE  TaxesLinked' /\ unlinked' \subseteq Companies
<1>1. ownChart \subseteq ownChart' /\ unlinked \subseteq Companies
  BY HistoriesGrow DEF TypeOK
<1>2. ASSUME NEW c \in Companies, SubmitInsert(c)
      PROVE  unlinked' \subseteq ownChart /\ unlinked' \subseteq Companies
  <2>1. CASE submits[c].table = "taxes" /\ ~accountsFound(c)
    <3>1. unlinked' = unlinked \cup {c}
      BY <1>2, <2>1 DEF SubmitInsert
    <3>2. c \in ownChart
      BY <1>2, <2>1 DEF SubmitInsert, ChartFirst
    <3> QED
      BY <1>1, <3>1, <3>2 DEF TaxesLinked
  <2>2. CASE ~(submits[c].table = "taxes" /\ ~accountsFound(c))
    BY <1>1, <1>2, <2>2 DEF SubmitInsert, TaxesLinked
  <2> QED
    BY <2>1, <2>2
<1>3. ASSUME NEW c \in Companies, ~SubmitInsert(c), Submit(c) \/ SubmitFails(c)
      PROVE  unlinked' = unlinked
  BY <1>3 DEF Submit, SubmitFails, CreateCompany, LinkCompanyCreator, HardDeleteCompany,
     SubmitCount, SendInvites, LinkFails, HardDeleteFails, SubmitSeedFails, data
<1>4. ASSUME NEW r \in Readers,
             \/ Read(r) \/ SeedFails(r)
             \/ \E d \in Companies, x \in Tables : List(r, d, x)
      PROVE  unlinked' = unlinked
  BY <1>4 DEF Read, SeedCount, SeedInsert, SeedFails, List, data
<1>5. ASSUME NEW d \in Companies, NEW x \in OwnTables, OwnRow(d, x)
      PROVE  unlinked' = unlinked
  BY <1>5 DEF OwnRow
<1>6. Startup \/ BackfillFails \/ Shutdown \/ Crash => unlinked' = unlinked
  BY DEF Startup, Start, BackfillCheck, BackfillCount, BackfillInsert, BackfillRecord,
     BackfillFails, Shutdown, Crash, StartupStep, data
<1> QED
  BY <1>1, <1>2, <1>3, <1>4, <1>5, <1>6, Steps DEF TaxesLinked

LEMMA MemberlessStaysExcused ==
    ASSUME TypeOK, NoMemberlessCompany, Next
    PROVE  NoMemberlessCompany'
<1> SUFFICES ASSUME NEW c \in Companies, companies'[c] = "active", creators'[c] = "none"
             PROVE  c \in orphans' \/ submits'[c].at \in {"created", "rollback"}
  BY DEF NoMemberlessCompany
<1>1. orphans \subseteq orphans'
  BY HistoriesGrow
<1>2. CASE CreateCompany(c)
  BY <1>2 DEF CreateCompany, SubmitStep, TypeOK
<1>3. CASE LinkCompanyCreator(c)
  BY <1>3 DEF LinkCompanyCreator, TypeOK
<1>4. CASE HardDeleteCompany(c)
  BY <1>4 DEF HardDeleteCompany, TypeOK
<1>5. CASE LinkFails(c)
  BY <1>5 DEF LinkFails, SubmitStep, TypeOK
<1>6. CASE HardDeleteFails(c)
  BY <1>6 DEF HardDeleteFails
<1>7. CASE SubmitCount(c) \/ SubmitInsert(c) \/ SendInvites(c) \/ SubmitSeedFails(c)
  <2>1. /\ submits[c].at \in {"count", "insert", "invites"}
        /\ companies' = companies /\ creators' = creators
    BY <1>7 DEF SubmitCount, SubmitInsert, SendInvites, SubmitSeedFails, SubmitStep, data
  <2> QED
    BY <1>1, <2>1 DEF NoMemberlessCompany
<1>8. CASE ~Submit(c) /\ ~SubmitFails(c)
  <2>1. c \in orphans \/ submits[c].at \in {"created", "rollback"}
    BY <1>8, SubmissionMoves DEF NoMemberlessCompany
  <2>2. Crash => orphans' = orphans \cup {d \in Companies : submits[d].at \in {"created", "rollback"}}
    BY DEF Crash
  <2> QED
    BY <1>1, <1>8, <2>1, <2>2, SubmissionMoves
<1> QED
  BY <1>2, <1>3, <1>4, <1>5, <1>6, <1>7, <1>8 DEF Submit, SubmitFails

----------------------------------------------------------------------------
(* Type correctness. *)

\* The types of what the requests write, apart from the tables and the history
\* of races, which depend on the seeding.
Requests ==
    /\ companies \in [Companies -> {"absent", "active", "purged"}]
    /\ creators \in [Companies -> {"none", "owner", "roleless"}]
    /\ submits \in [Companies -> Seeding \cup
          [at : {"new", "created", "rollback", "invites", "ok", "failed"}]]
    /\ readers \in [Readers ->
          [at : {"idle"}] \cup [at : {"count", "insert"}, company : Companies, table : Tables]]
    /\ faults \in 0..MaxFaults
    /\ orphans \subseteq Companies /\ ownChart \subseteq Companies

LEMMA FaultType ==
    ASSUME faults \in 0..MaxFaults, Fault \/ faults' = faults
    PROVE  faults' \in 0..MaxFaults
  BY OnboardingAssumption DEF Fault

LEMMA SubmitTypes ==
    ASSUME TypeOK, NEW c \in Companies, Submit(c) \/ SubmitFails(c)
    PROVE  Requests'
<1>1. ASSUME NEW to \in Seeding \cup [at : {"new", "created", "rollback", "invites", "ok", "failed"}],
             submits' = [submits EXCEPT ![c] = to], companies' = companies, creators' = creators,
             readers' = readers, faults' = faults \/ Fault,
             orphans' \subseteq Companies, ownChart' = ownChart
      PROVE  Requests'
  BY <1>1, FaultType DEF TypeOK, Requests, Seeding
<1>2. CASE CreateCompany(c)
  <2>1. [at |-> "created"] \in [at : {"new", "created", "rollback", "invites", "ok", "failed"}]
    OBVIOUS
  <2> QED
    BY <1>2, <2>1 DEF CreateCompany, SubmitStep, history, TypeOK, Requests, Seeding
<1>3. CASE LinkCompanyCreator(c)
  <2>1. [at |-> "count", table |-> "accounts"] \in Seeding
    BY DEF Seeding
  <2> QED
    BY <1>3, <2>1 DEF LinkCompanyCreator, SubmitStep, history, TypeOK, Requests
<1>4. CASE HardDeleteCompany(c)
  <2>1. [at |-> "failed"] \in [at : {"new", "created", "rollback", "invites", "ok", "failed"}]
    OBVIOUS
  <2> QED
    BY <1>4, <2>1 DEF HardDeleteCompany, SubmitStep, history, TypeOK, Requests, Seeding
<1>5. CASE SubmitCount(c)
  <2> DEFINE x == submits[c].table
  <2>1. x \in {"accounts", "taxes", "units"}
    BY <1>5, SubmitType DEF SubmitCount
  <2>2. PICK to : /\ to = after(x) \/ to = [at |-> "insert", table |-> x]
                  /\ submits' = [submits EXCEPT ![c] = to]
    BY <1>5 DEF SubmitCount, SubmitStep
  <2> HIDE DEF x
  <2>3. to \in Seeding \cup [at : {"new", "created", "rollback", "invites", "ok", "failed"}]
    BY <2>1, <2>2, AfterTable DEF Seeding
  <2> QED
    BY <1>1, <1>5, <2>2, <2>3 DEF SubmitCount, data, history, TypeOK
<1>6. CASE SubmitInsert(c)
  <2> DEFINE x == submits[c].table
  <2>1. x \in {"accounts", "taxes", "units"}
    BY <1>6, SubmitType DEF SubmitInsert
  <2>2. submits' = [submits EXCEPT ![c] = after(x)]
    BY <1>6 DEF SubmitInsert, SubmitStep
  <2> HIDE DEF x
  <2>3. after(x) \in Seeding \cup [at : {"new", "created", "rollback", "invites", "ok", "failed"}]
    BY <2>1, AfterTable DEF Seeding
  <2> QED
    BY <1>1, <1>6, <2>2, <2>3 DEF SubmitInsert, history, TypeOK
<1>7. CASE SendInvites(c) \/ SubmitFails(c)
  <2>1. PICK to \in [at : {"new", "created", "rollback", "invites", "ok", "failed"}] :
           submits' = [submits EXCEPT ![c] = to]
    BY <1>7 DEF SendInvites, SubmitFails, LinkFails, HardDeleteFails, SubmitSeedFails, SubmitStep,
       nextAfterFailure
  <2>2. /\ companies' = companies /\ creators' = creators /\ readers' = readers
        /\ faults' = faults \/ Fault
        /\ orphans' \subseteq Companies /\ ownChart' = ownChart
    BY <1>7 DEF SendInvites, SubmitFails, LinkFails, HardDeleteFails, SubmitSeedFails, data, history,
       TypeOK
  <2> QED
    BY <1>1, <2>1, <2>2
<1> QED
  BY <1>2, <1>3, <1>4, <1>5, <1>6, <1>7 DEF Submit

LEMMA ReaderTypes ==
    ASSUME TypeOK, NEW r \in Readers,
           \/ Read(r) \/ SeedFails(r)
           \/ \E c \in Companies, x \in Tables : List(r, c, x)
    PROVE  Requests'
<1> DEFINE Ats == [at : {"idle"}] \cup
                      [at : {"count", "insert"}, company : Companies, table : Tables]
<1>1. PICK to \in Ats : readers' = [readers EXCEPT ![r] = to]
  <2>1. CASE SeedCount(r)
    <3>1. readers[r].at = "count"
      BY <2>1 DEF SeedCount
    <3>2. PICK c \in Companies, x \in Tables :
             readers[r] = [at |-> "count", company |-> c, table |-> x]
      BY <3>1, ReaderType
    <3>3. [readers[r] EXCEPT !.at = "insert"] = [at |-> "insert", company |-> c, table |-> x]
      BY <3>2
    <3>4. [at |-> "insert", company |-> c, table |-> x] \in Ats /\ [at |-> "idle"] \in Ats
      OBVIOUS
    <3>5. \/ readers' = [readers EXCEPT ![r] = [at |-> "idle"]]
          \/ readers' = [readers EXCEPT ![r] = [at |-> "insert", company |-> c, table |-> x]]
      BY <2>1, <3>3 DEF SeedCount, ReaderStep
    <3> QED
      BY <3>4, <3>5
  <2>2. CASE SeedInsert(r) \/ SeedFails(r)
    BY <2>2 DEF SeedInsert, SeedFails, ReaderStep
  <2>3. ASSUME NEW c \in Companies, NEW x \in Tables, List(r, c, x)
        PROVE  \E to \in Ats : readers' = [readers EXCEPT ![r] = to]
    <3>1. [at |-> "count", company |-> c, table |-> x] \in Ats
      OBVIOUS
    <3> QED
      BY <2>3, <3>1 DEF List, ReaderStep
  <2> QED
    BY <2>1, <2>2, <2>3 DEF Read
<1>2. readers' \in [Readers -> Ats]
  BY <1>1 DEF TypeOK
<1>3. /\ companies' = companies /\ creators' = creators /\ submits' = submits
      /\ faults' = faults \/ Fault
      /\ orphans' = orphans /\ ownChart' = ownChart
  BY DEF Read, SeedCount, SeedInsert, SeedFails, List, data, history
<1> QED
  BY <1>2, <1>3, FaultType DEF TypeOK, Requests

LEMMA ProcessTypes ==
    ASSUME TypeOK, Startup \/ BackfillFails \/ Crash \/ Shutdown
    PROVE  Requests'
<1>1. CASE Crash
  <2>1. \A c \in Companies : submits'[c] \in
           Seeding \cup [at : {"new", "created", "rollback", "invites", "ok", "failed"}]
    BY <1>1 DEF Crash, TypeOK
  <2>2. submits' \in [Companies ->
           Seeding \cup [at : {"new", "created", "rollback", "invites", "ok", "failed"}]]
    BY <1>1, <2>1 DEF Crash
  <2>3. readers' \in [Readers ->
           [at : {"idle"}] \cup [at : {"count", "insert"}, company : Companies, table : Tables]]
    BY <1>1 DEF Crash
  <2>4. /\ companies' = companies /\ creators' = creators /\ Fault
        /\ orphans' \subseteq Companies /\ ownChart' = ownChart
    BY <1>1 DEF Crash, data, TypeOK
  <2> QED
    BY <2>2, <2>3, <2>4, FaultType DEF TypeOK, Requests
<1>2. CASE ~Crash
  <2>1. /\ companies' = companies /\ creators' = creators /\ submits' = submits /\ readers' = readers
        /\ faults' = faults \/ Fault
        /\ orphans' = orphans /\ ownChart' = ownChart
    BY <1>2 DEF Startup, Start, BackfillCheck, BackfillCount, BackfillInsert, BackfillRecord,
       BackfillFails, Shutdown, StartupStep, data, history
  <2> QED
    BY <2>1, FaultType DEF TypeOK, Requests
<1> QED
  BY <1>1, <1>2

\* Where the process can be.
Places == [at : {"down", "check", "up"}]
              \cup [at : {"next"}, todo : SUBSET Companies]
              \cup [at : {"insert"}, todo : SUBSET Companies, company : Companies]

LEMMA StartupTypes ==
    ASSUME TypeOK, QuietWhileStarting, Next
    PROVE  startup' \in Places /\ recorded' \in BOOLEAN
<1>1. CASE startup' = startup /\ recorded' = recorded
  BY <1>1 DEF TypeOK, Places
<1>2. CASE Start \/ Crash \/ Shutdown \/ BackfillFails
  <2>1. startup' = [at |-> "down"] \/ startup' = [at |-> "check"] \/ startup' = [at |-> "up"]
    BY <1>2 DEF Start, Crash, Shutdown, BackfillFails, StartupStep
  <2>2. recorded' = recorded
    BY <1>2 DEF Start, Crash, Shutdown, BackfillFails, data
  <2> QED
    BY <2>1, <2>2 DEF TypeOK, Places
<1>3. CASE BackfillCheck
  BY <1>3 DEF BackfillCheck, StartupStep, TypeOK, Places
<1>4. ASSUME NEW c \in Companies, BackfillCount(c)
      PROVE  startup' \in Places /\ recorded' \in BOOLEAN
  <2>1. PICK todo \in SUBSET Companies : startup = [at |-> "next", todo |-> todo]
    BY <1>4 DEF BackfillCount, TypeOK
  <2>2. [startup EXCEPT !.todo = @ \ {c}] = [at |-> "next", todo |-> todo \ {c}]
    BY <2>1
  <2>3. \/ startup' = [at |-> "insert", todo |-> todo, company |-> c]
        \/ startup' = [at |-> "next", todo |-> todo \ {c}]
    BY <1>4, <2>1, <2>2 DEF BackfillCount, StartupStep
  <2> QED
    BY <1>4, <2>3 DEF BackfillCount, TypeOK, Places
<1>5. CASE BackfillInsert
  <2>1. PICK todo \in SUBSET Companies : startup.todo = todo
    BY <1>5 DEF BackfillInsert, TypeOK
  <2>2. startup' = [at |-> "next", todo |-> todo \ {startup.company}]
    BY <1>5, <2>1 DEF BackfillInsert, StartupStep
  <2> QED
    BY <1>5, <2>2 DEF BackfillInsert, TypeOK, Places
<1>6. CASE BackfillRecord
  BY <1>6 DEF BackfillRecord, StartupStep, Places
<1> QED
  BY <1>1, <1>2, <1>3, <1>4, <1>5, <1>6, Steps, RequestsServed DEF Startup

LEMMA TypesHold ==
    ASSUME IInv, Next, SeedsBounded', TaxesLinked' /\ unlinked' \subseteq Companies
    PROVE  TypeOK'
<1>1. Requests'
  <2>1. ASSUME NEW c \in Companies, NEW x \in OwnTables, OwnRow(c, x)
        PROVE  Requests'
    BY <2>1 DEF OwnRow, IInv, TypeOK, Requests, Seeding
  <2> QED
    BY <2>1, Steps, SubmitTypes, ReaderTypes, ProcessTypes DEF IInv
<1>2. startup' \in Places /\ recorded' \in BOOLEAN
  BY StartupTypes DEF IInv
<1>3. raced' \subseteq Companies \X Tables
  BY DEF Next, IInv, TypeOK, overlaps, Unindexed
<1>4. tables' \in [Companies -> [Tables -> [seeds : 0..MaxSeeds, own : BOOLEAN]]]
  <2>1. ASSUME NEW c \in Companies, NEW x \in OwnTables, OwnRow(c, x)
        PROVE  tables' \in [Companies -> [Tables -> [seeds : 0..MaxSeeds, own : BOOLEAN]]]
    BY <2>1, OwnRowTables, OnboardingAssumption DEF IInv
  <2>2. ASSUME tables' \in [Companies -> [Tables -> [seeds : Nat, own : BOOLEAN]]]
        PROVE  tables' \in [Companies -> [Tables -> [seeds : 0..MaxSeeds, own : BOOLEAN]]]
    <3> SUFFICES ASSUME NEW c \in Companies, NEW x \in Tables
                 PROVE  tables'[c][x].seeds <= MaxSeeds
      BY <2>2, MaxSeedsIsNat
    <3>1. tables'[c][x].seeds + Cardinality(aboutToSeed(c, x)') <= MaxSeeds
      BY DEF SeedsBounded, MaxSeeds
    <3>2. aboutToSeed(c, x)' \subseteq Readers \cup {"submit"}
      BY DEF aboutToSeed
    <3>3. Cardinality(aboutToSeed(c, x)') \in Nat
      BY <3>2, AboutBounded
    <3>4. tables'[c][x].seeds \in Nat
      BY <2>2
    <3> QED
      BY <3>1, <3>3, <3>4, MaxSeedsIsNat
  <2> QED
    BY <2>1, <2>2, OwnRows DEF IInv
<1> QED
  BY <1>1, <1>2, <1>3, <1>4 DEF TypeOK, Requests, Places, MaxSeeds

----------------------------------------------------------------------------
(* The invariant is inductive. *)

LEMMA InitInvariant ==
    ASSUME Init
    PROVE  IInv
<1>1. Quiet
  BY DEF Init, Quiet
<1>2. \A c \in Companies, x \in Tables :
         tables[c][x].seeds = 0 /\ tables[c][x].own = FALSE /\ Cardinality(aboutToSeed(c, x)) = 0
  <2>1. Cardinality({}) = 0
    BY FS_EmptySet
  <2> QED
    BY <1>1, <2>1, QuietSeedsNothing DEF Init
<1>3. TypeOK
  <2>1. tables \in [Companies -> [Tables -> [seeds : 0..MaxSeeds, own : BOOLEAN]]]
    BY MaxSeedsIsNat DEF Init
  <2>2. submits \in [Companies -> Seeding \cup
           [at : {"new", "created", "rollback", "invites", "ok", "failed"}]]
    BY DEF Init
  <2>3. companies \in [Companies -> {"absent", "active", "purged"}] /\ creators \in [Companies -> {"none", "owner", "roleless"}]
    BY DEF Init
  <2>4. faults \in 0..MaxFaults
    BY OnboardingAssumption DEF Init
  <2>5. readers \in [Readers ->
           [at : {"idle"}] \cup [at : {"count", "insert"}, company : Companies, table : Tables]]
    BY DEF Init
  <2>6. /\ startup \in [at : {"down", "check", "up"}] /\ recorded \in BOOLEAN
        /\ unlinked = {} /\ orphans = {} /\ ownChart = {} /\ raced = {}
    BY DEF Init
  <2> QED
    BY <2>1, <2>2, <2>3, <2>4, <2>5, <2>6 DEF TypeOK
<1>4. QuietWhileStarting
  BY <1>1 DEF QuietWhileStarting
<1>5. overlaps \subseteq raced
  <2>1. ASSUME NEW p \in overlaps PROVE FALSE
    <3>1. /\ p[1] \in Companies /\ p[2] \in Tables
          /\ Cardinality(aboutToSeed(p[1], p[2])) > 1
      BY <2>1 DEF overlaps, Unindexed
    <3> QED
      BY <1>2, <3>1
  <2> QED
    BY <2>1
<1>6. AgainIsRaced /\ SeededOnce
  BY <1>2 DEF AgainIsRaced, Unindexed, SeededOnce
<1>7. SeedsBounded
  BY <1>2, MaxSeedsIsNat DEF SeedsBounded
<1>8. ChartFirst /\ TaxesLinked
  BY <1>1, <1>2, OnboardingAssumption DEF ChartFirst, TaxesLinked, Quiet, Init
<1>9. BackfillDone /\ NoMemberlessCompany
  BY DEF BackfillDone, NoMemberlessCompany, Init
<1> QED
  BY <1>3, <1>4, <1>5, <1>6, <1>7, <1>8, <1>9 DEF IInv

LEMMA StepInvariant ==
    ASSUME IInv, Next
    PROVE  IInv'
<1> USE DEF IInv
<1>1. SeedStep
  BY SeedSteps
<1>2. raced \subseteq raced' /\ overlaps' \subseteq raced'
  BY DEF Next
<1>3. SeedsBounded' /\ AgainIsRaced' /\ SeededOnce'
  BY <1>1, <1>2, SeedsStayBounded, AgainStaysRaced, SeededOnceStays
<1>4. QuietWhileStarting' /\ BackfillDone'
  BY QuietStays, BackfillStays
<1>5. ChartFirst' /\ TaxesLinked' /\ unlinked' \subseteq Companies
  BY <1>1, ChartStaysFirst, TaxesStayLinked
<1>6. NoMemberlessCompany'
  BY MemberlessStaysExcused
<1>7. TypeOK'
  BY <1>3, <1>5, TypesHold
<1> QED
  BY <1>2, <1>3, <1>4, <1>5, <1>6, <1>7

LEMMA StutterInvariant ==
    ASSUME IInv, UNCHANGED vars
    PROVE  IInv'
<1> USE DEF vars
<1>1. TypeOK'
  BY DEF IInv, TypeOK, Seeding, MaxSeeds
<1>2. overlaps' \subseteq raced' /\ AgainIsRaced' /\ SeedsBounded'
  BY DEF IInv, overlaps, AgainIsRaced, SeedsBounded, aboutToSeed, MaxSeeds
<1>3. QuietWhileStarting' /\ BackfillDone'
  BY DEF IInv, QuietWhileStarting, Quiet, Serving, BackfillDone, IsEmpty
<1>4. ChartFirst' /\ TaxesLinked' /\ SeededOnce' /\ NoMemberlessCompany'
  BY DEF IInv, ChartFirst, accountsFound, TaxesLinked, SeededOnce, NoMemberlessCompany
<1> QED
  BY <1>1, <1>2, <1>3, <1>4 DEF IInv

LEMMA Invariance == Spec => []IInv
<1>1. Init => IInv
  BY InitInvariant
<1>2. IInv /\ [Next]_vars => IInv'
  BY StepInvariant, StutterInvariant
<1> QED
  BY <1>1, <1>2, PTL DEF Spec

----------------------------------------------------------------------------
(* The theorems. *)

\* Every variable has its type, and no table is seeded more often than there
\* are requests that could have raced for it.
THEOREM TypeCorrect == Spec => []TypeOK
<1>1. IInv => TypeOK
  BY DEF IInv
<1> QED
  BY <1>1, Invariance, PTL

\* A company is active without its creator's membership only while its submission
\* runs, or when a crash or a failed rollback cut the submission off.
THEOREM MemberlessExcused == Spec => []NoMemberlessCompany
<1>1. IInv => NoMemberlessCompany
  BY DEF IInv
<1> QED
  BY <1>1, Invariance, PTL

\* A table gets its defaults once however many readers, retries, crashes and
\* restarts there are, except for taxes and units that were raced for.
THEOREM SeededOnceHolds == Spec => []SeededOnce
<1>1. IInv => SeededOnce
  BY DEF IInv
<1> QED
  BY <1>1, Invariance, PTL

\* The taxes of a submission have accounts, unless an own account was there
\* before the chart.
THEOREM TaxesAreLinked == Spec => []TaxesLinked
<1>1. IInv => TaxesLinked
  BY DEF IInv
<1> QED
  BY <1>1, Invariance, PTL

\* The backfill is recorded only when every active company has units,
\* whatever failed or crashed on the way.
THEOREM BackfillComplete == Spec => BackfillReachesAll
<1>1. IInv /\ [Next]_vars =>
         [recorded' # recorded =>
             \A c \in Companies : companies[c] = "active" => ~IsEmpty(c, "units")]_vars
  <2> SUFFICES ASSUME IInv, Next, recorded' # recorded
               PROVE  \A c \in Companies : companies[c] = "active" => ~IsEmpty(c, "units")
    BY DEF vars
  <2> QED
    BY BackfillRecords DEF IInv
<1> QED
  BY <1>1, Invariance, PTL DEF Spec, BackfillReachesAll

----------------------------------------------------------------------------
(* Workspace, for any number of handlers, logos and limits.  The parameters *)
(* of that module are hypotheses of the theorems about it.                  *)

VARIABLES files, requests

Office == INSTANCE Workspace

OfficeConstants == Office!LimitsAssumption

LEMMA OfficeConstantsHold == OfficeConstants
<1> QED
  BY LimitsAssumption DEF OfficeConstants, Office!LimitsAssumption, Office!IsFiniteSet, IsFiniteSet

LEMMA HandlersFinite ==
    ASSUME OfficeConstants
    PROVE  IsFiniteSet(Handlers) /\ Cardinality(Handlers) \in Nat
<1>1. IsFiniteSet(Handlers)
  BY DEF OfficeConstants, Office!LimitsAssumption, Office!IsFiniteSet, IsFiniteSet
<1> QED
  BY <1>1, FS_CardinalityType

\* A handler that holds a copy of the company row.
CopyOps == {"profile_logo", "profile_save", "count", "activate"}
Holds(q) == q.op \in CopyOps

\* What a handler may hold.
LEMMA RequestShape ==
    ASSUME NEW q \in Office!Request
    PROVE  /\ Holds(q) => q.copy \in Office!Company
           /\ q.op = "profile_save" => q.logoGiven \in BOOLEAN
           /\ q.op = "create" => q.what \in {"partner", "invoice", "other"}
           /\ q.op = "count" =>
                [q EXCEPT !.op = "activate"] = [op |-> "activate", copy |-> q.copy]
<1> QED
  BY DEF Office!Request, Office!NoRequest, Holds, CopyOps

LEMMA NewRequests ==
    /\ Office!NoRequest \in Office!Request
    /\ [op |-> "progress"] \in Office!Request
    /\ \A c \in Office!Company, o \in {"profile_logo", "count", "activate"} :
          [op |-> o, copy |-> c] \in Office!Request
    /\ \A c \in Office!Company, b \in BOOLEAN :
          [op |-> "profile_save", copy |-> c, logoGiven |-> b] \in Office!Request
    /\ \A w \in {"partner", "invoice", "other"} : [op |-> "create", what |-> w] \in Office!Request
    /\ \A w \in {"partner", "transaction"}, n \in Nat :
          [op |-> "refused", what |-> w, limit |-> n] \in Office!Request
<1> QED
  BY DEF Office!Request

\* The read through the column list keeps the profile and the logo and loses the
\* status, so the limits that are checked are the initial ones.
LEMMA ColumnsRead ==
    ASSUME NEW c \in Office!Company
    PROVE  /\ Office!companyColumns(c) \in Office!Company
           /\ Office!companyColumns(c).profile = c.profile
           /\ Office!companyColumns(c).logo = c.logo
           /\ Office!companyColumns(c).activation = ""
<1> QED
  BY DEF Office!Company, Office!companyColumns

LEMMA InitialLimitsApply ==
    company \in Office!Company =>
        Office!PartnerLimit = InitialPartners /\ Office!TransactionLimit = InitialTransactions
<1> QED
  BY ColumnsRead DEF Office!PartnerLimit, Office!TransactionLimit, Office!limitsFor,
     Office!FindCompanyByID

-----------------------------------------------------------------------------
(* The steps of a handler, by what it holds afterwards. *)

\* Of the rest of the state, a handler changes these only.
Counts == <<partners, invoices, others>>

\* It reads the row.
ReadsRow(r, q) ==
    /\ UNCHANGED <<company, given, Counts>>
    /\ q.copy = Office!FindCompanyByID
    /\ \/ q = [op |-> "profile_logo", copy |-> q.copy]
       \/ q = [op |-> "count", copy |-> q.copy]

\* It works on its copy, and may give it another logo.
WorksOn(r, q) ==
    LET m == requests[r] IN
    /\ UNCHANGED <<company, given, Counts>>
    /\ \/ /\ m.op = "profile_logo"
          /\ \E logo \in Logos \cup {NoLogo}, b \in BOOLEAN :
                /\ q = [op |-> "profile_save", copy |-> [m.copy EXCEPT !.logo = logo],
                        logoGiven |-> b]
                /\ ~b => logo = m.copy.logo
       \/ m.op = "count" /\ q = [op |-> "activate", copy |-> m.copy]

\* It saves its copy: of the form, or with the status set.
SavesForm(r, q) ==
    LET m == requests[r] IN
    /\ UNCHANGED Counts
    /\ m.op = "profile_save" /\ q = Office!NoRequest
    /\ \E p \in {"keep", "complete", "incomplete"}, w \in {"keep", "", "set"} :
          /\ company' = [m.copy EXCEPT !.profile = Office!applyString(@, p),
                                       !.website = Office!applyString(@, w)]
          /\ given' = [profile |-> Office!applyString(given.profile, p),
                       logo |-> IF m.logoGiven THEN m.copy.logo ELSE given.logo]

SavesStatus(r, q) ==
    LET m == requests[r] IN
    /\ UNCHANGED <<given, Counts>>
    /\ m.op = "activate" /\ q = Office!NoRequest
    /\ company' = [m.copy EXCEPT !.activation = "activated"]

\* It is let create something, or refused; it creates it; or it ends.
IsLet(r, q) ==
    /\ UNCHANGED <<company, given, Counts>>
    /\ \/ q = [op |-> "create", what |-> "partner"] /\ partners < InitialPartners
       \/ \E w \in {"invoice", "other"} :
             q = [op |-> "create", what |-> w] /\ Office!Transactions < InitialTransactions
       \/ \E w \in {"partner", "transaction"}, n \in Nat :
             q = [op |-> "refused", what |-> w, limit |-> n]
       \/ q = Office!NoRequest

Creates(r, q) ==
    LET m == requests[r] IN
    /\ UNCHANGED <<company, given>>
    /\ m.op = "create" /\ q = [op |-> "progress"]
    /\ partners' = IF m.what = "partner" THEN partners + 1 ELSE partners
    /\ invoices' = IF m.what = "invoice" THEN [invoices EXCEPT !.month = @ + 1] ELSE invoices
    /\ others' = IF m.what = "other" THEN others + 1 ELSE others

HandlerEffect(r) == \E q \in Office!Request :
    /\ requests' = [requests EXCEPT ![r] = q]
    /\ files' \subseteq Logos
    /\ \/ ReadsRow(r, q) \/ WorksOn(r, q) \/ SavesForm(r, q) \/ SavesStatus(r, q)
       \/ IsLet(r, q) \/ Creates(r, q)

HandlerMoves(r) ==
    \/ Office!UpdateProfileRead(r) \/ Office!KeepLogo(r)
    \/ \E logo \in Logos \cup {NoLogo} : Office!processLogo(r, logo)
    \/ \E p \in {"keep", "complete", "incomplete"}, w \in {"keep", "", "set"} :
          Office!UpdateProfileSave(r, p, w)
    \/ Office!ProgressRead(r) \/ Office!ProgressCount(r) \/ Office!ProgressSave(r)
    \/ Office!CheckPartnerLimit(r)
    \/ \E what \in {"invoice", "other"} : Office!CheckTransactionLimit(r, what)
    \/ Office!Create(r) \/ Office!Abort(r)

LEMMA HandlerStep ==
    ASSUME OfficeConstants, Office!TypeOK, NEW r \in Handlers, HandlerMoves(r)
    PROVE  HandlerEffect(r)
<1> USE DEF Office!Begin, Office!Continue, Office!Finish, Counts
<1> DEFINE m == requests[r]
<1>1. /\ company \in Office!Company /\ files \subseteq Logos /\ m \in Office!Request
      /\ partners \in Nat /\ others \in Nat /\ invoices \in [month : Nat, older : Nat]
  BY DEF Office!TypeOK
<1>2. Office!FindCompanyByID \in Office!Company
  BY <1>1, ColumnsRead DEF Office!FindCompanyByID
<1>3. CASE Office!UpdateProfileRead(r)
  <2>1. [op |-> "profile_logo", copy |-> Office!FindCompanyByID] \in Office!Request
    BY <1>2, NewRequests
  <2> QED
    BY <1>1, <1>3, <2>1 DEF Office!UpdateProfileRead, HandlerEffect, ReadsRow
<1>4. CASE Office!KeepLogo(r)
  <2>1. m.op = "profile_logo" /\ m.copy \in Office!Company
    BY <1>1, <1>4, RequestShape DEF Office!KeepLogo, Holds, CopyOps
  <2> DEFINE q == [op |-> "profile_save", copy |-> m.copy, logoGiven |-> FALSE]
  <2>2. q \in Office!Request
    BY <2>1, NewRequests
  <2>3. m.copy.logo \in Logos \cup {NoLogo} /\ m.copy = [m.copy EXCEPT !.logo = m.copy.logo]
    BY <2>1 DEF Office!Company
  <2>4. WorksOn(r, q)
    BY <1>4, <2>1, <2>3 DEF Office!KeepLogo, WorksOn
  <2> QED
    BY <1>1, <1>4, <2>2, <2>4 DEF Office!KeepLogo, HandlerEffect
<1>5. CASE \E logo \in Logos \cup {NoLogo} : Office!processLogo(r, logo)
  <2>1. PICK logo \in Logos \cup {NoLogo} : Office!processLogo(r, logo)
    BY <1>5
  <2>2. m.op = "profile_logo" /\ m.copy \in Office!Company
    BY <1>1, <2>1, RequestShape DEF Office!processLogo, Holds, CopyOps
  <2> DEFINE c == [m.copy EXCEPT !.logo = logo]
             q == [op |-> "profile_save", copy |-> c, logoGiven |-> TRUE]
  <2>3. c \in Office!Company
    BY <2>2 DEF Office!Company
  <2>4. q \in Office!Request
    BY <2>3, NewRequests
  <2>5. WorksOn(r, q)
    BY <2>1, <2>2 DEF Office!processLogo, WorksOn
  <2>6. files' \subseteq Logos
    BY <1>1, <2>1 DEF Office!processLogo
  <2> QED
    BY <2>1, <2>4, <2>5, <2>6 DEF Office!processLogo, HandlerEffect
<1>6. CASE \E p \in {"keep", "complete", "incomplete"}, w \in {"keep", "", "set"} :
              Office!UpdateProfileSave(r, p, w)
  <2>1. PICK p \in {"keep", "complete", "incomplete"} : \E w \in {"keep", "", "set"} :
              Office!UpdateProfileSave(r, p, w)
    BY <1>6
  <2>2. PICK w \in {"keep", "", "set"} : Office!UpdateProfileSave(r, p, w)
    BY <2>1
  <2>3. SavesForm(r, Office!NoRequest)
    BY <2>2 DEF Office!UpdateProfileSave, Office!SaveCompany, SavesForm
  <2> QED
    BY <1>1, <2>2, <2>3, NewRequests DEF Office!UpdateProfileSave, HandlerEffect
<1>7. CASE Office!ProgressRead(r)
  <2>1. [op |-> "count", copy |-> Office!FindCompanyByID] \in Office!Request
    BY <1>2, NewRequests
  <2> QED
    BY <1>1, <1>7, <2>1 DEF Office!ProgressRead, HandlerEffect, ReadsRow
<1>8. CASE Office!ProgressCount(r)
  <2> DEFINE q == [op |-> "activate", copy |-> m.copy]
  <2>1. m.op = "count" /\ m.copy \in Office!Company /\ [m EXCEPT !.op = "activate"] = q
    BY <1>1, <1>8, RequestShape DEF Office!ProgressCount, Holds, CopyOps
  <2>2. q \in Office!Request
    BY <2>1, NewRequests
  <2> QED
    BY <1>1, <1>8, <2>1, <2>2 DEF Office!ProgressCount, HandlerEffect, WorksOn
<1>9. CASE Office!ProgressSave(r)
  BY <1>1, <1>9, NewRequests DEF Office!ProgressSave, Office!SaveCompany, HandlerEffect, SavesStatus
<1>10. CASE Office!CheckPartnerLimit(r)
  <2>1. Office!PartnerLimit = InitialPartners /\ InitialPartners \in Nat
    BY <1>1, InitialLimitsApply DEF OfficeConstants, Office!LimitsAssumption
  <2>2. PICK q : /\ requests' = [requests EXCEPT ![r] = q]
                 /\ q = IF Office!reached(partners, Office!PartnerLimit)
                        THEN [op |-> "refused", what |-> "partner", limit |-> Office!PartnerLimit]
                        ELSE [op |-> "create", what |-> "partner"]
    BY <1>10 DEF Office!CheckPartnerLimit
  <2>3. q \in Office!Request
    BY <2>1, <2>2, NewRequests
  <2>4. IsLet(r, q)
    BY <1>1, <1>10, <2>1, <2>2 DEF Office!CheckPartnerLimit, Office!reached, IsLet
  <2> QED
    BY <1>1, <1>10, <2>2, <2>3, <2>4 DEF Office!CheckPartnerLimit, HandlerEffect
<1>11. CASE \E what \in {"invoice", "other"} : Office!CheckTransactionLimit(r, what)
  <2>1. Office!TransactionLimit = InitialTransactions /\ InitialTransactions \in Nat
    BY <1>1, InitialLimitsApply DEF OfficeConstants, Office!LimitsAssumption
  <2>2. PICK what \in {"invoice", "other"} : Office!CheckTransactionLimit(r, what)
    BY <1>11
  <2>3. PICK q : /\ requests' = [requests EXCEPT ![r] = q]
                 /\ q = IF Office!reached(Office!Transactions, Office!TransactionLimit)
                        THEN [op |-> "refused", what |-> "transaction",
                              limit |-> Office!TransactionLimit]
                        ELSE [op |-> "create", what |-> what]
    BY <2>2 DEF Office!CheckTransactionLimit
  <2>4. q \in Office!Request
    BY <2>1, <2>3, NewRequests
  <2>5. Office!Transactions \in Nat
    BY <1>1 DEF Office!Transactions
  <2>6. IsLet(r, q)
    BY <2>1, <2>2, <2>3, <2>5 DEF Office!CheckTransactionLimit, Office!reached, IsLet
  <2> QED
    BY <1>1, <2>2, <2>3, <2>4, <2>6 DEF Office!CheckTransactionLimit, HandlerEffect
<1>12. CASE Office!Create(r)
  BY <1>1, <1>12, NewRequests DEF Office!Create, HandlerEffect, Creates
<1>13. CASE Office!Abort(r)
  BY <1>1, <1>13, NewRequests DEF Office!Abort, HandlerEffect, IsLet
<1> QED
  BY <1>3, <1>4, <1>5, <1>6, <1>7, <1>8, <1>9, <1>10, <1>11, <1>12, <1>13 DEF HandlerMoves

\* Deletions and the turn of the month.
Shrinks ==
    /\ UNCHANGED <<company, files, requests, given>>
    /\ partners' \in Nat /\ others' \in Nat /\ invoices' \in [month : Nat, older : Nat]
    /\ partners' <= partners
    /\ Office!Transactions' <= Office!Transactions

LEMMA ShrinkStep ==
    ASSUME Office!TypeOK, Office!DeletePartner \/ Office!DeleteTransaction \/ Office!NewMonth
    PROVE  Shrinks
<1>1. partners \in Nat /\ others \in Nat /\ invoices \in [month : Nat, older : Nat]
  BY DEF Office!TypeOK
<1>2. CASE Office!DeletePartner
  BY <1>1, <1>2 DEF Office!DeletePartner, Shrinks, Office!Transactions
<1>3. CASE Office!DeleteTransaction
  BY <1>1, <1>3 DEF Office!DeleteTransaction, Shrinks, Office!Transactions
<1>4. CASE Office!NewMonth
  BY <1>1, <1>4 DEF Office!NewMonth, Shrinks, Office!Transactions
<1> QED
  BY <1>2, <1>3, <1>4

\* Every step is of a handler, or shrinks the counts.
LEMMA OfficeSteps ==
    ASSUME OfficeConstants, Office!TypeOK, [Office!Next]_(Office!vars)
    PROVE  (\E r \in Handlers : HandlerEffect(r)) \/ Shrinks \/ UNCHANGED Office!vars
<1> QED
  BY HandlerStep, ShrinkStep DEF Office!Next, HandlerMoves

LEMMA OfficeTypeStep ==
    ASSUME OfficeConstants, Office!TypeOK, [Office!Next]_(Office!vars)
    PROVE  Office!TypeOK'
<1> DEFINE Given == [profile : {"complete", "incomplete"}, logo : Logos \cup {NoLogo}]
<1>1. /\ company \in Office!Company /\ files \subseteq Logos
      /\ partners \in Nat /\ others \in Nat /\ invoices \in [month : Nat, older : Nat]
      /\ requests \in [Handlers -> Office!Request] /\ given \in Given
  BY DEF Office!TypeOK
<1>2. CASE \E r \in Handlers : HandlerEffect(r)
  <2>1. PICK r \in Handlers : HandlerEffect(r)
    BY <1>2
  <2>2. PICK q \in Office!Request :
          /\ requests' = [requests EXCEPT ![r] = q]
          /\ files' \subseteq Logos
          /\ \/ ReadsRow(r, q) \/ WorksOn(r, q) \/ SavesForm(r, q) \/ SavesStatus(r, q)
             \/ IsLet(r, q) \/ Creates(r, q)
    BY <2>1 DEF HandlerEffect
  <2>3. requests' \in [Handlers -> Office!Request]
    BY <1>1, <2>2
  <2>4. /\ partners' \in Nat /\ others' \in Nat /\ invoices' \in [month : Nat, older : Nat]
    BY <1>1, <2>2 DEF ReadsRow, WorksOn, SavesForm, SavesStatus, IsLet, Creates, Counts
  <2>5. company' \in Office!Company /\ given' \in Given
    <3>1. Holds(requests[r]) => requests[r].copy \in Office!Company
      BY <1>1, RequestShape
    <3>2. CASE SavesForm(r, q)
      <4>1. requests[r].copy \in Office!Company
        BY <3>1, <3>2 DEF SavesForm, Holds, CopyOps
      <4>2. PICK p \in {"keep", "complete", "incomplete"} : \E w \in {"keep", "", "set"} :
              /\ company' = [requests[r].copy EXCEPT !.profile = Office!applyString(@, p),
                                                     !.website = Office!applyString(@, w)]
              /\ given' = [profile |-> Office!applyString(given.profile, p),
                           logo |-> IF requests[r].logoGiven THEN requests[r].copy.logo
                                    ELSE given.logo]
        BY <3>2 DEF SavesForm
      <4>3. given' \in Given
        <5>1. Office!applyString(given.profile, p) \in {"complete", "incomplete"}
          BY <1>1 DEF Office!applyString
        <5>2. requests[r].copy.logo \in Logos \cup {NoLogo} /\ given.logo \in Logos \cup {NoLogo}
          BY <1>1, <4>1 DEF Office!Company
        <5> DEFINE profile == Office!applyString(given.profile, p)
                   logo == IF requests[r].logoGiven THEN requests[r].copy.logo ELSE given.logo
        <5>3. profile \in {"complete", "incomplete"} /\ logo \in Logos \cup {NoLogo}
          BY <5>1, <5>2
        <5>4. given' = [profile |-> profile, logo |-> logo]
          BY <4>2
        <5> HIDE DEF profile, logo
        <5> QED
          BY <5>3, <5>4
      <4>4. company' \in Office!Company
        BY <4>1, <4>2 DEF Office!applyString, Office!Company
      <4> QED
        BY <4>3, <4>4
    <3>3. CASE SavesStatus(r, q)
      <4>1. requests[r].copy \in Office!Company
        BY <3>1, <3>3 DEF SavesStatus, Holds, CopyOps
      <4> QED
        BY <1>1, <3>3, <4>1 DEF SavesStatus, Office!Company
    <3>4. CASE ReadsRow(r, q) \/ WorksOn(r, q) \/ IsLet(r, q) \/ Creates(r, q)
      BY <1>1, <3>4 DEF ReadsRow, WorksOn, IsLet, Creates
    <3> QED
      BY <2>2, <3>2, <3>3, <3>4
  <2> QED
    BY <2>2, <2>3, <2>4, <2>5 DEF Office!TypeOK
<1>3. CASE Shrinks
  BY <1>1, <1>3 DEF Shrinks, Office!TypeOK
<1>4. CASE UNCHANGED Office!vars
  BY <1>1, <1>4 DEF Office!vars, Office!TypeOK
<1> QED
  BY <1>2, <1>3, <1>4, OfficeSteps

LEMMA OfficeInitType == Office!Init => Office!TypeOK
<1> SUFFICES ASSUME Office!Init PROVE Office!TypeOK
  OBVIOUS
<1>0. PICK p \in {"complete", "incomplete"} :
          /\ company = [profile |-> p, website |-> "", logo |-> NoLogo, activation |-> "initial"]
          /\ given = [profile |-> p, logo |-> NoLogo]
  BY DEF Office!Init
<1>1. company \in Office!Company
  BY <1>0 DEF Office!Company
<1>2. given \in [profile : {"complete", "incomplete"}, logo : Logos \cup {NoLogo}]
  BY <1>0
<1>3. requests \in [Handlers -> Office!Request]
  BY NewRequests DEF Office!Init
<1> QED
  BY <1>1, <1>2, <1>3 DEF Office!Init, Office!TypeOK

-----------------------------------------------------------------------------
(* The Free-plan limits.  Whoever was let create something is counted along *)
(* with what there is: a check lets at most every handler pass it at once.  *)

PartnersComing == {r \in Handlers : requests[r] = [op |-> "create", what |-> "partner"]}
TransactionsComing == {r \in Handlers :
    \E w \in {"invoice", "other"} : requests[r] = [op |-> "create", what |-> w]}

\* There may be so many, with so many to come.
Below(n, coming, limit) == n + Cardinality(coming) < limit + Cardinality(Handlers)

LimitsCounted ==
    /\ Below(partners, PartnersComing, InitialPartners)
    /\ Below(Office!Transactions, TransactionsComing, InitialTransactions)

LEMMA LetThrough ==
    ASSUME OfficeConstants, NEW n \in Nat, NEW limit \in Nat, n < limit, NEW S \in SUBSET Handlers
    PROVE  Below(n, S, limit)
<1>1. Cardinality(S) \in Nat /\ Cardinality(S) <= Cardinality(Handlers)
  BY HandlersFinite, FS_Subset, FS_CardinalityType
<1> QED
  BY <1>1, HandlersFinite DEF Below

LEMMA FewerBelow ==
    ASSUME OfficeConstants, NEW n \in Nat, NEW k \in Nat, k <= n, NEW limit \in Nat,
           NEW S \in SUBSET Handlers, NEW T \in SUBSET S, Below(n, S, limit)
    PROVE  Below(k, T, limit)
<1>1. /\ IsFiniteSet(S) /\ Cardinality(T) <= Cardinality(S)
      /\ Cardinality(T) \in Nat /\ Cardinality(S) \in Nat
  BY HandlersFinite, FS_Subset, FS_CardinalityType
<1> QED
  BY <1>1, HandlersFinite DEF Below

LEMMA CameIn ==
    ASSUME OfficeConstants, NEW n \in Nat, NEW limit \in Nat, NEW S \in SUBSET Handlers,
           NEW r \in S, Below(n, S, limit)
    PROVE  Below(n + 1, S \ {r}, limit)
<1>1. IsFiniteSet(S) /\ Cardinality(S) \in Nat
  BY HandlersFinite, FS_Subset, FS_CardinalityType
<1>2. Cardinality(S \ {r}) = Cardinality(S) - 1
  BY <1>1, FS_RemoveElement
<1> QED
  BY <1>1, <1>2, HandlersFinite DEF Below

LEMMA CountedStep ==
    ASSUME OfficeConstants, Office!TypeOK, LimitsCounted, [Office!Next]_(Office!vars)
    PROVE  LimitsCounted'
<1> DEFINE P == PartnersComing
           T == TransactionsComing
           n == Office!Transactions
<1>1. /\ partners \in Nat /\ others \in Nat /\ invoices \in [month : Nat, older : Nat]
      /\ requests \in [Handlers -> Office!Request] /\ n \in Nat
  BY DEF Office!TypeOK, Office!Transactions
<1>2. InitialPartners \in Nat /\ InitialTransactions \in Nat
  BY DEF OfficeConstants, Office!LimitsAssumption
<1>3. /\ P \in SUBSET Handlers /\ T \in SUBSET Handlers
      /\ P' \in SUBSET Handlers /\ T' \in SUBSET Handlers
  BY DEF PartnersComing, TransactionsComing
<1>4. Below(partners, P, InitialPartners) /\ Below(n, T, InitialTransactions)
  BY DEF LimitsCounted
<1>5. CASE \E r \in Handlers : HandlerEffect(r)
  <2>1. PICK r \in Handlers : HandlerEffect(r)
    BY <1>5
  <2>2. PICK q \in Office!Request :
          /\ requests' = [requests EXCEPT ![r] = q]
          /\ \/ ReadsRow(r, q) \/ WorksOn(r, q) \/ SavesForm(r, q) \/ SavesStatus(r, q)
             \/ IsLet(r, q) \/ Creates(r, q)
    BY <2>1 DEF HandlerEffect
  <2>3. \A s \in Handlers : requests'[s] = IF s = r THEN q ELSE requests[s]
    BY <1>1, <2>2
  <2>4. q # [op |-> "create", what |-> "partner"] => P' \subseteq P \ {r}
    BY <2>3 DEF PartnersComing
  <2>5. (\A w \in {"invoice", "other"} : q # [op |-> "create", what |-> w]) => T' \subseteq T \ {r}
    BY <2>3 DEF TransactionsComing
  <2>6. CASE q.op # "create" /\ UNCHANGED Counts
    <3>1. P' \subseteq P /\ T' \subseteq T
      BY <2>4, <2>5, <2>6
    <3>2. partners' = partners /\ n' = n
      BY <2>6 DEF Counts, Office!Transactions
    <3>3. Below(partners, P', InitialPartners) /\ Below(n, T', InitialTransactions)
      BY <1>1, <1>2, <1>3, <1>4, <3>1, FewerBelow
    <3> QED
      BY <3>2, <3>3 DEF LimitsCounted, Below
  <2>7. CASE IsLet(r, q) /\ q.op = "create"
    <3>1. partners' = partners /\ n' = n
      BY <2>7 DEF IsLet, Counts, Office!Transactions
    <3>2. CASE q = [op |-> "create", what |-> "partner"]
      <4>1. partners < InitialPartners
        BY <2>7, <3>2 DEF IsLet, Office!NoRequest
      <4>2. T' \subseteq T
        BY <2>5, <3>2
      <4>3. Below(partners, P', InitialPartners) /\ Below(n, T', InitialTransactions)
        BY <1>1, <1>2, <1>3, <1>4, <4>1, <4>2, LetThrough, FewerBelow
      <4> QED
        BY <3>1, <4>3 DEF LimitsCounted, Below
    <3>3. CASE \E w \in {"invoice", "other"} : q = [op |-> "create", what |-> w]
      <4>0. q.op = "create" /\ q.what # "partner"
        BY <3>3
      <4>1. n < InitialTransactions
        BY <2>7, <4>0 DEF IsLet, Office!NoRequest
      <4>2. P' \subseteq P
        BY <2>4, <3>3
      <4>3. Below(partners, P', InitialPartners) /\ Below(n, T', InitialTransactions)
        BY <1>1, <1>2, <1>3, <1>4, <4>1, <4>2, LetThrough, FewerBelow
      <4> QED
        BY <3>1, <4>3 DEF LimitsCounted, Below
    <3> QED
      BY <2>7, <3>2, <3>3 DEF IsLet, Office!NoRequest
  <2>8. CASE Creates(r, q)
    <3> DEFINE m == requests[r]
    <3>1. m \in Office!Request /\ m.op = "create" /\ m.what \in {"partner", "invoice", "other"}
      BY <1>1, <2>8, RequestShape DEF Creates
    <3>2. m = [op |-> "create", what |-> m.what]
      BY <3>1 DEF Office!Request, Office!NoRequest
    <3>3. P' \subseteq P \ {r} /\ T' \subseteq T \ {r}
      BY <2>4, <2>5, <2>8 DEF Creates
    <3>4. CASE m.what = "partner"
      <4>1. r \in P
        BY <3>2, <3>4 DEF PartnersComing
      <4>2. partners' = partners + 1 /\ n' = n
        BY <2>8, <3>4 DEF Creates, Office!Transactions
      <4>3. Below(partners + 1, P \ {r}, InitialPartners)
        BY <1>1, <1>2, <1>3, <1>4, <4>1, CameIn
      <4>4. P \ {r} \in SUBSET Handlers /\ partners + 1 \in Nat
        BY <1>1, <1>3
      <4>5. Below(partners + 1, P', InitialPartners) /\ Below(n, T', InitialTransactions)
        BY <1>1, <1>2, <1>3, <1>4, <3>3, <4>3, <4>4, FewerBelow
      <4> QED
        BY <4>2, <4>5 DEF LimitsCounted, Below
    <3>5. CASE m.what \in {"invoice", "other"}
      <4>1. r \in T
        BY <3>2, <3>5 DEF TransactionsComing
      <4>2. partners' = partners /\ n' = n + 1
        BY <1>1, <2>8, <3>5 DEF Creates, Office!Transactions
      <4>3. Below(n + 1, T \ {r}, InitialTransactions)
        BY <1>1, <1>2, <1>3, <1>4, <4>1, CameIn
      <4>4. T \ {r} \in SUBSET Handlers /\ n + 1 \in Nat
        BY <1>1, <1>3
      <4>5. Below(partners, P', InitialPartners) /\ Below(n + 1, T', InitialTransactions)
        BY <1>1, <1>2, <1>3, <1>4, <3>3, <4>3, <4>4, FewerBelow
      <4> QED
        BY <4>2, <4>5 DEF LimitsCounted, Below
    <3> QED
      BY <3>1, <3>4, <3>5
  <2>9. ReadsRow(r, q) \/ WorksOn(r, q) \/ SavesForm(r, q) \/ SavesStatus(r, q) =>
          q.op # "create" /\ UNCHANGED Counts
    BY DEF ReadsRow, WorksOn, SavesForm, SavesStatus, Office!NoRequest
  <2>10. IsLet(r, q) => UNCHANGED Counts
    BY DEF IsLet
  <2> QED
    BY <2>2, <2>6, <2>7, <2>8, <2>9, <2>10
<1>6. CASE Shrinks
  <2>1. P' = P /\ T' = T
    BY <1>6 DEF Shrinks, PartnersComing, TransactionsComing
  <2>2. partners' \in Nat /\ partners' <= partners /\ n' \in Nat /\ n' <= n
    BY <1>6 DEF Shrinks, Office!Transactions
  <2>3. Below(partners', P, InitialPartners) /\ Below(n', T, InitialTransactions)
    BY <1>1, <1>2, <1>3, <1>4, <2>2, FewerBelow
  <2> QED
    BY <2>1, <2>3 DEF LimitsCounted, Below
<1>7. CASE UNCHANGED Office!vars
  BY <1>7 DEF Office!vars, LimitsCounted, Below, PartnersComing, TransactionsComing,
     Office!Transactions
<1> QED
  BY <1>5, <1>6, <1>7, OfficeSteps

\* Requests that race pass the limit of the company's plan by less than there are
\* requests, also if several hold copies of the company row.  (The invariant says
\* more: no status lifts a limit above the initial one.)
THEOREM LimitsOvershootBounded == Office!Spec => []LimitsOvershoot
<1>1. OfficeConstants
  BY OfficeConstantsHold
<1>2. Office!TypeOK /\ LimitsCounted /\ [Office!Next]_(Office!vars) => Office!TypeOK' /\ LimitsCounted'
  BY <1>1, OfficeTypeStep, CountedStep
<1>3. Office!Init => Office!TypeOK /\ LimitsCounted
  <2> SUFFICES ASSUME Office!Init PROVE Office!TypeOK /\ LimitsCounted
    OBVIOUS
  <2>1. partners = 0 /\ Office!Transactions = 0
    <3>1. partners = 0 /\ others = 0 /\ invoices = [month |-> 0, older |-> 0]
      BY DEF Office!Init
    <3> QED
      BY <3>1 DEF Office!Transactions
  <2>2. InitialPartners \in Nat \ {0} /\ InitialTransactions \in Nat \ {0}
    BY <1>1 DEF OfficeConstants, Office!LimitsAssumption
  <2>3. PartnersComing \in SUBSET Handlers /\ TransactionsComing \in SUBSET Handlers
    BY DEF PartnersComing, TransactionsComing
  <2>4. /\ Below(0, PartnersComing, InitialPartners)
        /\ Below(0, TransactionsComing, InitialTransactions)
    BY <1>1, <2>2, <2>3, LetThrough
  <2> QED
    BY <2>1, <2>4, OfficeInitType DEF LimitsCounted
<1>4. Office!TypeOK /\ LimitsCounted => LimitsOvershoot
  <2> SUFFICES ASSUME Office!TypeOK, LimitsCounted PROVE LimitsOvershoot
    OBVIOUS
  <2>1. partners \in Nat /\ Office!Transactions \in Nat
    BY DEF Office!TypeOK, Office!Transactions
  <2>2. Cardinality(PartnersComing) \in Nat /\ Cardinality(TransactionsComing) \in Nat
    <3>1. PartnersComing \in SUBSET Handlers /\ TransactionsComing \in SUBSET Handlers
      BY DEF PartnersComing, TransactionsComing
    <3> QED
      BY <1>1, <3>1, HandlersFinite, FS_Subset, FS_CardinalityType
  <2>3. /\ InitialPartners \in Nat /\ InitialTransactions \in Nat
        /\ FullPartners \in Nat /\ InitialPartners < FullPartners
        /\ FullTransactions \in Nat /\ InitialTransactions < FullTransactions
    BY <1>1 DEF OfficeConstants, Office!LimitsAssumption
  <2>4. /\ partners < InitialPartners + Cardinality(Handlers)
        /\ Office!Transactions < InitialTransactions + Cardinality(Handlers)
    BY <1>1, <2>1, <2>2, <2>3, HandlersFinite DEF LimitsCounted, Below
  <2>5. Transactions = Office!Transactions
    BY DEF Transactions, Office!Transactions
  <2>6. Cardinality(Handlers) \in Nat
    BY <1>1, HandlersFinite, FS_CardinalityType
  <2> QED
    BY <2>1, <2>3, <2>4, <2>5, <2>6 DEF LimitsOvershoot
<1> QED
  BY <1>2, <1>3, <1>4, PTL DEF Office!Spec

-----------------------------------------------------------------------------
(* The settings form.  The copies of the row that handlers hold agree with  *)
(* the row on what the form was told; this needs that one handler at a time *)
(* holds a copy, since the code locks nothing.                              *)

Holders == {r \in Handlers : Holds(requests[r])}

HeldByOne == \A r, s \in Holders : r = s

CopiesAgree == \A r \in Holders :
    LET q == requests[r] IN
    /\ q.copy.profile = company.profile
    /\ (q.op = "profile_save" /\ q.logoGiven) \/ q.copy.logo = company.logo

FormInv == Office!TypeOK /\ HeldByOne /\ CopiesAgree /\ Office!ProfileAsGiven

LEMMA AtMostOne ==
    ASSUME OfficeConstants, NEW S \in SUBSET Handlers, Cardinality(S) <= 1
    PROVE  \A r, s \in S : r = s
<1> SUFFICES ASSUME NEW r \in S, NEW s \in S PROVE r = s
  OBVIOUS
<1>1. IsFiniteSet(S) /\ Cardinality(S) \in Nat
  BY HandlersFinite, FS_Subset, FS_CardinalityType
<1>2. Cardinality(S \ {r}) = Cardinality(S) - 1 /\ IsFiniteSet(S \ {r})
  BY <1>1, FS_RemoveElement
<1>3. Cardinality(S \ {r}) = 0
  BY <1>1, <1>2, FS_CardinalityType
<1>4. S \ {r} = {}
  BY <1>2, <1>3, FS_EmptySet
<1> QED
  BY <1>4

\* What the form is told reaches the row, and a handler that writes the row back
\* for another reason writes what is there.
LEMMA FormStep ==
    ASSUME OfficeConstants, FormInv, [Office!Next]_(Office!vars)
    PROVE  CopiesAgree' /\ Office!ProfileAsGiven'
<1>1. /\ requests \in [Handlers -> Office!Request] /\ company \in Office!Company
      /\ Office!TypeOK /\ HeldByOne /\ CopiesAgree
      /\ company.profile = given.profile /\ company.logo = given.logo
  BY DEF FormInv, Office!TypeOK, Office!ProfileAsGiven
<1>2. CASE \E r \in Handlers : HandlerEffect(r)
  <2>1. PICK r \in Handlers : HandlerEffect(r)
    BY <1>2
  <2>2. PICK q \in Office!Request :
          /\ requests' = [requests EXCEPT ![r] = q]
          /\ \/ ReadsRow(r, q) \/ WorksOn(r, q) \/ SavesForm(r, q) \/ SavesStatus(r, q)
             \/ IsLet(r, q) \/ Creates(r, q)
    BY <2>1 DEF HandlerEffect
  <2>3. \A s \in Handlers : requests'[s] = IF s = r THEN q ELSE requests[s]
    BY <1>1, <2>2
  <2> DEFINE m == requests[r]
  <2>4. Holds(m) => m.copy \in Office!Company /\ r \in Holders
    BY <1>1, RequestShape DEF Holders
  <2>5. Holds(m) => /\ m.copy.profile = company.profile
                    /\ (m.op = "profile_save" /\ m.logoGiven) \/ m.copy.logo = company.logo
    BY <1>1, <2>4 DEF CopiesAgree
  <2>6. \A s \in Holders' : s # r => s \in Holders /\ requests'[s] = requests[s]
    BY <2>3 DEF Holders, Holds
  <2>7. r \in Holders' => Holds(q)
    BY <2>3 DEF Holders, Holds
  <2>8. CASE ReadsRow(r, q)
    <3>1. q.copy.profile = company.profile /\ q.copy.logo = company.logo
      BY <1>1, <2>8, ColumnsRead DEF ReadsRow, Office!FindCompanyByID
    <3> QED
      BY <1>1, <2>3, <2>6, <2>8, <3>1 DEF ReadsRow, CopiesAgree, Office!ProfileAsGiven
  <2>9. CASE WorksOn(r, q)
    <3>1. Holds(m)
      BY <2>9 DEF WorksOn, Holds, CopyOps
    <3>2. /\ q.copy.profile = company.profile
          /\ (q.op = "profile_save" /\ q.logoGiven) \/ q.copy.logo = company.logo
      <4>1. CASE m.op = "count" /\ q = [op |-> "activate", copy |-> m.copy]
        BY <2>5, <3>1, <4>1
      <4>2. CASE m.op = "profile_logo"
        <5>1. PICK logo \in Logos \cup {NoLogo}, b \in BOOLEAN :
                /\ q = [op |-> "profile_save", copy |-> [m.copy EXCEPT !.logo = logo],
                        logoGiven |-> b]
                /\ ~b => logo = m.copy.logo
          BY <2>9, <4>2 DEF WorksOn
        <5>2. q.copy.profile = m.copy.profile /\ q.copy.logo = logo /\ q.logoGiven = b
          BY <2>4, <3>1, <5>1 DEF Office!Company
        <5>3. m.copy.logo = company.logo
          BY <2>5, <3>1, <4>2
        <5> QED
          BY <2>5, <3>1, <5>1, <5>2, <5>3
      <4> QED
        BY <2>9, <4>1, <4>2 DEF WorksOn
    <3> QED
      BY <1>1, <2>3, <2>6, <2>9, <3>2 DEF WorksOn, CopiesAgree, Office!ProfileAsGiven
  <2>10. CASE SavesForm(r, q)
    <3>1. Holds(m) /\ ~Holds(q)
      BY <2>10 DEF SavesForm, Holds, CopyOps, Office!NoRequest
    <3>2. Holders' = {}
      BY <1>1, <2>4, <2>6, <2>7, <3>1 DEF HeldByOne
    <3>3. PICK p \in {"keep", "complete", "incomplete"} : \E w \in {"keep", "", "set"} :
            /\ company' = [m.copy EXCEPT !.profile = Office!applyString(@, p),
                                         !.website = Office!applyString(@, w)]
            /\ given' = [profile |-> Office!applyString(given.profile, p),
                         logo |-> IF m.logoGiven THEN m.copy.logo ELSE given.logo]
      BY <2>10 DEF SavesForm
    <3>4. /\ company'.profile = Office!applyString(m.copy.profile, p)
          /\ company'.logo = m.copy.logo
          /\ given'.profile = Office!applyString(given.profile, p)
          /\ given'.logo = IF m.logoGiven THEN m.copy.logo ELSE given.logo
      <4> DEFINE profile == Office!applyString(given.profile, p)
                 logo == IF m.logoGiven THEN m.copy.logo ELSE given.logo
      <4>1. given' = [profile |-> profile, logo |-> logo]
        BY <3>3
      <4>2. given'.profile = profile /\ given'.logo = logo
        <5> HIDE DEF profile, logo
        <5> QED
          BY <4>1
      <4>3. PICK w : company' = [m.copy EXCEPT !.profile = Office!applyString(@, p),
                                               !.website = Office!applyString(@, w)]
        BY <3>3
      <4>4. /\ company'.profile = Office!applyString(m.copy.profile, p)
            /\ company'.logo = m.copy.logo
        <5>1. m.copy \in Office!Company
          BY <2>4, <3>1
        <5> QED
          BY <4>3, <5>1 DEF Office!Company
      <4> QED
        BY <4>2, <4>4
    <3>5. m.copy.profile = given.profile /\ (m.logoGiven \/ m.copy.logo = given.logo)
      BY <1>1, <2>5, <3>1
    <3>6. company'.profile = given'.profile /\ company'.logo = given'.logo
      BY <3>4, <3>5
    <3> QED
      BY <3>2, <3>6 DEF CopiesAgree, Office!ProfileAsGiven
  <2>11. CASE SavesStatus(r, q)
    <3>1. Holds(m) /\ ~Holds(q) /\ m.op # "profile_save"
      BY <2>11 DEF SavesStatus, Holds, CopyOps, Office!NoRequest
    <3>2. Holders' = {}
      BY <1>1, <2>4, <2>6, <2>7, <3>1 DEF HeldByOne
    <3>3. company'.profile = m.copy.profile /\ company'.logo = m.copy.logo /\ given' = given
      BY <2>4, <2>11, <3>1 DEF SavesStatus, Office!Company
    <3> QED
      BY <1>1, <2>5, <3>1, <3>2, <3>3 DEF CopiesAgree, Office!ProfileAsGiven
  <2>12. CASE IsLet(r, q) \/ Creates(r, q)
    <3>1. ~Holds(q)
      BY <2>12 DEF IsLet, Creates, Holds, CopyOps, Office!NoRequest
    <3> QED
      BY <1>1, <2>6, <2>7, <2>12, <3>1 DEF IsLet, Creates, CopiesAgree, Office!ProfileAsGiven
  <2> QED
    BY <2>2, <2>8, <2>9, <2>10, <2>11, <2>12
<1>3. CASE UNCHANGED <<company, requests, given>>
  BY <1>1, <1>3 DEF CopiesAgree, Holders, Holds, Office!ProfileAsGiven
<1>4. Shrinks \/ UNCHANGED Office!vars => UNCHANGED <<company, requests, given>>
  BY DEF Shrinks, Office!vars
<1> QED
  BY <1>1, <1>2, <1>3, <1>4, OfficeSteps

\* What the form was told is what the row says, whatever reads, activations,
\* uploads, failures and crashes come between, as long as no two handlers hold
\* copies of the row at the same time.
THEOREM ProfileStaysAsGiven == Office!SpecOneCopy => []ProfileAsGiven
<1>1. OfficeConstants
  BY OfficeConstantsHold
<1>2. FormInv /\ [Office!Next /\ Office!OneCopy']_(Office!vars) => FormInv'
  <2> SUFFICES ASSUME FormInv, [Office!Next /\ Office!OneCopy']_(Office!vars) PROVE FormInv'
    OBVIOUS
  <2>1. Office!TypeOK'
    BY <1>1, OfficeTypeStep DEF FormInv
  <2>2. CopiesAgree' /\ Office!ProfileAsGiven'
    BY <1>1, FormStep
  <2>3. HeldByOne'
    <3>1. CASE Office!OneCopy'
      <4>1. Cardinality(Holders') <= 1
        BY <3>1 DEF Office!OneCopy, Office!Cardinality, Cardinality, Holders, Holds, CopyOps
      <4>2. Holders' \in SUBSET Handlers
        BY DEF Holders
      <4> QED
        BY <1>1, <4>1, <4>2, AtMostOne DEF HeldByOne
    <3>2. CASE UNCHANGED Office!vars
      BY <3>2 DEF FormInv, HeldByOne, Holders, Holds, Office!vars
    <3> QED
      BY <3>1, <3>2
  <2> QED
    BY <2>1, <2>2, <2>3 DEF FormInv
<1>3. Office!Init => FormInv
  <2> SUFFICES ASSUME Office!Init PROVE FormInv
    OBVIOUS
  <2>1. Holders = {}
    BY DEF Office!Init, Office!NoRequest, Holders, Holds, CopyOps
  <2>2. Office!ProfileAsGiven
    <3>1. PICK p : /\ company = [profile |-> p, website |-> "", logo |-> NoLogo,
                                 activation |-> "initial"]
                   /\ given = [profile |-> p, logo |-> NoLogo]
      BY DEF Office!Init
    <3> QED
      BY <3>1 DEF Office!ProfileAsGiven
  <2> QED
    BY <2>1, <2>2, OfficeInitType DEF FormInv, HeldByOne, CopiesAgree
<1>4. FormInv => ProfileAsGiven
  BY DEF FormInv, ProfileAsGiven, Office!ProfileAsGiven
<1> QED
  BY <1>2, <1>3, <1>4, PTL DEF Office!SpecOneCopy
=============================================================================
