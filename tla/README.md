# Verification of invoice-service

TLA+ models of the Go service in `src/` (Fiber, GORM, PostgreSQL, Redis), their
TLC configurations, and TLAPS proofs. Paths below are relative to the repository
root (`src/`). `PROJECT.json` has the machine-readable side: which definition
models which lines, every run, and the hazards the properties are aimed at.

## 1. The system

invoice-service is a multi-tenant HTTP backend. A request passes
`routes -> controller -> service -> repository -> model`; every table carries
`company_id`, and companies share no rows, so each module models **one company**.
Fiber serves every request in its own goroutine, several instances may run, and
PostgreSQL works at its default READ COMMITTED. There is no in-process state
shared between requests: everything the handlers share is in the database, and
what makes the code hard is *when it reads and when it writes*.

Deletion is soft throughout (`deleted_at`): a GORM query sees live rows only, an
`UPDATE` of a deleted row matches nothing and reports no error.

### Components

| component | state it keeps | operations | talks to |
|---|---|---|---|
| sales invoices | `sales_invoices`: status, payment status, total, paid amount, partner | create, update, delete, confirm, cancel, back to draft | counts payments and allocations before going back to draft; its balance is written by payments and receipts |
| sales payments | `sales_payments`: pending or verified, amount, invoice | create, verify | verify locks and credits the invoice |
| sales receipts | `sales_receipts` and allocation rows over several invoices | create, update, delete | lock, reverse and credit invoices |
| purchase invoices | `purchase_invoices`, as above | create, update, delete, confirm, cancel, back to draft | counts receipts before cancelling or reopening |
| purchase receipts | `purchase_receipts`: amount, at most one invoice | create, update, delete | lock, reverse and credit the invoice |
| startup | the schema, legacy data | migrate, purchase payment backfill, serve | rewrites paid amounts of purchase invoices |
| journal | `journal_entries` with lines, idempotency keys | create, update, delete, post, back to draft | reads accounts |
| chart of accounts | `accounts`: active, deleted, parent | create, update, delete, seed | counts children, taxes, books and journal lines before deleting |
| numbering | the number columns of ten kinds of document | typed or generated, edited | scans the table; five tables have a unique index |
| company profile | the `companies` row, logo files in the SSO's storage | settings form with logo upload | the same row is written by activation |
| activation, limits | `activation_status`; counts of partners, invoices, orders | progress, recompute, limit checks | called before and after creates |
| partners, contact persons | `mitras`, `contact_persons` | create, update, delete; a partner's form saves its whole contact list | limits; reference checks; contacts are copied onto orders |
| orders, delivery notes, goods receipts | headers and lines | create, update, delete, status changes | numbering, limits, partners, taxes, line arithmetic |
| master data | taxes (single and compound), units, bank accounts, journal books | create, update, delete, seed | reference checks; an edited tax refreshes the compounds that contain it |
| onboarding | company, owner membership, seed data | submit, with compensation | SSO, membership, master data |
| membership, roles | members, invitations; Redis caches of access and of role permissions | invite, grant, accept, resend, change role, deactivate, remove; edit and delete roles | SSO |
| token middleware | a Redis cache of validated tokens, five minutes | validate | SSO |
| reports, audit, templates, notifications | none that feeds back into a decision | read, append | |

### What is hard here

* **Read, check, write in separate statements.** A service reads a row, decides,
  and a repository later updates it *by id only*. Between the two another handler
  may have changed the row. This is the pattern behind most hazards: status
  changes, journal edits, verification, limits, numbers, deletion of master data.
* **Money in two places.** The paid amount on an invoice is a cached sum of
  payments, allocations and receipts. Each of them is created, edited, moved and
  deleted by code of its own, and each path must move the balance by exactly the
  right amount.
* **Row locks over several invoices**, taken in loops, with PostgreSQL's deadlock
  detector behind them.
* **Failure between two steps**: a crash, a lost connection or a deadlock victim
  rolls the transaction back, but not a file already deleted from the storage.
* **Restarts over legacy data**: the purchase backfill may fail, be retried on
  the next start, and meets balances that were moved in the meantime.
* **Caches that outlive what they cache**: a token for five minutes, an access for
  one, a role's permissions for ten, written and deleted on a best-effort basis.
* **Compensation by hand**: onboarding creates and seeds across tables without a
  transaction, and undoes a company by deleting it.
* **Retries** under an idempotency key, racing or after a deletion.
* **Rounding** between float64 requests and `numeric(18,2)` columns.

### What makes each component correct

* ledgers: paid amount = sum of the documents in force; payment status follows
  from the amounts; credit only to a confirmed invoice within its total; no
  money on a draft (or, for purchases, cancelled) invoice;
* locks: no deadlock among transactions that lock in order; every transaction
  ends;
* journal: one key, one entry; posted entries balance, and stay as approved; no
  line names a deleted account;
* numbers: live numbers of a company are unique, letter case aside;
* workspace: what the form was told stays; activation is for good and lifts the
  limits (it does not, see the findings); limits are passed at most by the requests
  that race;
* membership: an owner remains, seats are passed only by racing invitations, an
  accepted membership stays its person's, a removed one stays removed;
* access: a cache never outlives for good the change it hides, and an SSO outage
  never looks like a logout;
* orders: totals belong to the lines, a copied contact is one that existed, what a
  live document names is live;
* master data: what is named is live, a compound rate is the sum of its parts, one
  bank account is the primary one;
* onboarding: no company without its creator's membership, defaults once, and in the
  end where a list that is found empty is opened again.

## 2. Modules

| module | models | state and actions |
|---|---|---|
| `SalesLedger` | `invoice_balance.go`, repositories and services of sales invoices, payments, receipts | `invoices`, `payments`, `receipts` are the tables; `requests[r]` is what handler `r` has read. One action per transaction, or per read that may be stale when used: `VerifyRead`/`VerifyCommit`, `ReceiptUpdateFind`/`Load`/`Commit`, `CountPayments`/`CountAllocations`/`SetStatus`, ... |
| `MoneyBook` | nothing: what a ledger promises | bills with terms, money held by documents, balances; `SetTerms`, `Move` |
| `SalesBook` | | `SalesLedger` read as such a book: what a document holds, what a balance must be, under which condition; the refinement mapping |
| `MCSalesLedger` | | instances for TLC |
| `Sums`, `SumTheorems` | | sums over finite sets, the facts about them that the ledgers need, and how a fold over a finite set unfolds |
| `SalesLedgerProofs` | | theorems about `SalesLedger`, `SalesBook` and `InvoiceLocks` |
| `PurchaseLedger` | `purchase_invoice_balance.go`, purchase invoices and receipts, `purchase_payment_backfill.go`, the start in `main.go` | as above, with `up` (serving) and `aligned` (history: a backfill succeeded) |
| `MCPurchaseLedger`, `PurchaseLedgerProofs` | | instances for TLC; theorems |
| `RowLocks`, `InvoiceLocks` | the order in which `sales_receipt.repository.go` and `sales_payment.repository.go` lock invoice rows | per transaction: rows still to lock in each part; per row: its holder. `RowLocks` says who waits for whom, `InvoiceLocks` how transactions run. PostgreSQL's lock queue and deadlock detector are external |
| `Journal` | `journal.service.go`, `journal.repository.go`, the uses of accounts | `entries` with lines, `accounts`, `requests`; histories `approved` (lines validated by the last Post) and `replies` (who was answered with what) |
| `MCJournal`, `JournalProofs` | | line lists for TLC; theorems |
| `NumberedTable`, `DocumentNumbers` | numbering, as repeated in every document repository | the table: `docs`, and whether it has its index; the handlers: the number each is about to write |
| `Membership` | `membership.service.go`, `membership_users.service.go`, `membership.repository.go` | `members` (rows of `user_account_sso`), what each handler has loaded or checked; invitations, grants, accepting, role changes, (de)activation, profile edits, removal. A handler checks, then inserts (`AddMember`), or loads, guards (`GuardRow`) and saves whole (`WriteRow`) |
| `MCMembership`, `MembershipProofs` | | symmetry; theorems about `Membership`, `Access` and `Session` |
| `SignedIn`, `Session` | `validate_token.go` | `SignedIn`: one login, the token the SSO takes, the one the browser sends, and the requests in flight. `Session`: the token cache, what the SSO may answer, how an answer is classified (`isTransientSSOError`), the retry, the ban, a token that the SSO replaces, and answers that are lost |
| `CachedAccess`, `Access` | `company.go`, `ResolveAccess`, `rbac_cache.go`, `rbac_sso.go`, `role.service.go` | `CachedAccess`: the membership and the access entry that stands for it. `Access`: the SSO's role catalogue, two caches, requests, and the handlers that read a row, save it whole and then invalidate or (profile edits, resent invitations) do not; the fallback on the token's permissions, lost cache writes and deletes, outages, expiry |
| `MCAccess` | | `Session` and `Access` side by side, for TLC |
| `LineCalc` | `utils/linecalc.go` | operators only: exact fractions of cents, rounded where Go rounds |
| `Orders` | sales and purchase orders, delivery notes, goods receipts, partners, contact persons, the checks of partners and taxes in `references.go` | one action per statement: `SalesOrderCreate`/`Calc`/`Insert`, `UpdateFind`/`UpdateHeader`/`UpdateCommit` with the row lock between the last two, `MitraUpdate` with `syncContacts`, `MitraDeleteCheck`/`MitraDelete`, ... |
| `MCOrders` | | forms whose cents round, and one that must be refused |
| `OrdersProofs` | | theorems about `Orders`, `LineCalc` and `DocumentNumbers` |
| `Catalog` | accounts, taxes, journal books, bank accounts, their checks in `references.go` | reads in a row are one action, every write another: `TaxUpdate`/`TaxSave`/`refreshCompoundRates`, `BankCreate`/`BankReread`/`ClearPrimary`, ... |
| `MCCatalog`, `CatalogProofs` | | symmetry; theorems |
| `Onboarding` | `onboarding.service.go`, `master_defaults.go`, the `SeedDefaults` of every table, the lists that seed, `unit_backfill.go`, the start | company, the membership of its creator (owner, or without a role), tables by how often they were seeded; every statement may fail, the process may crash between any two |
| `OnboardingProofs` | | theorems about `Onboarding` and `Workspace` |
| `CompanyState`, `Workspace` | `company.service.go`, `activation.service.go`, `onboarding.repository.go` | `CompanyState`: the company row and the counts that are limited. `Workspace`: files, what handlers hold, how they change the row |
| `MCCompany` | | `Workspace` and `DocumentNumbers` side by side, for TLC |

`SalesLedger` and `InvoiceLocks` are two views of the same transactions. The
ledger takes everything from the first row lock of a transaction to its commit
as one step; `InvoiceLocks` opens that step up. The first is sound because the
transactions are two-phase on invoice rows: whatever they read *under lock* does
not change until they commit. Whatever they read without a lock is a step of its
own in the ledger.

`MoneyBook` is the abstract specification of the ledgers: no rows, no handlers, no
statements, only documents that hold money on bills. `SalesBook!Book` reads the
three tables as such a book (a verified payment or a live receipt holds its amounts,
a live confirmed invoice is open) and `ImplementsMoneyBook` says that every
transaction of the ledger is one `Move` of one document, one `SetTerms`, or nothing
at all. The edit of a receipt is the interesting one: it reverses and applies row
by row, and still is a single exact `Move`.

`Membership` and `Access` are two views as well: the first has every writer of the
rows, the second one user's row, changed in any way the first allows (from copies
that may be stale), and what requests see of it through the caches. `Session` is the
gate in front: it decides who the user is. `Onboarding` creates the first member that
`Membership` starts from, and the defaults that `Catalog` starts from.

### Conventions

* A handler that is refused, fails or crashes is `Abort`: it ends, and its
  transaction leaves nothing behind. A refusal in the code is a guard of the
  next step, so a handler that cannot go on can only abort.
* Definitions keep the names of the code where TLA+ allows it.
* `Faulty...` operators are bugs of a plausible kind, used only to show that each
  property can fail; no specification uses them.

### Abstractions

* Money in the ledgers is whole cents: `round2` keeps every stored amount there.
  In `Journal`, where requests carry unrounded amounts, the unit is half a cent,
  and the columns round half cents up.
* In the ledgers, lines, taxes, names, dates, notes and templates of documents are
  left out: an invoice has a total. Lines and taxes are in `Orders`. The partner of an invoice is kept, because receipts check
  it.
* A receipt holds one row per invoice (`normalizeReceiptAllocations` rejects an
  invoice that is named twice, `sales_receipt.repository.go:192`), so allocations are a function from invoices to amounts.
* The partner check of a sales receipt is an unlocked read inside the loop; it is
  made when the handler starts (`ReceiptCreateCheck`, `ReceiptUpdateLoad`), and
  the partner may differ when the amount is applied.
* Three writers of one receipt could interleave the replacement of its rows even
  further than the model does (it takes delete-and-insert of rows as part of the
  commit step).
* In `Journal` the key lookup and the account check that precede a create are one
  step; accounts are leaves that are not built in.
* In `Membership` people have one address each; e-mails, tokens and names are data. A
  deleted row keeps only its key (`softDeleted`): no code reads its role or ban again. A
  role list that cannot be fetched is the choice `listed`, and `OwnerPinned` says whether
  the deployment names the owner role (by default it does not, and the run has it so).
* `Access` has one user and one company; a role's permissions are a version. `Fallback`
  is `RBACMigrationFallback`, TRUE by default and in the run. Requests without a company
  and RBAC switched off are left out. `Session` has one login; tokens are numbered in
  the order in which the SSO mints them.
* In `LineCalc`, what Go computes in float64 is computed exactly; quantities have a
  bounded number of decimals.
* `Orders` and `Catalog` serve each request once (the ids in `Requests` bound a
  behaviour) and start from companies that already have documents and master data.
  A statement is atomic. In `Catalog` uses by documents are a flag, and codes are
  left to their unique indexes.
* In `Orders` a tax is edited in one statement; the refresh of the compounds that contain
  it (`tax.repository.go:138`) is in `Catalog`, with the races around it.
* In `Onboarding` a table is how often it was seeded and whether it has rows of the
  user's own. A creator without a role stays so: role changes are in `Membership`. `MaxFaults` bounds failures and crashes.
* In `Workspace` a profile is complete or incomplete, one older invoice stands
  for all, and a client does not type a logo URL other than the current one.
* One server instance runs in `PurchaseLedger` and in `Onboarding`: the backfills are
  over before requests are served. In a rolling deployment, which the repository
  expects (`model/index.go:50`), an older instance may still serve during the backfill
  of the new one. So a purchase paid, or a company created, by the older instance after
  the rows were listed is not covered by `BooksBalanced` and `BackfillReachesAll`. A
  listed hazard without a model yet.

## 3. Runs

Twelve runs; ten must pass, two must find a violation.

| run | specification and instance | properties |
|---|---|---|
| `sales` | `SpecDistinct`; 1 invoice, 2 partners, 2 payments, 2 receipts, 2 handlers, amounts up to 2 | `TypeOK`, `PaymentStatusDerived`, `GainsWithinBalance`, `ImplementsMoneyBook`, `BalanceConserved`, `DraftCarriesNoMoney` |
| `sales_double_verify` | `Spec`; 1 payment, 2 handlers | `BalanceConserved` is violated |
| `purchase` | `SpecDistinct`, legacy data; 2 invoices, 2 receipts, 2 handlers, amounts up to 2 | `TypeOK`, `PaymentStatusDerived`, `CreditWithinTotal`, `NeverOverstated`, `BooksBalanced`, `NothingStranded` |
| `locks` | `Spec` with fairness; 2 rows, 3 transactions of any kind | `RingsNeedAnEdit`, `EveryTransactionEnds` |
| `journal` | `SpecApart`; 2 entries, 2 accounts, 1 key, 2 handlers, six line lists | `SameKeySameEntry`, `PostedImmutable`, `PostedBalanced`, `NoDanglingAccount` |
| `company` | `Workspace` with `OneCopy` (2 handlers, 2 logo files, limits 1 and 3) beside `DocumentNumbers` with the condition of `SpecCareful` (3 documents, 2 handlers, numbers 1..3, two spellings, with and without an index) | `LimitsOvershoot`, `ProfileAsGiven`, `UniqueNumbers` |
| `workspace_full_limits` | `Workspace!Spec`; 1 handler | `ActivatedGetsFullLimits` is violated |
| `membership` | `SpecApart`, owner role not pinned; 3 rows, 3 people, 2 handlers, a limit of 1 user | `OwnerRemains`, `SeatsOvershoot`, `AcceptedStands`, `RemovedStaysOut` |
| `access` | `Session` and `Access` side by side, with fairness; 2 requests of a login and 2 replaced tokens; 1 request at a time, 2 handlers, a built-in and a custom role, 2 changes and 1 edit, fallback on | `OutageNeverLogsOut`, `StaleOnlyAfterARace`, `CachesSettle` |
| `orders` | `Spec`; 2 requests, 2 partners, 2 contacts, 2 taxes, one document of each kind, 3 forms | `TotalsReconcile`, `ContactCopied`, `ReferencesLive`, `PartnerSaveIsExact` |
| `catalog` | `Spec`; 3 requests, 2 accounts, 3 taxes, 1 book, 2 bank accounts | `MasterDataLive`, `CompoundRateIsSum`, `OnePrimary` |
| `onboarding` | `Spec` with fairness; 1 company, 2 readers, 2 faults, fallback on | `NoMemberlessCompany`, `SeededOnce`, `TaxesLinked`, `BackfillReachesAll`, `EventuallySeeded` |

`TypeOK` is checked where it carries arithmetic (no paid amount below zero); in the
other modules it documents the state. Two runs put two specifications side by side:
a behaviour is about one of the two, which share no variable, and the other stands
still.

### Why some runs are restricted

`Spec` is what the code does. Where two handlers on the *same* document break a
property, the passing run says under which condition on the environment it
holds; what happens without it is listed under the divergences below, and shown by
`sales_double_verify` for payments. The conditions are stated as predicates of their
own, and none restricts handlers on different documents:

* `DistinctDocuments` (sales), `DistinctReceipts` (purchase): no user submits the
  form of one payment or receipt twice at once;
* `NoMoneyMeanwhile` (sales), `NothingAttachedMeanwhile` (purchase): no money
  arrives between the counts of a status change and its update;
* `Apart` (journal): no two handlers change one entry, and no account is deleted
  while a handler is about to write lines that name it; creates under one key do
  race;
* `SpecCareful` (numbers): only for tables *without* an index, one handler at a
  time and the generator's spelling;
* `OneCopy` (workspace): one handler at a time holds a copy of the company row;
  limit checks and creates race freely;
* `Apart` (membership): `RowsApart`, no two handlers load one row, nor take the owner
  role from two people at once; `GrantsAlone`, a grant to a known user is the only
  handler about that person; `OwnAddress`, an invitation is accepted by whom it was
  sent to. Invitations race freely.

The other runs check the unrestricted `Spec` and instead say in the property what a
race excuses, by history variables that only the race itself can set: `raced` in
`Orders` and `Catalog` (deleted while a request that names it was being served),
`drifted` in `Catalog` (a refresh or a clearing that was lost or overtaken),
`excused` in `Access` (a lost delete, a reader that saw the old row, or a save without
a delete over another handler's change), `unheard` in `Session` (an answer with a new
token that was lost), `unguarded` in `Membership` (an owner was linked or let go while
nobody could tell the owner role), `orphans`, `raced` and `ownChart` in `Onboarding`. `seen` in `Orders` remembers every content a
contact ever had, `everOwner` in `Membership` who ever was an owner: owners take no
seat, so a demoted one may exceed the limit.

`PaymentStatusDerived`, `GainsWithinBalance` and `TypeOK` of `SalesLedger`,
`PaymentStatusDerived`, `CreditWithinTotal` and `TypeOK` of `PurchaseLedger`,
`SameKeySameEntry` of `Journal` and `LimitsOvershoot` of `Workspace` need no such
condition: they are proved below for the unrestricted `Spec`.

### What the passing runs show

* `sales`: an invoice's paid amount is the sum of its verified payments and live
  allocations through any mix of edits, moves and deletions. `GainsWithinBalance`
  is about the double check of an amount: once without a lock for a good error
  message, once under it. The second alone decides.
* `purchase`: `BooksBalanced` says that one successful backfill repairs whatever
  starts that failed to backfill left behind, although it skips invoices without
  a live receipt. `NeverOverstated` says why it may: those are never credited.
* `locks`: sorting is enough for every kind of transaction but an edit, and even
  with edits nobody waits for ever.
* `journal`: an idempotency key is bound to one entry for good, also when that
  entry is deleted (the index has no `deleted_at` condition). Posting validates
  the lines *as stored*, which is what keeps posted entries balanced when the
  columns rounded them.
* `company`: the limit of the company's plan is passed by at most the number of other
  requests, whatever its status was meanwhile, and a save of the row never loses
  profile or logo. For the numbers, the generator's maximum-plus-one (not a count) is
  what makes them survive deletions.
* `sales` also shows the refinement: with two handlers in flight every step of the
  ledger is a step of `MoneyBook`. In particular the clamp at zero of a reversal
  never bites, which no local argument shows.
* `membership`: `guardLastOwner` is on every path that takes the owner role away; what
  it cannot stop is a demotion while the owner role is unknown, and the property says
  exactly that (`unguarded`). And
  `Upsert`'s choice of a row by user or by address never hands an accepted
  membership to somebody else or brings a removed one back.
* `access`: an access entry is stale only after a lost delete, after a request that
  read the row before the change wrote its entry after it, or after a handler that does
  not invalidate (a profile edit, a resent invitation) saved its old copy over another
  handler's change. Whatever was lost, the caches agree with what they cache in the
  end, because every entry expires; only permissions that the fallback took from the
  token need not be those of the role, since a lookup may fail again and again. A 401
  needs a verdict of the SSO, never an outage, a strange status or garbage; while the
  login lives it goes only to a token that was replaced, and then the browser has the
  new one or is about to be handed it, unless that answer was lost.
* `orders`: the lock of the header's `UPDATE` is what keeps two edits from mixing
  their lines (the lines are deleted and inserted after it). The grand total and the
  stored lines agree up to half a cent per line, and no discount makes it negative.
  A contact that is edited, deleted or cleaned up leaves the copies on orders as
  they were. The form of a partner applies exactly its list, under three
  permissions of their own.
* `catalog`: the reference checks hold but for the race they leave open; compound
  rates follow their components; interleaved saves of primary bank accounts end with
  at most one.
* `onboarding`: only a crash or a failed rollback leaves a company without any member;
  that the member is an owner is not guaranteed, since the creator is linked without a
  role when the owner role cannot be told. Accounts and books are never seeded twice
  thanks to their index, taxes and units only by a race. The backfill is recorded only
  when every company has units, so the next start finishes it. What a submission did
  not seed, the list seeds when it is found empty again and again (nothing makes a user
  open it, and some may not); but rows of the user's own, such as an account made before
  the chart, keep the defaults of that table away for good.

### What the violation runs show

Both are listed under `findings` with the line of the code and the sentence it
disagrees with.

* `sales_double_verify`: two verifications of one pending payment both credit the
  invoice, against "moves to verified exactly once".
* `workspace_full_limits`: an activated company is refused at the initial limit, against
  "FullLimits apply once activated" (`domain/activation/activation.go:32`) and the test
  `TestActivationLimits_FullTierAfterActivation`, whose fake reader returns the status
  that the real column list leaves out. For the same reason every save writes the empty
  status back, against "permanently" (`model/company.go:113`). `LimitsOvershoot` bounds a
  company by the limit of its status; that the initial one is kept throughout is
  the stronger fact that its proof uses.

Further divergences met while modelling, without a run of their own. In most of them
the step is in the model, and the condition or history variable named above keeps it
apart.

Ledgers, journal, numbers, workspace:

* an edit of a receipt locks the old rows in order, then the new ones in order; two
  edits can deadlock (`sales_receipt.repository.go:283`), against "a consistent lock
  order ... avoids deadlocks" (`:189`). PostgreSQL then aborts one of them;
* an edit or deletion that read a draft still goes through after the entry was posted
  (`journal.service.go:40`), against `domain/journal/errors.go:26`;
* two creations get one number in a table without a unique index
  (`purchase_invoice.repository.go:351`), against
  `domain/purchaseinvoice/purchaseinvoice.go:142`;
* `companyColumns` omits `activation_status` and `SaveCompany` writes every column
  (`onboarding.repository.go:79`), so a settings form resets the status of an
  activated company, against "it is never re-locked" (`model/company.go:115`);
* a payment verified between the counts of `BackToDraft` and its update stays on
  the draft (`sales_invoice.repository.go:308`); the same for a receipt created
  while a purchase invoice is cancelled (`purchase_invoice.repository.go:295`);
* `SalesInvoiceRepository.Delete` does not make the check that the comment on
  `checkInvoiceHasNoPayments` (`references.go:183`) promises for deletion;
* two edits of one purchase receipt give the payment they read back twice
  (`purchase_receipt.repository.go:168`);
* half-cent lines are rounded one by one, the totals of the entry once
  (`journal.repository.go:345`), so the cached totals may differ from the lines;
* an edit that read a live entry replaces the lines of the entry after its
  deletion (`journal.repository.go:151`);
* after a unique violation on the key, the re-fetch runs in a transaction that
  PostgreSQL has already aborted (`journal.repository.go:84`), so the racing
  create fails instead of being answered with the first one's entry;
* the generator's `LIKE` is case sensitive, the comparison of numbers is not;
* through the same column list, every save blanks a website that the form does not
  repeat;
* the old logo file is deleted before the row is saved (`company.service.go:102`).

Membership and access:

* two owners demoted or removed at once both pass `guardLastOwner`
  (`membership.service.go:490`); it passes as well when the role list cannot be
  fetched and no owner role is pinned, and counts a deactivated owner as active;
* a grant looks a person up by address and `Upsert` then writes by user id
  (`membership.repository.go:183`): granted under a second address, an owner's row is
  overwritten without the guard;
* `InviteMulti` does not make `Invite`'s check that nobody is invited as owner;
* rows are saved whole: a handler that loaded a row before it was accepted or removed
  reverts that;
* a demoted owner takes a seat that nobody checked;
* `LinkCompanyCreator` stores the creator without a role, and no error, when the owner
  role cannot be resolved (`membership.service.go:208`), against "makes the actor the
  owner" (`:185`): the company then has a member, but nobody in the owner role;
* `UpdateMemberProfile` and `ResendInvite` (`membership_users.service.go:531-569`) save
  the row as they loaded it and delete no cache entry: overlapping a ban or a role
  change they revert it, and entries written meanwhile stay until they expire;
* with the fallback, a role whose lookup keeps failing is answered with the token's
  permissions, which are cached like resolved ones (`membership.service.go:122-140`), so
  they may differ from the role's for as long as that lasts;
* when the SSO has replaced a token and its answer is lost, the retry shows the old
  token and gets a verdict: 401, and the frontend logs the user out, against the
  comments at `validate_token.go:110` and `:142`.

Orders and contacts:

* an order is edited in any status, against "Rejected outright once the order is
  Confirmed or Cancelled" (`domain/salesorder/salesorder.go:57`); `ErrNotEditable`
  is never returned;
* confirm and cancel read the status and update by id: of two that race, the last
  one wins;
* an order that keeps its contact while its partner changes names another partner's
  contact, and one that keeps it while another edit clears it is left without;
* `syncContacts` updates row by row, so a form that swaps two names does trip the
  duplicate index its comment rules out;
* a compound tax is charged as exclusive although its components are inclusive.

Master data and onboarding:

* a series of edits can make an account its own ancestor
  (`account.repository.go:195`); default accounts of a journal book are not looked up;
* two saves of primary bank accounts that race can leave none;
* a crash, or a rollback that fails, leaves a company without a member; taxes seeded
  after accounts failed have no accounts and never get them.

### Bounds

Two handlers are enough for every race named here: each is between one handler's
read and another's write. Two cents distinguish nothing, part and all of a total.
Two invoices let a purchase receipt move; two rows let transactions lock in
opposite orders, and three transactions let one wait behind a ring. The `sales`
run has one invoice, since the balance primitives touch each invoice of a receipt
separately; the theorems hold for any number of them. Three rows let a member be
removed and invited again beside an owner. Two requests after a company with
documents are a race of any two operations; three in `catalog`, because a compound
rate needs an edit, a refresh and a bystander. Two changes of a membership let a save
of an old copy overtake a change, and an edit of a role, with a request before, during
and after, is the shortest history in which a cache goes stale; two replaced tokens let
one be replaced while another is on its way; two faults let a compensation fail as well. Three documents and three
numbers let a number be freed in the middle. `MaxSeq`, `MaxAmount` and the limits
of `Workspace` are the only bounds on counters; nothing in the models depends on
their values beyond the named assumptions. Deadlock checking is off where a
system may stop for lack of users or free ids; it is on in `purchase`,
`workspace_full_limits`, `access` and `onboarding`, which can always go on, and in
`orders`.

### Fairness

`InvoiceLocks` assumes weak fairness of `Lock`,
`Commit` and `DeadlockVictim` for each transaction: PostgreSQL grants a free
lock to a waiter, a transaction that has its locks runs to its commit (the code
between does no further waiting), and the deadlock detector runs after
`deadlock_timeout`. `Refuse` and `BeginTx` have no fairness: no request has to
arrive or to fail.

`Access` and `Session`: a request that has begun runs to its answer and a handler that
wrote runs to its invalidation (or loses it), since nothing in them waits for ever
(SSO calls time out); and Redis drops an entry after its time to live. Nobody has to
make a change or a request.

`Onboarding`: a request that has found a list empty seeds it, or fails, or is lost in a
crash. Nobody has to open a list: `EventuallySeeded` is about lists that are found empty
again and again. Faults are bounded, so a run of them ends.

## 4. Proofs

TLAPS checks them for every value of the constants: any number of rows, documents,
people, handlers, requests and lines, any amounts. What they assume is the named
`ASSUME` of each module, which TLC evaluates on every run: finite tables, bounds that
are natural numbers, a company that starts with an account, two taxes, a partner and a
contact, ids of different tables that differ. In `Orders` also: a submitted form is well
formed (`FormsAssumption`; its numbers may have any sign and size, that the calculation
refuses some is part of the model), tax rates are percentages, and quantities have some
scale (`ScaleAssumption`).

Every safety property of a passing run, as an invariant or an action property, has a
theorem here. Where the conjuncts of an inductive invariant are bounded by the
constants, TLC checked it on the component's run before it was proved; those that
speak of all natural numbers or of some batch of lines (the sums, fractions and counts
in `WholeInv`, `LimitsCounted`, `NumberInv`) were found by proof only, from a property
TLC had checked.

| module | theorems | of |
|---|---|---|
| `SalesLedgerProofs` | `TypeCorrect`, `StatusAlwaysDerived`, `GainsAlwaysWithinBalance` | `SalesLedger!Spec` |
| | `BalanceAlwaysConserved`, `DraftsCarryNoMoney`, `LedgerImplementsBook` | `SalesLedger!SpecDistinct` |
| | `SortedLocksNeverDeadlock` | `InvoiceLocks!Spec` |
| `PurchaseLedgerProofs` | `TypeCorrect`, `StatusAlwaysDerived`, `CreditsAlwaysWithinTotal` | `PurchaseLedger!Spec` |
| | `NeverOverstatedHolds`, `BooksStayBalanced`, `NothingEverStranded` | `PurchaseLedger!SpecDistinct` |
| `JournalProofs` | `TypeCorrect`, `OneEntryPerKey` | `Journal!Spec` |
| | `PostedStands`, `PostedBalances`, `NothingDangles` | `Journal!SpecApart` |
| `MembershipProofs` | `TypeCorrect` | `Membership!Spec` |
| | `AcceptedAlwaysStands`, `RemovedAlwaysStaysOut`, `SeatsBounded`, `OwnerAlwaysRemains`, `PinnedOwnerAlwaysRemains` | `Membership!SpecApart` |
| | `GateTypeCorrect`, `StaleOnlyAfterARaceSound` | `Access!Spec` |
| | `DoorTypeCorrect`, `OutageNeverLogsAnyoneOut` | `Session!Spec` |
| `CatalogProofs` | `TypeCorrect`, `MasterDataStaysLive`, `CompoundRateAlwaysSum`, `OnePrimaryHolds` | `Catalog!Spec` |
| `OrdersProofs` | `TotalsReconcileSound`, `CopiesStaySound`, `ReferencesLiveSound`, `PartnerSaveExact` | `Orders!Spec` |
| | `NumbersUnique` | `DocumentNumbers!SpecCareful` |
| `OnboardingProofs` | `TypeCorrect`, `MemberlessExcused`, `SeededOnceHolds`, `TaxesAreLinked`, `BackfillComplete` | `Onboarding!Spec` |
| | `LimitsOvershootBounded` | `Workspace!Spec` |
| | `ProfileStaysAsGiven` | `Workspace!SpecOneCopy` |
| `SumTheorems` | `SumUpdate` and its companions | |

`LimitsOvershootBounded` is stronger than its run: it needs no `OneCopy`.

Four proof modules speak of two components or more. They extend the first, and of the second
the module with its state and its properties (`RowLocks`, `NumberedTable`,
`CachedAccess`, `SignedIn`, `CompanyState`); its actions come in by a named instance
(`Locks`, `Numbering`, `Gate`, `Door`, `Office`). So `Office!Spec` is the specification of `Workspace`,
over the variables the proof module shares with it. `AccessAssumption` of `Access`, which
is reached by instance only, is a hypothesis of the theorems about it.

### Sums

A balance is a sum over all documents, a step changes one document, and
`SumTheorems!SumUpdate` is the bridge: when one term changes, the sum changes by the
difference. Induction over finite sets cannot be cited here (the library's theorem takes
an operator), so each induction is a minimal counterexample instead: strict inclusion on
the subsets of a finite set is well-founded, hence a set of bad subsets has a minimal
member, and taking the folded element out of it yields a smaller one. The same argument
shows that a fold unfolds by its last element at all (`FoldingSolved`): the community
module defines it by `CHOOSE`, so that the chosen function satisfies its recursion has to
be proved.

### Sales ledger

* `TypeCorrect`: `TypeOK` is inductive by itself. Its substance is that a paid amount
  stays natural through reversals whose amounts were read earlier: the clamp in
  `reverseSalesInvoicePayment`.
* `StatusAlwaysDerived`: the code derives the status with two different tests; they
  agree because `mayApply` admits an amount of at least a cent only to a positive
  total (`ApplyDerived`).
* `GainsAlwaysWithinBalance`: an edit of a receipt first gives back, then applies; that
  what it gave back was never less than nothing is `ReverseAllOnlyGivesBack`.
* `BalanceAlwaysConserved`: `BalanceConserved` alone is not inductive. It needs what a
  handler has read of its own document to be what the table still says (`Fresh`), which
  holds because no other handler has that document in hand, and that a draft has
  nothing applied to it (`UnpaidUntilConfirmed`, `StillUnpaid`). Then the clamp never
  bites, since a balance is at least the part that one document holds.
* `LedgerImplementsBook`: from that invariant, initial states map to initial states and
  every step to a `Move` of one document, a `SetTerms` of one bill, or a stutter.
  `MoneyStep` is the split: an action moves the credit of one document, or leaves all
  credit alone (`Quiet`) and edits at most one invoice otherwise, which it
  leaves a draft only if nothing is credited to it.

### Purchase ledger

`BooksBalanced` and `NeverOverstated` are one argument with two relations: equality
once a backfill has succeeded, at most before. Both are inductive together with `Fresh`,
`StillEmpty` (what a status change counted is still so), `AbsentIsDraft` and
`DistinctReceipts`, and `NothingStranded` is proved from the same invariant. The
backfill itself establishes equality because an invoice that it skips has no live
receipt, and by `NeverOverstated` no credit either. `CreditsAlwaysWithinTotal` needs
`TypeOK` alone: the check under the row lock is enough.

### Locks

The inductive invariant is `TypeOK /\ LockOrder`: what a transaction that is no edit
still needs lies above all it holds. In a ring without an edit, the transaction that
needs the least row would hold a row someone else of the ring needs, which is smaller
still; the naturals have no such descent (`LeastOfNaturals`).

### Journal

`OneEntryPerKey` holds for the unrestricted `Spec`: live or deleted, two entries never
share a key (`KeysUnique`), an answer names an entry of its key (`AnswersHold`), and a
handler is answered by what `CreateTx` found or by what it inserted itself. The
properties of posting need `Apart`: then what a handler has read of its entry is still
true when it writes (`StillRead`), what is about to be posted balances as stored
(`PostingHolds`), and every header balances from the creation on (`HeadersBalanced`),
whence rounding the lines and the totals apart does no harm to a posted entry.

### Membership

The invariant says what a handler's copy of a row may be out of date about
(`HeldRows`): only a row whose invitation is open can have changed, and only by the
same invitation sent again. `EmailsUnique` makes the row that `Upsert` chooses the one
the handler checked. `OwnerAlwaysRemains` adds `OwnerSpared`: whoever passed
`guardLastOwner` knowing the owner role leaves another active owner, and no second one
passes at once; who passed without knowing it is `unguarded` from then on. It assumes
nothing of the deployment. Its corollary `PinnedOwnerAlwaysRemains` says that where the
owner role is pinned that case does not arise: there is always an active owner.
`SeatsBounded` counts the seats taken and those about to be taken.

### Master data

The reference checks are statements apart from the writes they protect. The proof makes
the overlap explicit: what a request is about to write is live or was raced for
(`NamesLive`), what it is about to delete is unused or was raced for (`DeletesUnused`).
A request that names a row while another one deletes it is an overlap, and overlaps are
in `raced`: so each of the two invariants keeps the other, and `MasterDataLive` follows
from both. `CompoundRateIsSum` needs the sums on their way as well (`SumsRead`) and that
components are single taxes (`ComponentsSound`): a refresh then never changes a rate that
another sum depends on. A rate edit leaves its refresh pending, and puts into `drifted` who
has summed up the old rate. `OnePrimary` is inductive only pairwise (`OneIsSaved`: of two
primary accounts one is being saved); the cardinality follows.

### Onboarding

The steps are of four kinds: they leave the seeding alone, begin a seed that saw an
empty table, insert, or end a handler. `SeedsBounded` bounds how often a table was
seeded by the inserts that may still come, `AgainIsRaced` says a second one was raced
for, `ChartFirst` that a submission reaches its taxes only after the chart is there.
`BackfillDone` gives the action property: the loop records its end only after the last
company.

### Orders

* `CopiesStaySound`: what a request is about to write is a contact with a copy that the
  contact has had (`CopiesHeld`), and `seen` has the details of every row there is
  (`DetailsSeen`). A contact that a request holds cannot be purged, as the clean-up of a
  start runs before requests are served.
* `ReferencesLiveSound` is the overlap argument of the master data, for partners and
  taxes: what a request holds is live or was raced for, what is about to be deleted is
  unused or was raced for, and `overlaps \subseteq raced`.
* `TotalsReconcileSound` has a half about interleavings and one about arithmetic. The
  first: an edit that has the row's lock deletes the lines it saw under it (`EditsLock`),
  so they are those of the save that wrote the totals (`Whole`), and an order that is
  inserted was never there. The second (`CalcReconciled`): whatever the form, a
  calculation that is not refused returns totals that add up. A fraction has positive
  terms and keeps its value when it is cancelled (`GcdDivides`, `FractionValue`);
  rounding is monotone and off by at most half (`RoundMonotone`, `RoundNear`); so is a sum
  of such amounts by half a cent each (`TotalNear`), and the discount, which is at most
  the subtotal, is at most the total (`TotalMonotone`): hence no negative grand total.
* `PartnerSaveExact`: along the list of a form the entries go to as many contacts, each to
  the one it names or to one that was not there (`Placed`), by induction over the list
  (`ListPlaced`). That one is always left is a count (`OneIsLeft`): the new entries so far
  are fewer than the free rows. From the placing follow the number of contacts, their
  details, and the three permissions.

### Numbers

With an index there is nothing to carry: no statement gets past it. Without one, the
invariant (`Guarded`) is that whoever writes is alone, that the number it carries is still
free, and that live numbers have the generator's spelling, so that the scan sees them
all; the generated number is then above each of them (`NextIsFree`).

### Access

`StaleOnlyAfterARace` needs the readers on their way: a request that read the membership
before a change and has not stored it is one of `staleReaders`, and when the deletes are
made while there is one, or are lost, that is what sets `excused` (`StaleExcused`). A save
that deletes nothing is harmless as long as the row is still the copy it was made from;
otherwise it sets `excused` itself.

### Session

`OutageNeverLogsOut` is an action property from the invariant `InStep`: the token the SSO
takes is the one the browser has, or one that a request in flight is about to hand over,
unless an answer with a token was lost (`Handing`). A 401 comes from `Refused` alone, with an
answer that is not transient, which `answersTo` gives for a live login only to a token
that is no longer taken (`Fair`); and a request never shows a token the SSO has not minted yet.

### Workspace

`LimitsCounted`: the count plus the handlers that passed the check and have not written
is below the limit plus all handlers, as long as it is above the limit only through them
(`Below`); a handler is let through only below the limit (`LetThrough`). The limits that
are checked are always the initial ones, since the column list blanks the status
(`InitialLimitsApply`). `FormInv`: the one copy in flight agrees with what the form was
told (`CopiesAgree`), and there is one at most (`HeldByOne`).

### Only model-checked

* Liveness: `EveryTransactionEnds`, `CachesSettle`, `EventuallySeeded` (fairness and
  `ENABLED` are out of the prover's reach).
* The violation runs: a counterexample needs no proof.

## 5. Plan

Done: the ledgers, locks, journal, numbers and workspace; membership and the caches;
orders, partners and contacts with the line arithmetic; master data; onboarding; the
refinement of `MoneyBook`; a theorem for every safety property of the runs.

Left, in this order:

1. The backfill of a new instance beside an old one that still serves.
2. The deletion check of units, and the choice of templates.

## 6. Not modelled

Reports and connected documents (read-only), the audit log (append-only, nothing
reads it back), templates and configuration (presentation), notifications
(best-effort mail), routing, validation of formats, pagination, rich text,
connections. The SSO is external and appears only as far as a handler depends on
it. Schema migration is taken as done. Edits and the deletion check of units (which look
for a unit by its name in the lines of documents) and the choice of a template for a
document are not modelled: no other state depends on them.
