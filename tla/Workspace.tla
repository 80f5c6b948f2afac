----------------------------- MODULE Workspace -----------------------------
(***************************************************************************)
(* One company: its row, its settings form and logo files, the one-way     *)
(* activation milestone, and the Free-plan limits on partners and on       *)
(* transactions per month.                                                 *)
(*                                                                         *)
(* The row is read through a column list and written back whole, so what   *)
(* the list leaves out is overwritten with Go's zero value.  The settings  *)
(* form, the activation and the limit checks all read, work and write in   *)
(* separate steps.  Logo files live in the SSO's storage.                  *)
(***************************************************************************)
EXTENDS CompanyState

VARIABLES
    files,      \* logo files that exist in the storage
    requests    \* what each handler in flight has read so far

vars == <<company, files, partners, invoices, others, requests, given>>

NoRequest == [op |-> "none"]

Request ==
         {NoRequest}
    \cup [op : {"profile_logo", "count", "activate"}, copy : Company]
    \cup [op : {"profile_save"}, copy : Company, logoGiven : BOOLEAN]
    \cup [op : {"progress"}]
    \cup [op : {"create"}, what : {"partner", "invoice", "other"}]
    \cup [op : {"refused"}, what : {"partner", "transaction"}, limit : Nat]

TypeOK ==
    /\ company \in Company
    /\ files \subseteq Logos
    /\ partners \in Nat /\ others \in Nat
    /\ invoices \in [month : Nat, older : Nat]
    /\ requests \in [Handlers -> Request]
    /\ given \in [profile : {"complete", "incomplete"}, logo : Logos \cup {NoLogo}]

----------------------------------------------------------------------------
(* The company row. *)

\* Faulty variant: a column of the profile is missing from the list, too.
FaultyCompanyColumns(c) == [c EXCEPT !.website = "", !.activation = "", !.profile = "incomplete"]

\* companyColumns lists neither website nor activation_status.
companyColumns(c) == [c EXCEPT !.website = "", !.activation = ""]

FindCompanyByID == companyColumns(company)

\* SaveCompany writes every column.
SaveCompany(c) == company' = c

applyString(old, new) == IF new = "keep" THEN old ELSE new

Begin(r, m) == requests[r] = NoRequest /\ requests' = [requests EXCEPT ![r] = m]

Continue(r, m) == requests' = [requests EXCEPT ![r] = m]

Finish(r) == Continue(r, NoRequest)

\* A failed check, upload or statement, an answer sent, or a crash.
Abort(r) ==
    /\ requests[r] /= NoRequest
    /\ Finish(r)
    /\ UNCHANGED <<company, files, partners, invoices, others, given>>

----------------------------------------------------------------------------
(* The settings form. *)

UpdateProfileRead(r) ==
    /\ Begin(r, [op |-> "profile_logo", copy |-> FindCompanyByID])
    /\ UNCHANGED <<company, files, partners, invoices, others, given>>

\* A new file is uploaded under a fresh URL; then the old one, as read, is
\* deleted, which may fail (it is only logged).
processLogo(r, logo) ==
    LET m == requests[r] IN
    /\ m.op = "profile_logo"
    /\ logo = NoLogo \/ logo \notin files \cup {m.copy.logo, company.logo}
    /\ \E gone \in SUBSET {m.copy.logo} :
          files' = (files \cup ({logo} \ {NoLogo})) \ gone
    /\ Continue(r, [op |-> "profile_save", copy |-> [m.copy EXCEPT !.logo = logo],
                    logoGiven |-> TRUE])
    /\ UNCHANGED <<company, partners, invoices, others, given>>

\* The form names no logo, or the one it already has.
KeepLogo(r) ==
    /\ requests[r].op = "profile_logo"
    /\ Continue(r, [op |-> "profile_save", copy |-> requests[r].copy, logoGiven |-> FALSE])
    /\ UNCHANGED <<company, files, partners, invoices, others, given>>

UpdateProfileSave(r, profile, website) ==
    LET m == requests[r] IN
    /\ m.op = "profile_save"
    /\ SaveCompany([m.copy EXCEPT !.profile = applyString(@, profile),
                                  !.website = applyString(@, website)])
    /\ given' = [profile |-> applyString(given.profile, profile),
                 logo |-> IF m.logoGiven THEN m.copy.logo ELSE given.logo]
    /\ Finish(r)
    /\ UNCHANGED <<files, partners, invoices, others>>

----------------------------------------------------------------------------
(* Activation. *)

\* Progress, asked for by a user or as the Recompute after a create.
ProgressRead(r) ==
    /\ requests[r] \in {NoRequest, [op |-> "progress"]}
    /\ Continue(r, [op |-> "count", copy |-> FindCompanyByID])
    /\ UNCHANGED <<company, files, partners, invoices, others, given>>

\* All three steps of the checklist are done.
ProgressCount(r) ==
    LET m == requests[r] IN
    /\ m.op = "count"
    /\ m.copy.activation /= "activated"
    /\ m.copy.profile = "complete"
    /\ partners >= RequiredPartners
    /\ invoices.month + invoices.older >= 1
    /\ Continue(r, [m EXCEPT !.op = "activate"])
    /\ UNCHANGED <<company, files, partners, invoices, others, given>>

ProgressSave(r) ==
    LET m == requests[r] IN
    /\ m.op = "activate"
    /\ SaveCompany([m.copy EXCEPT !.activation = "activated"])
    /\ Finish(r)
    /\ UNCHANGED <<files, partners, invoices, others, given>>

----------------------------------------------------------------------------
(* Limits: checked before a create, which is a later step. *)

limitsFor(status, initial, full) == IF status = "activated" THEN full ELSE initial

PartnerLimit == limitsFor(FindCompanyByID.activation, InitialPartners, FullPartners)
TransactionLimit == limitsFor(FindCompanyByID.activation, InitialTransactions, FullTransactions)

\* Faulty variant: the limit itself is still let through.
FaultyReached(n, limit) == n > limit

reached(n, limit) == n >= limit

CheckPartnerLimit(r) ==
    /\ Begin(r, IF reached(partners, PartnerLimit)
                THEN [op |-> "refused", what |-> "partner", limit |-> PartnerLimit]
                ELSE [op |-> "create", what |-> "partner"])
    /\ UNCHANGED <<company, files, partners, invoices, others, given>>

CheckTransactionLimit(r, what) ==
    /\ what /= "partner"
    /\ Begin(r, IF reached(Transactions, TransactionLimit)
                THEN [op |-> "refused", what |-> "transaction", limit |-> TransactionLimit]
                ELSE [op |-> "create", what |-> what])
    /\ UNCHANGED <<company, files, partners, invoices, others, given>>

\* The insert, and on to Recompute.
Create(r) ==
    LET m == requests[r] IN
    /\ m.op = "create"
    /\ partners' = IF m.what = "partner" THEN partners + 1 ELSE partners
    /\ invoices' = IF m.what = "invoice" THEN [invoices EXCEPT !.month = @ + 1] ELSE invoices
    /\ others' = IF m.what = "other" THEN others + 1 ELSE others
    /\ Continue(r, [op |-> "progress"])
    /\ UNCHANGED <<company, files, given>>

\* Soft deletes: the counts are of live rows.
DeletePartner ==
    /\ partners > 0 /\ partners' = partners - 1
    /\ UNCHANGED <<company, files, invoices, others, requests, given>>

DeleteTransaction ==
    /\ \/ invoices.month > 0 /\ invoices' = [invoices EXCEPT !.month = @ - 1] /\ UNCHANGED others
       \/ invoices.older > 0 /\ invoices' = [invoices EXCEPT !.older = @ - 1] /\ UNCHANGED others
       \/ others > 0 /\ others' = others - 1 /\ UNCHANGED invoices
    /\ UNCHANGED <<company, files, partners, requests, given>>

\* More than one older invoice tells nothing apart, so one is kept.
NewMonth ==
    /\ invoices' = [month |-> 0, older |-> IF invoices.month + invoices.older > 0 THEN 1 ELSE 0]
    /\ others' = 0
    /\ UNCHANGED <<company, files, partners, requests, given>>

----------------------------------------------------------------------------
\* After onboarding: an active company, with or without a complete profile.
Init ==
    /\ \E p \in {"complete", "incomplete"} :
          /\ company = [profile |-> p, website |-> "", logo |-> NoLogo, activation |-> "initial"]
          /\ given = [profile |-> p, logo |-> NoLogo]
    /\ files = {}
    /\ partners = 0 /\ others = 0 /\ invoices = [month |-> 0, older |-> 0]
    /\ requests = [r \in Handlers |-> NoRequest]

Next ==
    \/ DeletePartner \/ DeleteTransaction \/ NewMonth
    \/ \E r \in Handlers :
          \/ UpdateProfileRead(r) \/ KeepLogo(r)
          \/ \E logo \in Logos \cup {NoLogo} : processLogo(r, logo)
          \/ \E p \in {"keep", "complete", "incomplete"}, w \in {"keep", "", "set"} :
                UpdateProfileSave(r, p, w)
          \/ ProgressRead(r) \/ ProgressCount(r) \/ ProgressSave(r)
          \/ CheckPartnerLimit(r) \/ \E what \in {"invoice", "other"} : CheckTransactionLimit(r, what)
          \/ Create(r) \/ Abort(r)

Spec == Init /\ [][Next]_vars

\* At most one handler in flight holds a copy of the company row: the code
\* takes no lock on it, and the last of two copies to be saved wins.
OneCopy ==
    Cardinality({r \in Handlers :
        requests[r].op \in {"profile_logo", "profile_save", "count", "activate"}}) <= 1

SpecOneCopy == Init /\ [][Next /\ OneCopy']_vars

\* What the tests and the model's comment say of an activated company: from then
\* on the limits that refuse its requests are the full ones.  The code does not
\* do so, since the status is not among the columns that the check reads.
ActivatedGetsFullLimits ==
    [][company.activation = "activated" =>
          \A r \in Handlers :
              requests'[r] /= requests[r] /\ requests'[r].op = "refused" =>
                  requests'[r].limit = IF requests'[r].what = "partner"
                                       THEN FullPartners ELSE FullTransactions]_vars
==============================================================================
