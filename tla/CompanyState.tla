---------------------------- MODULE CompanyState ----------------------------
(***************************************************************************)
(* What is stored of one company: its row, and how much it has of what the *)
(* Free plan counts.  Workspace says how handlers change it.               *)
(***************************************************************************)
EXTENDS Naturals, FiniteSets

CONSTANTS
    Handlers,           \* handlers that may be in flight at the same time
    Logos,              \* URLs of uploaded files
    NoLogo,             \* an empty company_logo
    RequiredPartners,   \* requiredPartners, 3 in the code
    InitialPartners,    \* InitialLimits.Partners, 10
    FullPartners,       \* FullLimits.Partners, 50
    InitialTransactions,\* InitialLimits.TransactionsPerMonth, 5
    FullTransactions    \* FullLimits.TransactionsPerMonth, 20

ASSUME LimitsAssumption ==
    /\ IsFiniteSet(Handlers)
    /\ RequiredPartners \in Nat /\ RequiredPartners <= InitialPartners
    /\ InitialPartners \in Nat \ {0} /\ FullPartners \in Nat /\ InitialPartners < FullPartners
    /\ InitialTransactions \in Nat \ {0} /\ FullTransactions \in Nat
    /\ InitialTransactions < FullTransactions
    /\ NoLogo \notin Logos

VARIABLES
    company,    \* the companies row
    partners,   \* number of live mitras
    invoices,   \* live invoices that count for the milestone: [month, older]
    others,     \* live orders and down payments of this month
    given       \* history: what the settings form was last told

Company ==
    [profile : {"complete", "incomplete"}, website : {"", "set"}, logo : Logos \cup {NoLogo},
     activation : {"", "initial", "activated"}]

Transactions == invoices.month + others

-----------------------------------------------------------------------------
\* The check and the insert are not one transaction, so requests that race can
\* pass the limit of the company's plan; but by no more than there are other
\* requests, also where the company has been activated meanwhile, or has lost its
\* status to a save that did not read it.  (A company is held to less than its
\* plan promises: ActivatedGetsFullLimits of Workspace.)
LimitsOvershoot ==
    LET Limit(initial, full) == IF company.activation = "activated" THEN full ELSE initial
    IN  /\ partners < Limit(InitialPartners, FullPartners) + Cardinality(Handlers)
        /\ Transactions < Limit(InitialTransactions, FullTransactions) + Cardinality(Handlers)

\* What the settings form was told about the profile and the logo is what the
\* row says, also after the activation has written the row back.
ProfileAsGiven == company.profile = given.profile /\ company.logo = given.logo
=============================================================================
