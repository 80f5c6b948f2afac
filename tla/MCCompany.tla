----------------------------- MODULE MCCompany -----------------------------
(* Two things that handlers do to one company's records, for TLC: Workspace *)
(* and DocumentNumbers.  They share no state, so a behaviour is about one   *)
(* of them and the other stands still.                                      *)
EXTENDS CompanyState, NumberedTable

CONSTANT Requests

VARIABLES files, requests, writing, topic

Office    == INSTANCE Workspace
Numbering == INSTANCE DocumentNumbers WITH requests <- writing

officeVars  == <<company, files, partners, invoices, others, requests, given>>
numberVars  == <<docs, writing, uniqueIndex>>

MCInit == Office!Init /\ Numbering!Init /\ topic \in {"company", "documents"}

\* The conditions of Office!SpecOneCopy and of Numbering!SpecCareful.
MCNext ==
    \/ /\ topic = "company" /\ Office!Next /\ UNCHANGED <<numberVars, topic>>
       /\ Office!OneCopy'
    \/ /\ topic = "documents" /\ Numbering!Next /\ UNCHANGED <<officeVars, topic>>
       /\ uniqueIndex \/ (Numbering!OneAtATime /\ Numbering!GeneratorSpelling)'

MCSpec == MCInit /\ [][MCNext]_<<officeVars, numberVars, topic>>
=============================================================================
