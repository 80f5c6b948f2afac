-------------------------- MODULE DocumentNumbers --------------------------
(***************************************************************************)
(* How the documents of one company get their numbers: typed in by a user  *)
(* or generated as prefix/year/NNNN.  The same scheme is repeated for ten  *)
(* kinds of document; five of them have a unique index under it.           *)
(*                                                                         *)
(* Numbers that differ in their spelling only are the same to the index    *)
(* and to the lookup, but the scan of the generator, a LIKE on the prefix, *)
(* sees those in the generator's own spelling only.                        *)
(***************************************************************************)
EXTENDS NumberedTable, FiniteSetsExt

CONSTANT
    Requests        \* handlers that may be in flight at the same time

VARIABLE
    requests        \* the number each handler in flight is about to write

vars == <<docs, requests, uniqueIndex>>

NoRequest == [op |-> "none"]

Request ==
    {NoRequest} \cup [op : {"insert"}, number : Numbers]
                \cup [op : {"update"}, doc : Docs, number : Numbers]

TypeOK ==
    /\ docs \in [Docs -> [row : {"absent", "live", "deleted"}, number : Numbers \cup {Blank}]]
    /\ \A d \in Docs : docs[d].number = Blank <=> docs[d].row = "absent"
    /\ requests \in [Requests -> Request]
    /\ uniqueIndex \in BOOLEAN

----------------------------------------------------------------------------
\* Faulty variant: the number of documents, plus one.
FaultyNextSequence == Cardinality(LiveDocs) + 1

\* The highest trailing integer among the live numbers that the scan sees.
nextSequence ==
    Max({0} \cup {docs[d].number.seq : d \in {e \in LiveDocs : docs[e].number.spelling = "canonical"}}) + 1

----------------------------------------------------------------------------
Begin(r, m) ==
    /\ requests[r] = NoRequest
    /\ requests' = [requests EXCEPT ![r] = m]
    /\ UNCHANGED <<docs, uniqueIndex>>

Finish(r) == requests' = [requests EXCEPT ![r] = NoRequest]

\* A refused number, an index violation or a crash.
Abort(r) ==
    /\ requests[r] /= NoRequest
    /\ Finish(r)
    /\ UNCHANGED <<docs, uniqueIndex>>

CreateTyped(r, n) ==
    /\ ~numberExists(n, {})
    /\ Begin(r, [op |-> "insert", number |-> n])

CreateGenerated(r) ==
    /\ nextSequence <= MaxSeq
    /\ Begin(r, [op |-> "insert", number |-> [seq |-> nextSequence, spelling |-> "canonical"]])

\* A generated number is not looked up before it is inserted.
CreateInsert(r, d) ==
    LET m == requests[r] IN
    /\ m.op = "insert"
    /\ docs[d].row = "absent"
    /\ IndexAdmits(m.number, {})
    /\ docs' = [docs EXCEPT ![d] = [row |-> "live", number |-> m.number]]
    /\ Finish(r)
    /\ UNCHANGED uniqueIndex

\* A blank number keeps the one that was read.
UpdateKeep(r, d) ==
    /\ d \in LiveDocs
    /\ Begin(r, [op |-> "update", doc |-> d, number |-> docs[d].number])

UpdateTyped(r, d, n) ==
    /\ d \in LiveDocs
    /\ SameNumber(n, docs[d].number) \/ ~numberExists(n, {d})
    /\ Begin(r, [op |-> "update", doc |-> d, number |-> n])

\* Writes the remembered number; matches nothing if the row was deleted.
UpdateCommit(r) ==
    LET m == requests[r] IN
    /\ m.op = "update"
    /\ \/ m.doc \notin LiveDocs /\ UNCHANGED docs
       \/ /\ m.doc \in LiveDocs
          /\ IndexAdmits(m.number, {m.doc})
          /\ docs' = [docs EXCEPT ![m.doc].number = m.number]
    /\ Finish(r)
    /\ UNCHANGED uniqueIndex

Delete(d) ==
    /\ d \in LiveDocs
    /\ docs' = [docs EXCEPT ![d].row = "deleted"]
    /\ UNCHANGED <<requests, uniqueIndex>>

Init ==
    /\ docs = [d \in Docs |-> [row |-> "absent", number |-> Blank]]
    /\ requests = [r \in Requests |-> NoRequest]
    /\ uniqueIndex \in BOOLEAN

Next ==
    \/ \E d \in Docs : Delete(d)
    \/ \E r \in Requests :
          \/ \E n \in Numbers : CreateTyped(r, n) \/ \E d \in Docs : UpdateTyped(r, d, n)
          \/ \E d \in Docs : CreateInsert(r, d) \/ UpdateKeep(r, d)
          \/ CreateGenerated(r) \/ UpdateCommit(r) \/ Abort(r)

Spec == Init /\ [][Next]_vars

\* A table without its index is only spared two documents of one number when
\* handlers come one at a time and users type the generator's spelling.
OneAtATime == Cardinality({r \in Requests : requests[r] /= NoRequest}) <= 1

GeneratorSpelling ==
    \A r \in Requests : requests[r] = NoRequest \/ requests[r].number.spelling = "canonical"

SpecCareful == Init /\ [][Next /\ (uniqueIndex \/ (OneAtATime /\ GeneratorSpelling)')]_vars
=============================================================================
