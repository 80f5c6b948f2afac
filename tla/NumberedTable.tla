--------------------------- MODULE NumberedTable ----------------------------
(***************************************************************************)
(* One table of documents with their numbers, and the unique index that    *)
(* five of the ten kinds of document have.  DocumentNumbers says how       *)
(* handlers fill it.                                                       *)
(*                                                                         *)
(* A number is its trailing integer and a spelling.  Numbers that differ   *)
(* in their spelling only (INV/2026/0007, inv/2026/0007) are the same to   *)
(* lower(number).                                                          *)
(***************************************************************************)
EXTENDS Naturals

CONSTANTS
    Docs,           \* ids of rows of the table
    MaxSeq,         \* bound on the trailing integer
    OtherSpellings  \* spellings that users type, besides the generator's

ASSUME MaxSeqAssumption == MaxSeq \in Nat \ {0}
ASSUME SpellingAssumption == "canonical" \notin OtherSpellings

VARIABLES
    docs,       \* the rows
    uniqueIndex \* does the table of this kind of document have its index?

Numbers == [seq : 1 .. MaxSeq, spelling : OtherSpellings \cup {"canonical"}]

Blank == [seq |-> 0, spelling |-> "canonical"]

LiveDocs == {d \in Docs : docs[d].row = "live"}

\* Go's EqualFold and SQL's lower(a) = lower(b).
SameNumber(a, b) == a.seq = b.seq

numberExists(n, except) == \E d \in LiveDocs \ except : SameNumber(docs[d].number, n)

\* The partial unique index on (company_id, lower(number)) of live rows.
IndexAdmits(n, except) == uniqueIndex => ~numberExists(n, except)

-----------------------------------------------------------------------------
\* No two live documents of a company have the same number, letter case aside:
\* kept by the index however handlers race and numbers are spelled, and by the
\* lookup and the scan alone where nothing races.
UniqueNumbers ==
    \A d, e \in LiveDocs : SameNumber(docs[d].number, docs[e].number) => d = e
=============================================================================
