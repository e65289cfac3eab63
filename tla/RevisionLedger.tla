--------------------------- MODULE RevisionLedger ---------------------------
(***************************************************************************)
(* The immutable revision table that every evidence store of the backend   *)
(* promises (app/persistence/ingestion.py, and the same scheme again in    *)
(* the history and forecast-verification repositories).                    *)
(*                                                                         *)
(* A row is one revision of one natural identity.  Rows are only appended: *)
(* an identity seen for the first time gets revision 0, a payload whose    *)
(* facts equal the latest revision writes nothing, and a changed fact is   *)
(* the next revision.  `seen' stands for the delivery metadata of a row    *)
(* (raw payload, retrieval time), which is never compared.                 *)
(***************************************************************************)
EXTENDS Naturals

CONSTANTS
    Ident,     \* natural identities (source, series, observed_at)
    Fact,      \* factual signatures
    NoFact,    \* "this payload has no record for the identity"
    Delivery   \* delivery metadata attached to a stored row

ASSUME NoFactAssumption == NoFact \notin Fact

VARIABLE ledger

Row == [id: Ident, rev: Nat, fact: Fact, seen: Delivery]

\* One deduplicated batch of mapped records: at most one fact per identity.
Payload == [Ident -> Fact \cup {NoFact}]

Rows(L, i) == {r \in L : r.id = i}

\* _latest_revision_statement: DISTINCT ON the identity, highest revision first.
Latest(L, i) == CHOOSE r \in Rows(L, i) : \A q \in Rows(L, i) : q.rev <= r.rev

\* Slip: number a new identity like a correction of revision 0.
NextRevFromOne(L, i) == IF Rows(L, i) = {} THEN 1 ELSE Latest(L, i).rev + 1

NextRev(L, i) == IF Rows(L, i) = {} THEN 0 ELSE Latest(L, i).rev + 1

\* An identity the batch changes: new, or different from its latest revision.
Changed(L, p, i) ==
    /\ p[i] # NoFact
    /\ Rows(L, i) # {} => Latest(L, i).fact # p[i]

\* _prepare_immutable_revisions.
Prepared(L, p, d) ==
    {[id |-> i, rev |-> NextRev(L, i), fact |-> p[i], seen |-> d] :
        i \in {j \in Ident : Changed(L, p, j)}}

\* ON CONFLICT DO NOTHING returned fewer rows than were offered.
Conflicts(L, rows) == \E r \in L, q \in rows : r.id = q.id /\ r.rev = q.rev

Init == ledger = {}

\* One committed transaction.
AppendRevisions(p, d) == ledger' = ledger \cup Prepared(ledger, p, d)

Next == \E p \in Payload, d \in Delivery : AppendRevisions(p, d)

Spec == Init /\ [][Next]_ledger

-----------------------------------------------------------------------------

\* Revisions of an identity number 0, 1, 2, ... without a hole, and no two
\* rows share a number.
Contiguous ==
    /\ \A r, q \in ledger : r.id = q.id /\ r.rev = q.rev => r = q
    /\ \A r \in ledger : \A n \in 0..r.rev :
          \E q \in ledger : q.id = r.id /\ q.rev = n

\* A revision exists because a fact changed: it differs from the one before it.
NoEmptyRevision ==
    \A r, q \in ledger : r.id = q.id /\ q.rev = r.rev + 1 => q.fact # r.fact

\* A stored revision is never rewritten or removed.
Immutable == [][ledger \subseteq ledger']_ledger
=============================================================================
