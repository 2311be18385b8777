---------------------------- MODULE LedgerProofs ----------------------------
(***************************************************************************)
(* Proofs about Ledger for every set of payloads, every number of rows,    *)
(* edits, repairs and recorded mutations.                                  *)
(***************************************************************************)
EXTENDS Ledger, SequenceTheorems, FiniteSetTheorems, WellFoundedInduction, TLAPS

RangeOf(s) == {s[i] : i \in DOMAIN s}

-----------------------------------------------------------------------------
(* The inductive invariant *)

\* The tables are sequences and the history variable is aligned with its table.
Tables ==
    /\ events \in Seq(RangeOf(events)) /\ wrote \in Seq(RangeOf(wrote))
    /\ epochs \in Seq(RangeOf(epochs)) /\ certs \in Seq(RangeOf(certs))
    /\ mutations \in Seq(RangeOf(mutations)) /\ noted \in Seq(RangeOf(noted))
    /\ Len(wrote) = Len(events)

\* One epoch at most, with its certificate and at least one row; a repair that
\* has verified and not yet written found no epoch, and nobody else makes one.
SingleEpoch ==
    /\ Len(epochs) <= 1
    /\ \A e \in DOMAIN epochs : /\ epochs[e].created \in Times
                                /\ \E cert : epochs[e].anchor = CertificateHash(cert)
    /\ Len(certs) = Len(epochs)
    /\ \A c \in DOMAIN certs : certs[c].epoch = c
    /\ main.at = "repair" => epochs = <<>>
    /\ epochs # <<>> => Len(events) > 0 /\ wrote[Len(events)].epoch = 1

\* Rows named by a handler between its two halves, or by a record, exist.
Handlers ==
    /\ main.at \in {"idle", "repair", "reconcile"}
    /\ main.at = "reconcile" => main.first \in 1..Len(events)
    /\ \A m \in 1..Len(mutations) : mutations[m].target \in 1..Len(events)
    /\ cache \in {"fresh", "expired"} /\ conn \in {"free", "wedged"}

\* The rows were inserted into the historical segment first, then into the epoch.
Contiguous ==
    \A i \in 1..Len(events) :
        /\ wrote[i].epoch = NULL \/ (wrote[i].epoch = 1 /\ epochs # <<>>)
        /\ \A j \in 1..i : wrote[j].epoch = 1 => wrote[i].epoch = 1

IsRow(r) == r = [payload |-> r.payload, prev |-> r.prev,
                 hash |-> r.hash, epoch |-> r.epoch]

Known == {NULL, Elsewhere, Gone} \cup DOMAIN epochs

\* What the inserted hash commits to, and that a row whose segment, then or now,
\* was never disturbed is as it was inserted.
Rows ==
    \A i \in 1..Len(events) :
        /\ IsRow(events[i]) /\ IsRow(wrote[i])
        /\ wrote[i].payload \in Payloads
        /\ events[i].payload \in Payloads \cup {BadJson}
        /\ events[i].epoch \in Known
        /\ wrote[i].hash = EventHash(i, wrote[i].payload, wrote[i].prev)
        /\ HashOf(i, events[i].hash)
        /\ events[i] = wrote[i] \/ {wrote[i].epoch, events[i].epoch} \subseteq disturbed

\* In a segment never disturbed each row was chained to the row inserted before it
\* in the segment, and the first row to the start of the segment.
Chained ==
    \A i \in 1..Len(events) :
        wrote[i].epoch \notin disturbed =>
            wrote[i].prev = IF i > 1 /\ wrote[i - 1].epoch = wrote[i].epoch
                            THEN wrote[i - 1].hash
                            ELSE IF wrote[i].epoch = NULL THEN NoHash
                            ELSE epochs[1].anchor

\* The hash the verifier expects in row i of a segment of a table.
Expected(rows, column, start, i) ==
    LET before == {j \in 1..(i - 1) : rows[j].epoch = column}
    IN  IF before # {} THEN rows[LastOf(before)].hash ELSE start

\* A segment of a table that the verifier finds pristine.
ChainOk(rows, column, start) ==
    \A i \in RowsOf(rows, column) :
        /\ IsRow(rows[i])
        /\ rows[i].hash = EventHash(i, rows[i].payload, rows[i].prev)
        /\ rows[i].prev = Expected(rows, column, start, i)

\* The segments of the table noted with a pristine answer are chains from starts
\* that have not changed since.
Noted ==
    /\ disturbed \subseteq Known
    /\ \A i \in DOMAIN noted : noted[i].epoch \in Known
    /\ ChainOk(noted, NULL, NoHash)
    /\ \A e \in DOMAIN epochs : ChainOk(noted, e, epochs[e].anchor)

IInv == Tables /\ SingleEpoch /\ Handlers /\ Contiguous /\ Rows /\ Chained /\ Noted

-----------------------------------------------------------------------------
(* Lemmas about the operators *)

\* A sequence is a sequence over its own range.
LEMMA RangeSeq ==
    ASSUME NEW S, NEW s \in Seq(S)
    PROVE  s \in Seq(RangeOf(s))
BY DEF RangeOf

\* What Append returns, and that it stays a sequence over its own range.
LEMMA AppendFacts ==
    ASSUME NEW s, s \in Seq(RangeOf(s)), NEW x
    PROVE  /\ Append(s, x) \in Seq(RangeOf(Append(s, x)))
           /\ Len(Append(s, x)) = Len(s) + 1
           /\ Len(s) \in Nat
           /\ DOMAIN s = 1..Len(s)
           /\ DOMAIN Append(s, x) = 1..(Len(s) + 1)
           /\ \A i \in 1..Len(s) : Append(s, x)[i] = s[i]
           /\ Append(s, x)[Len(s) + 1] = x
<1> DEFINE T == RangeOf(s) \cup {x}
<1>1. s \in Seq(T)
  OBVIOUS
<1>2. x \in T
  OBVIOUS
<1> HIDE DEF T
<1>3. Append(s, x) \in Seq(T)
  BY <1>1, <1>2
<1>4. Append(s, x) \in Seq(RangeOf(Append(s, x)))
  BY <1>3, RangeSeq
<1>5. QED
  BY <1>1, <1>2, <1>4

\* Append to an empty table.
LEMMA AppendToEmpty ==
    ASSUME NEW s, s \in Seq(RangeOf(s)), Len(s) = 0, NEW x
    PROVE  /\ Append(s, x) \in Seq(RangeOf(Append(s, x)))
           /\ Len(Append(s, x)) = 1
           /\ DOMAIN Append(s, x) = 1..1
           /\ Append(s, x)[1] = x
<1>1. /\ Append(s, x) \in Seq(RangeOf(Append(s, x)))
      /\ Len(Append(s, x)) = 0 + 1
      /\ DOMAIN Append(s, x) = 1..(0 + 1)
      /\ Append(s, x)[0 + 1] = x
  BY AppendFacts
<1>2. QED
  BY ONLY <1>1

\* The active epoch when there is at most one.
LEMMA ActiveEpochFacts ==
    ASSUME NEW eps, eps \in Seq(RangeOf(eps)), Len(eps) <= 1,
           \A e \in DOMAIN eps : eps[e].created \in Times
    PROVE  ActiveEpoch(eps) = IF eps = <<>> THEN 0 ELSE 1
<1>1. CASE eps = <<>>
  BY <1>1 DEF ActiveEpoch
<1>2. CASE eps # <<>>
  <2>1. DOMAIN eps = {1}
    <3>1. Len(eps) \in Nat \ {0}
      BY <1>2, EmptySeq
    <3> DEFINE n == Len(eps)
    <3>a. n \in Nat \ {0} /\ n <= 1
      BY <3>1
    <3> HIDE DEF n
    <3>b. n = 1
      BY ONLY <3>a
    <3>2. Len(eps) = 1
      BY <3>b DEF n
    <3>3. QED
      BY <3>2
  <2>2. eps[1].created \in Nat
    BY <2>1, TimesAssumption
  <2>3. \A f \in DOMAIN eps : eps[f].created <= eps[1].created
    BY <2>1, <2>2
  <2>4. QED
    BY <1>2, <2>1, <2>3 DEF ActiveEpoch
<1>3. QED
  BY <1>1, <1>2

\* The last element of a set of indices that contains its bound.
LEMMA LastOfIs ==
    ASSUME NEW n \in Nat, NEW S \in SUBSET (1..n), n \in S
    PROVE  LastOf(S) = n
<1>1. \A j \in S : j \in Int /\ j <= n
  OBVIOUS
<1>2. LastOf(S) \in S /\ \A j \in S : j <= LastOf(S)
  BY <1>1 DEF LastOf
<1>3. LastOf(S) \in Int /\ LastOf(S) <= n
  BY <1>1, <1>2
<1>4. n <= LastOf(S)
  BY <1>2
<1>5. QED
  BY <1>3, <1>4

\* A set of natural numbers that is not empty has a least element.
LEMMA LeastExists ==
    ASSUME NEW S \in SUBSET Nat, S # {}
    PROVE  \E i \in S : \A j \in S : i <= j
<1>1. PICK i \in S : \A j \in S : ~(<<j, i>> \in OpToRel(<, Nat))
  BY NatLessThanWellFounded, WFMin
<1>2. \A j \in S : ~(j < i)
  BY <1>1 DEF OpToRel
<1>3. QED
  BY <1>2

\* FirstInvalid is 0 exactly when no row of the segment is invalid, and names a
\* row of the segment otherwise.
LEMMA FirstInvalidFacts ==
    ASSUME NEW segment \in SUBSET (Nat \ {0})
    PROVE  /\ FirstInvalid(segment) # 0 => FirstInvalid(segment) \in segment
           /\ FirstInvalid(segment) = 0 =>
                \A i \in segment : RowStatus(i) \in {"valid", "self_modified"}
           /\ (\A i \in segment : RowStatus(i) \in {"valid", "self_modified"})
                => FirstInvalid(segment) = 0
<1> DEFINE bad == {i \in segment : RowStatus(i) \notin {"valid", "self_modified"}}
<1>1. CASE bad = {}
  BY <1>1 DEF FirstInvalid
<1>2. CASE bad # {}
  <2>1. \E i \in bad : \A j \in bad : i <= j
    BY <1>2, LeastExists
  <2>2. FirstInvalid(segment) = CHOOSE i \in bad : \A j \in bad : i <= j
    BY <1>2 DEF FirstInvalid
  <2>3. FirstInvalid(segment) \in bad
    BY <2>1, <2>2
  <2>4. QED
    BY <2>3
<1>3. QED
  BY <1>1, <1>2

\* ... and one that is bounded has a greatest element, which is LastOf.
LEMMA LastOfFacts ==
    ASSUME NEW n \in Nat, NEW S \in SUBSET (1..n), S # {}
    PROVE  LastOf(S) \in S /\ \A j \in S : j <= LastOf(S)
<1> DEFINE T == {n - j : j \in S}
<1>1. T \in SUBSET Nat /\ T # {}
  <2>1. \A j \in S : n - j \in Nat
    OBVIOUS
  <2>2. PICK j \in S : TRUE
    OBVIOUS
  <2>3. n - j \in T
    OBVIOUS
  <2> QED BY <2>1, <2>3
<1>2. PICK t \in T : \A u \in T : t <= u
  BY <1>1, LeastExists
<1>3. PICK i \in S : t = n - i
  OBVIOUS
<1>4. ASSUME NEW j \in S PROVE j <= i
  <2>1. n - i <= n - j
    BY <1>2, <1>3
  <2>2. i \in Int /\ j \in Int
    OBVIOUS
  <2> QED BY <2>1, <2>2
<1>5. \E k \in S : \A j \in S : j <= k
  BY <1>4
<1> QED BY <1>5 DEF LastOf

\* The segments are sets of row numbers.
LEMMA SegmentFacts ==
    ASSUME IInv
    PROVE  /\ ActiveEpoch(epochs) = IF epochs = <<>> THEN 0 ELSE 1
           /\ Historical \in SUBSET (Nat \ {0}) /\ Historical \subseteq 1..Len(events)
           /\ Current \in SUBSET (Nat \ {0}) /\ Current \subseteq 1..Len(events)
           /\ Verification.first # 0 => Verification.first \in 1..Len(events)
<1>1. ActiveEpoch(epochs) = IF epochs = <<>> THEN 0 ELSE 1
  BY ActiveEpochFacts DEF IInv, Tables, SingleEpoch
<1>2. DOMAIN events = 1..Len(events) /\ Len(events) \in Nat
  BY DEF IInv, Tables
<1>3. /\ Historical \in SUBSET (Nat \ {0}) /\ Historical \subseteq 1..Len(events)
      /\ Current \in SUBSET (Nat \ {0}) /\ Current \subseteq 1..Len(events)
  BY <1>2 DEF Historical, Current, RowsOf
<1>4. Verification.first = IF FirstInvalid(Current) # 0 THEN FirstInvalid(Current)
                           ELSE FirstInvalid(Historical)
  BY DEF Verification
<1>5. Verification.first # 0 => Verification.first \in Current \cup Historical
  BY <1>3, <1>4, FirstInvalidFacts
<1>6. QED
  BY <1>1, <1>3, <1>5

-----------------------------------------------------------------------------
(* Chains: what equal hashes say of two tables                              *)

\* An event hash names its content, and is no start of a segment.
LEMMA HashFacts ==
    ASSUME NEW i, NEW p, NEW q, NEW j, NEW r, NEW s
    PROVE  /\ EventHash(i, p, q) = EventHash(j, r, s) => i = j /\ p = r /\ q = s
           /\ EventHash(i, p, q) # BadHash
           /\ EventHash(i, p, q) # NoHash
           /\ EventHash(i, p, q) # CertificateHash(r)
           /\ EventHash(i, p, q).id = i
<1>1. /\ EventHash(i, p, q) = EventHash(j, r, s) => i = j /\ p = r /\ q = s
      /\ EventHash(i, p, q).id = i
  BY DEF EventHash
<1>2. "id" \in DOMAIN EventHash(i, p, q)
  BY DEF EventHash
<1>3. "id" \notin DOMAIN BadHash /\ "id" \notin DOMAIN NoHash /\ "id" \notin DOMAIN CertificateHash(r)
  BY DEF BadHash, NoHash, CertificateHash
<1> QED BY <1>1, <1>2, <1>3

\* Rows of two tables with the same valid hash are the same row at the same index.
LEMMA SameHashSameRow ==
    ASSUME NEW A, NEW B, NEW column, NEW start, ChainOk(A, column, start), ChainOk(B, column, start),
           NEW i \in RowsOf(A, column), NEW k \in RowsOf(B, column), A[i].hash = B[k].hash
    PROVE  i = k /\ A[i] = B[k]
<1>1. /\ IsRow(A[i]) /\ A[i].hash = EventHash(i, A[i].payload, A[i].prev)
      /\ IsRow(B[k]) /\ B[k].hash = EventHash(k, B[k].payload, B[k].prev)
  BY DEF ChainOk
<1>2. i = k /\ A[i].payload = B[k].payload /\ A[i].prev = B[k].prev
  <2>1. EventHash(i, A[i].payload, A[i].prev) = EventHash(k, B[k].payload, B[k].prev)
    BY <1>1
  <2> QED BY <2>1 DEF EventHash
<1>3. A[i].epoch = column /\ B[k].epoch = column
  BY DEF RowsOf
<1> QED BY <1>1, <1>2, <1>3 DEF IsRow

\* Where two tables have the same row m, and d is the row of the first that m is
\* chained to, the second has d too.
LEMMA LinkBack ==
    ASSUME NEW A, A \in Seq(RangeOf(A)), NEW B, B \in Seq(RangeOf(B)), NEW column, NEW start,
           \A i, p, q : start # EventHash(i, p, q),
           ChainOk(A, column, start), ChainOk(B, column, start),
           NEW d \in RowsOf(A, column), NEW m \in RowsOf(A, column), m \in RowsOf(B, column),
           A[m] = B[m], d < m,
           \A j \in RowsOf(A, column) : ~(d < j /\ j < m)
    PROVE  d \in RowsOf(B, column) /\ A[d] = B[d]
<1> DEFINE before == {j \in 1..(m - 1) : A[j].epoch = column}
           behind == {j \in 1..(m - 1) : B[j].epoch = column}
<1>1. /\ Len(A) \in Nat /\ DOMAIN A = 1..Len(A) /\ Len(B) \in Nat /\ DOMAIN B = 1..Len(B)
      /\ d \in 1..Len(A) /\ m \in 1..Len(A) /\ m \in 1..Len(B)
      /\ A[d].epoch = column
  BY DEF RowsOf
<1>2. before \in SUBSET (1..d) /\ d \in before /\ d \in Nat
  BY <1>1 DEF RowsOf
<1>3. LastOf(before) = d /\ before # {}
  BY <1>2, LastOfIs
<1>4. A[m].prev = A[d].hash /\ A[d].hash = EventHash(d, A[d].payload, A[d].prev)
  BY <1>3 DEF ChainOk, Expected
<1>5. B[m].prev = IF behind # {} THEN B[LastOf(behind)].hash ELSE start
  BY DEF ChainOk, Expected
<1>6. behind # {}
  BY <1>4, <1>5
<1>7. behind \in SUBSET (1..(m - 1)) /\ m - 1 \in Nat
  BY <1>1
<1>8. LastOf(behind) \in behind
  BY <1>6, <1>7, LastOfFacts
<1>9. LastOf(behind) \in RowsOf(B, column)
  BY <1>1, <1>8 DEF RowsOf
<1>10. A[d].hash = B[LastOf(behind)].hash
  BY <1>4, <1>5, <1>6
<1> QED BY <1>9, <1>10, SameHashSameRow

\* Two chains from the same start with the same hash in them are the same up to it.
LEMMA SameChain ==
    ASSUME NEW A, A \in Seq(RangeOf(A)), NEW B, B \in Seq(RangeOf(B)), NEW column, NEW start,
           \A i, p, q : start # EventHash(i, p, q),
           ChainOk(A, column, start), ChainOk(B, column, start),
           NEW n \in RowsOf(A, column), NEW k \in RowsOf(B, column), A[n].hash = B[k].hash
    PROVE  UpTo(A, column, n) = UpTo(B, column, k)
<1> DEFINE Same(j) == /\ j \in RowsOf(A, column) <=> j \in RowsOf(B, column)
                      /\ j \in RowsOf(A, column) => A[j] = B[j]
<1>1. n = k /\ A[n] = B[n]
  BY SameHashSameRow
<1>2. /\ Len(A) \in Nat /\ DOMAIN A = 1..Len(A) /\ Len(B) \in Nat /\ DOMAIN B = 1..Len(B)
      /\ n \in 1..Len(A) /\ n \in 1..Len(B)
  BY <1>1 DEF RowsOf
<1>3. \A j \in 1..n : Same(j)
  <2> DEFINE D == {j \in 1..n : ~Same(j)}
  <2> SUFFICES ASSUME D # {} PROVE FALSE
    OBVIOUS
  <2>0. n \in Nat /\ D \in SUBSET (1..n)
    BY <1>2
  <2>1. PICK d \in D : \A j \in D : j <= d
    <3> HIDE DEF D
    <3> QED BY <2>0, LastOfFacts
  <2>2. d \in 1..n /\ ~Same(d) /\ \A j \in 1..n : d < j => Same(j)
    BY <2>0, <2>1
  <2>3. d < n
    BY <1>1, <2>0, <2>2
  <2> DEFINE N == {j \in 1..n : d < j /\ j \in RowsOf(A, column)}
  <2>4. N \in SUBSET Nat /\ n \in N
    BY <2>0, <2>3
  <2>5. PICK m \in N : \A j \in N : m <= j
    <3> HIDE DEF N
    <3> QED BY <2>4, LeastExists
  <2>6. /\ m \in 1..n /\ d < m /\ m \in RowsOf(A, column)
        /\ \A j \in 1..n : d < j /\ j \in RowsOf(A, column) => m <= j
    BY <2>5
  <2>7. m \in RowsOf(B, column) /\ A[m] = B[m]
    BY <2>2, <2>6
  <2> HIDE DEF D, N
  <2>8. \A j \in RowsOf(A, column) : ~(d < j /\ j < m)
    <3> SUFFICES ASSUME NEW j \in RowsOf(A, column), d < j, j < m PROVE FALSE
      OBVIOUS
    <3>1. j \in 1..n
      BY <1>2, <2>0, <2>6 DEF RowsOf
    <3>2. m <= j /\ m \in Nat /\ j \in Nat
      BY <2>6, <3>1
    <3> QED BY <3>2
  <2>9. \A j \in RowsOf(B, column) : ~(d < j /\ j < m)
    <3> SUFFICES ASSUME NEW j \in RowsOf(B, column), d < j, j < m PROVE FALSE
      OBVIOUS
    <3>1. j \in 1..n
      BY <1>2, <2>0, <2>6 DEF RowsOf
    <3>2. j \in RowsOf(A, column)
      BY <2>2, <3>1
    <3> QED BY <2>8, <3>2
  <2>10. CASE d \in RowsOf(A, column)
    <3>1. d \in RowsOf(B, column) /\ A[d] = B[d]
      BY <2>6, <2>7, <2>8, <2>10, LinkBack
    <3> QED BY <2>2, <2>10, <3>1
  <2>11. CASE d \in RowsOf(B, column)
    <3>1. d \in RowsOf(A, column) /\ B[d] = A[d]
      BY <2>6, <2>7, <2>9, <2>11, LinkBack
    <3> QED BY <2>2, <2>11, <3>1
  <2> QED BY <2>2, <2>10, <2>11
<1>4. \A j : j \in RowsOf(A, column) /\ j <= n <=> j \in RowsOf(B, column) /\ j <= n
  <2> SUFFICES ASSUME NEW j, j <= n, j \in RowsOf(A, column) \/ j \in RowsOf(B, column)
               PROVE  j \in RowsOf(A, column) <=> j \in RowsOf(B, column)
    OBVIOUS
  <2>1. j \in 1..n
    BY <1>2 DEF RowsOf
  <2> QED BY <1>3, <2>1
<1>5. \A j \in RowsOf(A, column) : j <= n => A[j] = B[j]
  <2> SUFFICES ASSUME NEW j \in RowsOf(A, column), j <= n PROVE A[j] = B[j]
    OBVIOUS
  <2>1. j \in 1..n
    BY <1>2 DEF RowsOf
  <2> QED BY <1>3, <2>1
<1> HIDE DEF Same
<1> QED BY <1>1, <1>4, <1>5 DEF UpTo

-----------------------------------------------------------------------------
(* Steps that append a row: into the historical segment, into the epoch, or  *)
(* as the first row of a new epoch                                           *)

\* What append_ledger_tx inserts when the epochs are eps: the table's epochs, or
\* the one a repair has just added.
LEMMA NewRowFacts ==
    ASSUME IInv, NEW p \in Payloads, NEW eps,
           eps \in Seq(RangeOf(eps)), Len(eps) <= 1,
           \A e \in DOMAIN eps : eps[e].created \in Times,
           eps = epochs \/ epochs = <<>>
    PROVE  LET row == NewRow(events, eps, p)
               n   == Len(events)
           IN  /\ IsRow(row)
               /\ row.payload = p
               /\ row.hash = EventHash(n + 1, p, row.prev)
               /\ row.epoch = IF eps = <<>> THEN NULL ELSE 1
               /\ eps # <<>> /\ epochs = <<>> => row.prev = eps[1].anchor
               /\ row.epoch \notin disturbed =>
                    row.prev = IF n > 0 /\ wrote[n].epoch = row.epoch
                               THEN wrote[n].hash
                               ELSE IF eps = <<>> THEN NoHash ELSE eps[1].anchor
<1> DEFINE row == NewRow(events, eps, p)
           n == Len(events)
           e == ActiveEpoch(eps)
           mine == RowsOf(events, e)
<1>1. e = IF eps = <<>> THEN 0 ELSE 1
  BY ActiveEpochFacts
<1>2. n \in Nat /\ DOMAIN events = 1..n
  BY DEF IInv, Tables
<1>3. /\ row = [payload |-> p, prev |-> PrevHash(events, eps),
                hash |-> EventHash(n + 1, p, PrevHash(events, eps)),
                epoch |-> EpochColumn(e)]
      /\ EpochColumn(e) = IF eps = <<>> THEN NULL ELSE 1
  BY <1>1 DEF NewRow, EpochColumn
<1>4. \A i \in 1..n : /\ wrote[i].epoch = NULL \/ (wrote[i].epoch = 1 /\ epochs # <<>>)
                      /\ events[i].epoch \in Known
                      /\ wrote[i].epoch \notin disturbed => events[i] = wrote[i]
  BY <1>2 DEF IInv, Rows, Contiguous
<1>5. CASE eps = <<>>
  <2>1. \A i \in 1..n : wrote[i].epoch = NULL
    BY <1>4, <1>5
  <2>2. row.prev = TableHead(events) /\ row.epoch = NULL
    BY <1>1, <1>3, <1>5 DEF PrevHash
  <2>3. ASSUME NULL \notin disturbed
        PROVE  TableHead(events) = IF n > 0 THEN wrote[n].hash ELSE NoHash
    <3>1. \A i \in 1..n : events[i] = wrote[i] /\ events[i].epoch # Gone
      BY <1>4, <2>1, <2>3, SentinelAssumption
    <3>2. PresentRows(events) = 1..n
      BY <1>2, <3>1 DEF PresentRows
    <3>3. CASE n = 0
      <4>1. PresentRows(events) = {}
        BY <3>2, <3>3
      <4> QED BY <3>3, <4>1 DEF TableHead
    <3>4. CASE n > 0
      <4>1. n \in 1..n
        BY <1>2, <3>4
      <4>2. LastOf(PresentRows(events)) = n /\ PresentRows(events) # {}
        BY <1>2, <3>2, <4>1, LastOfIs
      <4> QED BY <3>1, <3>4, <4>1, <4>2 DEF TableHead
    <3> QED BY <1>2, <3>3, <3>4
  <2>4. n > 0 => wrote[n].epoch = NULL
    BY <1>2, <2>1
  <2>5. QED
    BY <1>3, <1>5, <2>2, <2>3, <2>4 DEF IsRow
<1>6. CASE eps # <<>> /\ epochs = <<>>
  <2>1. \A i \in 1..n : events[i].epoch # 1 /\ wrote[i].epoch # 1
    BY <1>4, <1>6, SentinelAssumption DEF Known
  <2>2. mine = {}
    BY <1>1, <1>2, <1>6, <2>1 DEF RowsOf
  <2>3. row.prev = eps[1].anchor
    BY <1>1, <1>3, <1>6, <2>2 DEF PrevHash
  <2>4. n > 0 => wrote[n].epoch # row.epoch
    BY <1>2, <1>3, <1>6, <2>1
  <2>5. QED
    BY <1>3, <1>6, <2>3, <2>4 DEF IsRow
<1>7. CASE eps # <<>> /\ epochs # <<>>
  <2>1. n > 0 /\ wrote[n].epoch = 1
    BY <1>7 DEF IInv, SingleEpoch
  <2>2. ASSUME 1 \notin disturbed PROVE row.prev = wrote[n].hash
    <3>1. n \in 1..n /\ events[n] = wrote[n]
      BY <1>2, <1>4, <2>1, <2>2
    <3>2. n \in mine /\ mine \in SUBSET (1..n)
      BY <1>1, <1>2, <1>7, <2>1, <3>1 DEF RowsOf
    <3>3. LastOf(mine) = n
      BY <1>2, <3>2, LastOfIs
    <3>4. row.prev = events[n].hash
      BY <1>1, <1>3, <1>7, <3>2, <3>3 DEF PrevHash
    <3> QED BY <3>1, <3>4
  <2>3. QED
    BY <1>3, <1>7, <2>1, <2>2 DEF IsRow
<1>8. QED
  BY <1>5, <1>6, <1>7

\* Such a row keeps the table parts of the invariant.
LEMMA AppendStep ==
    ASSUME IInv, NEW p \in Payloads, NEW eps,
           eps \in Seq(RangeOf(eps)), Len(eps) <= 1,
           \A e \in DOMAIN eps : eps[e].created \in Times,
           eps = epochs \/ epochs = <<>>,
           epochs' = eps,
           events' = Append(events, NewRow(events, eps, p)),
           wrote' = Append(wrote, NewRow(events, eps, p)),
           UNCHANGED disturbed
    PROVE  /\ events' \in Seq(RangeOf(events')) /\ wrote' \in Seq(RangeOf(wrote'))
           /\ Len(events') = Len(events) + 1 /\ Len(wrote') = Len(events')
           /\ Len(events) \in Nat
           /\ epochs' # <<>> => wrote'[Len(events')].epoch = 1
           /\ Contiguous' /\ Rows' /\ Chained'
<1> DEFINE row == NewRow(events, eps, p)
           n == Len(events)
<1>1. /\ events' \in Seq(RangeOf(events')) /\ wrote' \in Seq(RangeOf(wrote'))
      /\ n \in Nat /\ Len(events') = n + 1 /\ Len(wrote') = n + 1
      /\ \A i \in 1..n : events'[i] = events[i] /\ wrote'[i] = wrote[i]
      /\ events'[n + 1] = row /\ wrote'[n + 1] = row
  BY AppendFacts DEF IInv, Tables
<1>2. /\ IsRow(row)
      /\ row.payload = p
      /\ row.hash = EventHash(n + 1, p, row.prev)
      /\ row.epoch = IF eps = <<>> THEN NULL ELSE 1
      /\ row.epoch \notin disturbed =>
           row.prev = IF n > 0 /\ wrote[n].epoch = row.epoch THEN wrote[n].hash
                      ELSE IF eps = <<>> THEN NoHash ELSE eps[1].anchor
  BY NewRowFacts
<1> HIDE DEF row, n
<1>3. \A i \in 1..Len(events') : i \in 1..n \/ i = n + 1
  BY <1>1
<1>4. Contiguous /\ Rows /\ Chained
  BY DEF IInv
<1>5. n = Len(events)
  BY DEF n
<1>k. Known \subseteq Known' /\ (eps # <<>> => 1 \in DOMAIN eps)
  BY EmptySeq DEF Known
<1>6. Contiguous'
  <2>1. \A i \in 1..n : /\ wrote'[i].epoch = NULL \/ (wrote'[i].epoch = 1 /\ epochs' # <<>>)
                        /\ \A j \in 1..i : wrote'[j].epoch = 1 => wrote'[i].epoch = 1
    <3> TAKE i \in 1..n
    <3>1. wrote'[i] = wrote[i] /\ \A j \in 1..i : wrote'[j] = wrote[j]
      BY <1>1
    <3>2. epochs # <<>> => epochs' # <<>>
      OBVIOUS
    <3>3. QED
      BY <1>4, <1>5, <3>1, <3>2 DEF Contiguous
  <2>2. /\ row.epoch = NULL \/ (row.epoch = 1 /\ epochs' # <<>>)
        /\ \A j \in 1..(n + 1) : wrote'[j].epoch = 1 => row.epoch = 1
    <3>1. \A j \in 1..n : wrote'[j].epoch = 1 => epochs # <<>>
      BY <1>1, <1>4, <1>5, SentinelAssumption DEF Contiguous
    <3>2. epochs # <<>> => row.epoch = 1
      BY <1>2
    <3>3. QED
      BY <1>1, <1>2, <3>1, <3>2
  <2>3. QED
    BY <1>1, <1>3, <2>1, <2>2 DEF Contiguous
<1>7. Rows'
  <2> SUFFICES ASSUME NEW i \in 1..Len(events')
               PROVE  /\ IsRow(events'[i]) /\ IsRow(wrote'[i])
                      /\ wrote'[i].payload \in Payloads
                      /\ events'[i].payload \in Payloads \cup {BadJson}
                      /\ events'[i].epoch \in Known'
                      /\ wrote'[i].hash = EventHash(i, wrote'[i].payload, wrote'[i].prev)
                      /\ HashOf(i, events'[i].hash)
                      /\ \/ events'[i] = wrote'[i]
                         \/ {wrote'[i].epoch, events'[i].epoch} \subseteq disturbed'
    BY DEF Rows
  <2>1. CASE i \in 1..n
    BY <1>1, <1>4, <1>5, <1>k, <2>1 DEF Rows
  <2>2. CASE i = n + 1
    <3>1. HashOf(i, row.hash)
      BY <1>2, <2>2, HashFacts DEF HashOf
    <3>2. row.epoch \in Known'
      BY <1>2, <1>k DEF Known
    <3> QED BY <1>1, <1>2, <2>2, <3>1, <3>2
  <2> QED BY <1>3, <2>1, <2>2
<1>8. Chained'
  <2> SUFFICES ASSUME NEW i \in 1..Len(events'), wrote'[i].epoch \notin disturbed
               PROVE  wrote'[i].prev = IF i > 1 /\ wrote'[i - 1].epoch = wrote'[i].epoch
                                       THEN wrote'[i - 1].hash
                                       ELSE IF wrote'[i].epoch = NULL THEN NoHash
                                       ELSE epochs'[1].anchor
    BY DEF Chained
  <2>1. CASE i \in 1..n
    <3>1. wrote'[i] = wrote[i] /\ (i > 1 => wrote'[i - 1] = wrote[i - 1])
      BY <1>1, <2>1
    <3>2. wrote[i].epoch # NULL => epochs' = epochs
      BY <1>4, <1>5, <2>1 DEF Contiguous
    <3>3. QED
      BY <1>4, <1>5, <2>1, <3>1, <3>2 DEF Chained
  <2>2. CASE i = n + 1
    <3>1. wrote'[i] = row /\ (i > 1 => wrote'[i - 1] = wrote[n]) /\ (i > 1 <=> n > 0)
      BY <1>1, <2>2
    <3>2. row.epoch = NULL <=> eps = <<>>
      BY <1>2, SentinelAssumption
    <3>3. QED
      BY <1>2, <3>1, <3>2
  <2>3. QED
    BY <1>3, <2>1, <2>2
<1>9. QED
  BY <1>1, <1>2, <1>5, <1>6, <1>7, <1>8

-----------------------------------------------------------------------------
(* Steps that edit a row out of band *)

\* What an edit puts into a row is a row, with a hash of that row.
LEMMA EditFacts ==
    ASSUME IInv, NEW k \in DOMAIN events, Edit(k)
    PROVE  \E row : /\ EditRow(k, row) /\ IsRow(row)
                    /\ row.payload \in Payloads \cup {BadJson}
                    /\ row.epoch \in Known /\ HashOf(k, row.hash)
<1> DEFINE old == events[k]
<1>1. /\ IsRow(old) /\ old.payload \in Payloads \cup {BadJson}
      /\ old.epoch \in Known /\ HashOf(k, old.hash)
  BY DEF IInv, Tables, Rows
<1>2. ASSUME NEW p \in Payloads \cup {BadJson}, RewritePayload(k, p) PROVE
        LET row == [old EXCEPT !.payload = p]
        IN  /\ EditRow(k, row) /\ IsRow(row)
            /\ row.payload \in Payloads \cup {BadJson}
            /\ row.epoch \in Known /\ HashOf(k, row.hash)
  BY <1>1, <1>2 DEF RewritePayload, IsRow
<1>3. ASSUME NEW p \in Payloads, RewriteRow(k, p) PROVE
        LET row == [old EXCEPT !.payload = p, !.prev = ExpectedPrev(k),
                               !.hash = EventHash(k, p, ExpectedPrev(k))]
        IN  /\ EditRow(k, row) /\ IsRow(row)
            /\ row.payload \in Payloads \cup {BadJson}
            /\ row.epoch \in Known /\ HashOf(k, row.hash)
  <2>1. HashOf(k, EventHash(k, p, ExpectedPrev(k)))
    BY HashFacts DEF HashOf
  <2>2. PICK q, h : q = ExpectedPrev(k) /\ h = EventHash(k, p, ExpectedPrev(k))
    OBVIOUS
  <2>3. EditRow(k, [old EXCEPT !.payload = p, !.prev = q, !.hash = h])
    BY <1>3, <2>2 DEF RewriteRow
  <2>4. PICK row : row = [old EXCEPT !.payload = p, !.prev = q, !.hash = h]
    OBVIOUS
  <2>5. /\ IsRow(row) /\ row.payload = p /\ row.hash = h /\ row.epoch = old.epoch
    BY <1>1, <2>4 DEF IsRow
  <2>6. EditRow(k, row) /\ HashOf(k, row.hash)
    BY <2>1, <2>2, <2>3, <2>4, <2>5
  <2> QED BY <1>1, <2>2, <2>4, <2>5, <2>6
<1>4. ASSUME NEW hash, HashOf(k, hash), ReplaceHash(k, hash) PROVE
        LET row == [old EXCEPT !.hash = hash]
        IN  /\ EditRow(k, row) /\ IsRow(row)
            /\ row.payload \in Payloads \cup {BadJson}
            /\ row.epoch \in Known /\ HashOf(k, row.hash)
  BY <1>1, <1>4 DEF ReplaceHash, IsRow
<1>5. ASSUME NEW column \in Known, EditRow(k, [old EXCEPT !.epoch = column]) PROVE
        LET row == [old EXCEPT !.epoch = column]
        IN  /\ EditRow(k, row) /\ IsRow(row)
            /\ row.payload \in Payloads \cup {BadJson}
            /\ row.epoch \in Known /\ HashOf(k, row.hash)
  BY <1>1, <1>5 DEF IsRow
<1>6. HashOf(k, BadHash) /\ \A p : HashOf(k, EventHash(k, p, events[k].prev))
  BY HashFacts DEF HashOf
<1>7. CASE (\E p \in Payloads \cup {BadJson} : RewritePayload(k, p))
           \/ (\E p \in Payloads : RewriteRow(k, p))
  BY <1>2, <1>3, <1>7
<1>8. CASE ReplaceHash(k, BadHash)
           \/ (\E p \in Payloads : ReplaceHash(k, EventHash(k, p, events[k].prev)))
  BY <1>4, <1>6, <1>8
<1>9. CASE (\E column \in Columns : MoveRow(k, column)) \/ LoseRow(k)
  BY <1>5, <1>9 DEF MoveRow, LoseRow, Known, Columns
<1> QED BY <1>7, <1>8, <1>9 DEF Edit

\* An edit keeps the invariant.
LEMMA EditInv ==
    ASSUME IInv, NEW k \in DOMAIN events, Edit(k)
    PROVE  IInv'
<1> DEFINE n == Len(events)
<1>0. PICK row : /\ EditRow(k, row) /\ IsRow(row)
                 /\ row.payload \in Payloads \cup {BadJson}
                 /\ row.epoch \in Known /\ HashOf(k, row.hash)
  BY EditFacts
<1> DEFINE T == RangeOf(events) \cup {row}
<1>u. /\ events' = [events EXCEPT ![k] = row]
      /\ disturbed' = disturbed \cup {events[k].epoch, row.epoch}
      /\ UNCHANGED <<wrote, noted, epochs, certs, mutations, main, cache, conn>>
  BY <1>0 DEF EditRow
<1>1. events \in Seq(T) /\ row \in T /\ k \in 1..n
  BY DEF IInv, Tables
<1>2. /\ events' \in Seq(T) /\ Len(events') = n
      /\ \A i \in 1..n : events'[i] = IF i = k THEN row ELSE events[i]
  <2> HIDE DEF T
  <2> QED
    BY <1>1, <1>u, ExceptSeq
<1>3. events' \in Seq(RangeOf(events')) /\ n \in Nat
  <2>1. n \in Nat
    BY <1>1
  <2> HIDE DEF T, n
  <2>2. QED
    BY <1>2, <2>1, RangeSeq
<1>4. Tables'
  BY <1>2, <1>3, <1>u DEF IInv, Tables
<1>5. SingleEpoch'
  BY <1>2, <1>u DEF IInv, SingleEpoch
<1>6. Handlers'
  BY <1>2, <1>u DEF IInv, Handlers
<1>7. Contiguous' /\ Chained'
  BY <1>2, <1>u DEF IInv, Contiguous, Chained
<1>8. Rows'
  <2> SUFFICES ASSUME NEW i \in 1..n
               PROVE  /\ IsRow(events'[i]) /\ IsRow(wrote[i])
                      /\ wrote[i].payload \in Payloads
                      /\ events'[i].payload \in Payloads \cup {BadJson}
                      /\ events'[i].epoch \in Known
                      /\ wrote[i].hash = EventHash(i, wrote[i].payload, wrote[i].prev)
                      /\ HashOf(i, events'[i].hash)
                      /\ \/ events'[i] = wrote[i]
                         \/ {wrote[i].epoch, events'[i].epoch} \subseteq disturbed'
    BY <1>2, <1>u DEF Rows, Known
  <2>0. /\ IsRow(events[i]) /\ IsRow(wrote[i])
        /\ wrote[i].payload \in Payloads
        /\ events[i].payload \in Payloads \cup {BadJson}
        /\ events[i].epoch \in Known
        /\ wrote[i].hash = EventHash(i, wrote[i].payload, wrote[i].prev)
        /\ HashOf(i, events[i].hash)
        /\ events[i] = wrote[i] \/ {wrote[i].epoch, events[i].epoch} \subseteq disturbed
    BY DEF IInv, Rows
  <2>1. CASE i = k
    BY <1>0, <1>2, <1>u, <2>0, <2>1
  <2>2. CASE i # k
    BY <1>2, <1>u, <2>0, <2>2
  <2>3. QED
    BY <2>1, <2>2
<1>9. Noted'
  <2>1. events[k].epoch \in Known /\ Known' = Known
    BY <1>1, <1>u DEF IInv, Rows, Known
  <2>2. disturbed' \subseteq Known
    BY <1>0, <1>u, <2>1 DEF IInv, Noted
  <2> QED BY <1>u, <2>1, <2>2 DEF IInv, Noted
<1> QED BY <1>4, <1>5, <1>6, <1>7, <1>8, <1>9 DEF IInv

-----------------------------------------------------------------------------
(* What a pristine verification says                                        *)

\* A segment that the verifier reads and finds pristine is a chain.
LEMMA PristineChains ==
    ASSUME IInv, Verification.pristine
    PROVE  /\ ChainOk(events, NULL, NoHash)
           /\ \A e \in DOMAIN epochs : ChainOk(events, e, epochs[e].anchor)
<1>1. Verification.first = 0 /\ Verification.modified = {}
  BY DEF Verification
<1>2. FirstInvalid(Current) = 0 /\ FirstInvalid(Historical) = 0
  BY <1>1 DEF Verification
<1>3. SelfModified(Current) = {} /\ SelfModified(Historical) = {}
  BY <1>1 DEF Verification
<1>4. \A i \in Current : RowStatus(i) = "valid"
  BY <1>2, <1>3, SegmentFacts, FirstInvalidFacts DEF SelfModified
<1>5. \A i \in Historical : RowStatus(i) = "valid"
  BY <1>2, <1>3, SegmentFacts, FirstInvalidFacts DEF SelfModified
<1>6. DOMAIN events = 1..Len(events) /\ Len(events) \in Nat
  BY DEF IInv, Tables
<1>7. ASSUME NEW i \in DOMAIN events, RowStatus(i) = "valid"
      PROVE  /\ IsRow(events[i])
             /\ events[i].hash = EventHash(i, events[i].payload, events[i].prev)
             /\ events[i].prev = ExpectedPrev(i)
  <2>1. IsRow(events[i])
    BY <1>6 DEF IInv, Rows
  <2> QED BY <1>7, <2>1 DEF RowStatus
<1>8. ChainOk(events, NULL, NoHash)
  <2> SUFFICES ASSUME NEW i \in RowsOf(events, NULL)
               PROVE  /\ IsRow(events[i])
                      /\ events[i].hash = EventHash(i, events[i].payload, events[i].prev)
                      /\ events[i].prev = Expected(events, NULL, NoHash, i)
    BY DEF ChainOk
  <2>1. i \in DOMAIN events /\ events[i].epoch = NULL /\ RowStatus(i) = "valid"
    BY <1>5 DEF Historical, RowsOf
  <2>2. ExpectedPrev(i) = Expected(events, NULL, NoHash, i)
    BY <2>1 DEF ExpectedPrev, Expected
  <2> QED BY <1>7, <2>1, <2>2
<1>9. ASSUME NEW e \in DOMAIN epochs PROVE ChainOk(events, e, epochs[e].anchor)
  <2>0. e = 1 /\ epochs # <<>>
    BY EmptySeq DEF IInv, Tables, SingleEpoch
  <2>c. Current = RowsOf(events, 1)
    BY <2>0, SegmentFacts DEF Current
  <2> SUFFICES ASSUME NEW i \in RowsOf(events, 1)
               PROVE  /\ IsRow(events[i])
                      /\ events[i].hash = EventHash(i, events[i].payload, events[i].prev)
                      /\ events[i].prev = Expected(events, 1, epochs[1].anchor, i)
    BY <2>0 DEF ChainOk
  <2>1. i \in DOMAIN events /\ events[i].epoch = 1 /\ RowStatus(i) = "valid"
    BY <1>4, <2>c DEF RowsOf
  <2>2. ExpectedPrev(i) = Expected(events, 1, epochs[1].anchor, i)
    BY <2>1, SentinelAssumption DEF ExpectedPrev, Expected
  <2> QED BY <1>7, <2>1, <2>2
<1> QED BY <1>8, <1>9

-----------------------------------------------------------------------------
(* The invariant is inductive *)

\* The invariant holds initially.
LEMMA InitIInv == Init => IInv
<1> SUFFICES ASSUME Init PROVE IInv
  OBVIOUS
<1>1. <<>> \in Seq({}) /\ Len(<<>>) = 0
  BY EmptySeq
<1>2. <<>> \in Seq(RangeOf(<<>>))
  BY <1>1, RangeSeq
<1>3. Tables
  BY <1>2 DEF Init, Tables
<1>4. SingleEpoch /\ Handlers
  BY <1>1 DEF Init, SingleEpoch, Handlers, Idle
<1>5. Contiguous /\ Rows /\ Chained
  BY <1>1 DEF Init, Contiguous, Rows, Chained
<1>6. Noted
  BY <1>1 DEF Init, Noted, ChainOk, RowsOf
<1>7. QED
  BY <1>3, <1>4, <1>5, <1>6 DEF IInv

\* A step that leaves the tables of rows, epochs and certificates alone.
LEMMA TablesUnchanged ==
    ASSUME IInv, UNCHANGED <<events, wrote, outside, epochs, certs>>,
           mutations' \in Seq(RangeOf(mutations')),
           main'.at = "repair" => epochs = <<>>,
           Handlers'
    PROVE  IInv'
<1>0. UNCHANGED <<noted, disturbed>>
  BY DEF outside
<1>1. Tables'
  BY <1>0 DEF IInv, Tables
<1>2. SingleEpoch'
  BY DEF IInv, SingleEpoch
<1>3. Contiguous' /\ Rows' /\ Chained'
  BY <1>0 DEF IInv, Contiguous, Rows, Chained, Known
<1>4. Noted'
  BY <1>0 DEF IInv, Noted, Known
<1>5. QED
  BY <1>1, <1>2, <1>3, <1>4 DEF IInv

\* ledger.verify notes a table only when it is pristine.
LEMMA VerifyInv ==
    ASSUME IInv, VerifyLedger
    PROVE  IInv'
<1>1. /\ noted' = IF Verification.pristine THEN events ELSE noted
      /\ cache' = "fresh"
      /\ UNCHANGED <<events, wrote, disturbed, edits, epochs, certs, mutations, main, conn>>
  BY DEF VerifyLedger
<1>2. Tables'
  BY <1>1 DEF IInv, Tables
<1>3. SingleEpoch' /\ Handlers'
  BY <1>1 DEF IInv, SingleEpoch, Handlers
<1>4. Contiguous' /\ Rows' /\ Chained'
  BY <1>1 DEF IInv, Contiguous, Rows, Chained, Known
<1>5. Noted'
  <2>1. CASE Verification.pristine
    <3>1. noted' = events /\ Known' = Known /\ epochs' = epochs /\ disturbed' = disturbed
      BY <1>1, <2>1 DEF Known
    <3>2. \A i \in DOMAIN events : events[i].epoch \in Known
      BY DEF IInv, Tables, Rows
    <3>3. disturbed \subseteq Known
      BY DEF IInv, Noted
    <3> QED BY <2>1, <3>1, <3>2, <3>3, PristineChains DEF Noted
  <2>2. CASE ~Verification.pristine
    BY <1>1, <2>2 DEF IInv, Noted, Known
  <2> QED BY <2>1, <2>2
<1> QED BY <1>2, <1>3, <1>4, <1>5 DEF IInv

\* Recording a mutation of an existing row.
LEMMA RecordStep ==
    ASSUME IInv, NEW i \in DOMAIN events, RecordMutationTx(i)
    PROVE  IInv'
<1>1. PICK rec : mutations' = Append(mutations, rec) /\ rec.target = i
  BY DEF RecordMutationTx
<1>2. i \in 1..Len(events)
  BY DEF IInv, Tables
<1>3. /\ mutations' \in Seq(RangeOf(mutations'))
      /\ Len(mutations) \in Nat /\ Len(mutations') = Len(mutations) + 1
      /\ \A m \in 1..Len(mutations) : mutations'[m] = mutations[m]
      /\ mutations'[Len(mutations) + 1] = rec
  BY <1>1, AppendFacts DEF IInv, Tables
<1>4. \A m \in 1..Len(mutations') : mutations'[m].target \in 1..Len(events)
  <2> TAKE m \in 1..Len(mutations')
  <2>1. CASE m \in 1..Len(mutations)
    BY <1>3, <2>1 DEF IInv, Handlers
  <2>2. CASE m = Len(mutations) + 1
    BY <1>1, <1>2, <1>3, <2>2
  <2>3. QED
    BY <1>3, <2>1, <2>2
<1>5. UNCHANGED <<events, wrote, outside, epochs, certs, cache>> /\ main' = Idle
      /\ conn' \in {"wedged", conn}
  BY DEF RecordMutationTx
<1>6. Handlers'
  BY <1>4, <1>5 DEF IInv, Handlers, Idle
<1>7. QED
  BY <1>3, <1>5, <1>6, TablesUnchanged DEF Idle

\* A step that appends one row and leaves epochs and certificates alone.
LEMMA AppendInv ==
    ASSUME IInv, NEW p \in Payloads, Append_ledger(p)
    PROVE  IInv'
<1>1. /\ events' = Append(events, NewRow(events, epochs, p))
      /\ wrote' = Append(wrote, NewRow(events, epochs, p))
      /\ UNCHANGED <<noted, disturbed, epochs, certs, mutations, main, cache, conn>>
  BY DEF Append_ledger, outside
<1>2. /\ epochs \in Seq(RangeOf(epochs)) /\ Len(epochs) <= 1
      /\ \A e \in DOMAIN epochs : epochs[e].created \in Times
  BY DEF IInv, Tables, SingleEpoch
<1>3. /\ events' \in Seq(RangeOf(events')) /\ wrote' \in Seq(RangeOf(wrote'))
      /\ Len(events') = Len(events) + 1 /\ Len(wrote') = Len(events')
      /\ Len(events) \in Nat
      /\ epochs' # <<>> => wrote'[Len(events')].epoch = 1
      /\ Contiguous' /\ Rows' /\ Chained'
  BY <1>1, <1>2, AppendStep
<1>4. Tables'
  BY <1>1, <1>3 DEF IInv, Tables
<1>5. SingleEpoch'
  BY <1>1, <1>3 DEF IInv, SingleEpoch
<1>6. Handlers'
  BY <1>1, <1>3 DEF IInv, Handlers
<1>7. Noted'
  BY <1>1 DEF IInv, Noted, Known
<1>8. QED
  BY <1>3, <1>4, <1>5, <1>6, <1>7 DEF IInv

\* The transaction of a repair: it found no epoch, and adds the only one.
LEMMA RepairInv ==
    ASSUME IInv, NEW p \in Payloads, NEW now \in Times, RepairCommit(p, now)
    PROVE  IInv'
<1>1. epochs = <<>> /\ Len(certs) = 0 /\ Len(epochs) = 0
  BY EmptySeq DEF IInv, SingleEpoch, RepairCommit
<1>2. PICK ep, c : /\ ep.created = now
                   /\ \E cert : ep.anchor = CertificateHash(cert)
                   /\ epochs' = Append(epochs, ep)
                   /\ certs' = Append(certs, c) /\ c.epoch = Len(epochs')
                   /\ events' = Append(events, NewRow(events, epochs', p))
                   /\ wrote' = Append(wrote, NewRow(events, epochs', p))
  BY DEF RepairCommit
<1>3. main' = Idle /\ UNCHANGED <<noted, disturbed, mutations, cache, conn>>
  BY DEF RepairCommit, outside
<1>t. epochs \in Seq(RangeOf(epochs)) /\ certs \in Seq(RangeOf(certs))
  BY DEF IInv, Tables
<1>4. /\ epochs' \in Seq(RangeOf(epochs')) /\ Len(epochs') = 1
      /\ DOMAIN epochs' = 1..1 /\ epochs'[1] = ep
  BY <1>1, <1>2, <1>t, AppendToEmpty
<1>5. /\ certs' \in Seq(RangeOf(certs')) /\ Len(certs') = 1
      /\ DOMAIN certs' = 1..1 /\ certs'[1] = c
  BY <1>1, <1>2, <1>t, AppendToEmpty
<1>6. Len(epochs') <= 1 /\ \A e \in DOMAIN epochs' :
         epochs'[e].created \in Times /\ \E cert : epochs'[e].anchor = CertificateHash(cert)
  BY <1>2, <1>4
<1>7. epochs' # <<>>
  BY <1>4, EmptySeq
<1>8. /\ events' \in Seq(RangeOf(events')) /\ wrote' \in Seq(RangeOf(wrote'))
      /\ Len(events') = Len(events) + 1 /\ Len(wrote') = Len(events')
      /\ Len(events) \in Nat
      /\ epochs' # <<>> => wrote'[Len(events')].epoch = 1
      /\ Contiguous' /\ Rows' /\ Chained'
  BY <1>1, <1>2, <1>3, <1>4, <1>6, AppendStep
<1>9. Tables'
  BY <1>3, <1>4, <1>5, <1>8 DEF IInv, Tables
<1>10. SingleEpoch'
  <2>1. \A k \in DOMAIN certs' : certs'[k].epoch = k
    BY <1>2, <1>4, <1>5
  <2>2. main'.at # "repair"
    BY <1>3 DEF Idle
  <2>3. QED
    BY <1>4, <1>5, <1>6, <1>8, <2>1, <2>2 DEF SingleEpoch
<1>11. Handlers'
  BY <1>3, <1>8 DEF IInv, Handlers, Idle
<1>12. Noted'
  <2>1. /\ disturbed \subseteq Known /\ \A i \in DOMAIN noted : noted[i].epoch \in Known
        /\ ChainOk(noted, NULL, NoHash)
    BY DEF IInv, Noted
  <2>2. Known = {NULL, Elsewhere, Gone} /\ Known' = {NULL, Elsewhere, Gone, 1}
    BY <1>1, <1>4 DEF Known
  <2>3. RowsOf(noted, 1) = {}
    BY <2>1, <2>2, SentinelAssumption DEF RowsOf
  <2>4. \A start : ChainOk(noted, 1, start)
    BY <2>3 DEF ChainOk
  <2>5. \A e \in DOMAIN epochs' : ChainOk(noted, e, epochs'[e].anchor)
    BY <1>4, <2>4
  <2> QED BY <1>3, <2>1, <2>2, <2>5 DEF Noted
<1>13. QED
  BY <1>8, <1>9, <1>10, <1>11, <1>12 DEF IInv

\* A repair that passes its checks has seen no epoch: the only epoch there can
\* be has a certificate.
LEMMA UncertifiedMeansNoEpoch ==
    ASSUME IInv, ~Certified
    PROVE  epochs = <<>>
<1> SUFFICES ASSUME epochs # <<>> PROVE FALSE
  OBVIOUS
<1>1. ActiveEpoch(epochs) = 1
  BY SegmentFacts
<1>2. Len(epochs) \in Nat \ {0}
  BY EmptySeq DEF IInv, Tables
<1>3. 1 \in DOMAIN certs
  BY <1>2 DEF IInv, Tables, SingleEpoch
<1>4. certs[1].epoch = 1
  BY <1>3 DEF IInv, SingleEpoch
<1>5. QED
  BY <1>1, <1>3, <1>4 DEF Certified

\* Every step keeps the invariant.
LEMMA NextIInv == IInv /\ [Next]_vars => IInv'
<1> SUFFICES ASSUME IInv, [Next]_vars PROVE IInv'
  OBVIOUS
<1>m. mutations \in Seq(RangeOf(mutations)) /\ Handlers
      /\ (main.at = "repair" => epochs = <<>>)
  BY DEF IInv, Tables, SingleEpoch
<1>1. ASSUME NEW p \in Payloads, Append_ledger(p) PROVE IInv'
  BY <1>1, AppendInv
<1>2. CASE VerifyLedger
  BY <1>2, VerifyInv
<1>3. CASE RepairVerify
  <2>1. epochs = <<>>
    BY <1>3, UncertifiedMeansNoEpoch DEF RepairVerify
  <2>2. QED
    BY <1>m, <1>3, <2>1, TablesUnchanged DEF RepairVerify, Handlers
<1>4. ASSUME NEW p \in Payloads, NEW now \in Times, RepairCommit(p, now) PROVE IInv'
  BY <1>4, RepairInv
<1>5. ASSUME NEW i \in DOMAIN events, RecordMutation(i) PROVE IInv'
  BY <1>5, RecordStep DEF RecordMutation
<1>6. CASE ReconcileVerify
  <2>1. Verification.first \in 1..Len(events)
    BY <1>6, SegmentFacts DEF ReconcileVerify
  <2>2. QED
    BY <1>m, <1>6, <2>1, TablesUnchanged DEF ReconcileVerify, Handlers
<1>7. CASE ReconcileCommit
  <2>1. main.first \in DOMAIN events
    BY <1>7, <1>m DEF IInv, Tables, Handlers, ReconcileCommit
  <2>2. CASE RecordMutationTx(main.first)
    BY <2>1, <2>2, RecordStep
  <2>3. CASE main' = Idle /\ UNCHANGED <<events, wrote, outside, epochs, certs, mutations,
                                         cache, conn>>
    BY <1>m, <2>3, TablesUnchanged DEF Handlers, Idle
  <2>4. QED
    BY <1>7, <2>2, <2>3 DEF ReconcileCommit
<1>8. CASE RefreshTask \/ CacheExpires \/ Restart
  BY <1>m, <1>8, TablesUnchanged DEF RefreshTask, CacheExpires, Restart, Handlers, Idle
<1>9. ASSUME NEW i \in DOMAIN events, Edit(i) PROVE IInv'
  BY <1>9, EditInv
<1>10. CASE UNCHANGED vars
  BY <1>m, <1>10, TablesUnchanged DEF vars, outside, Handlers
<1>11. QED
  BY <1>1, <1>2, <1>3, <1>4, <1>5, <1>6, <1>7, <1>8, <1>9, <1>10 DEF Next

\* The invariant holds in every reachable state.
THEOREM Invariance == Spec => []IInv
BY InitIInv, NextIInv, PTL DEF Spec

-----------------------------------------------------------------------------
(* What it implies *)

\* TypeOK holds in every reachable state of the ledger.
THEOREM TypeCorrect == Spec => []TypeOK
<1>1. IInv => TypeOK
  <2> SUFFICES ASSUME IInv PROVE TypeOK
    OBVIOUS
  <2>1. /\ Len(events) \in Nat /\ DOMAIN events = 1..Len(events)
        /\ DOMAIN wrote = 1..Len(events) /\ DOMAIN mutations = 1..Len(mutations)
    BY DEF IInv, Tables
  <2>2. epochs # <<>> => 1 \in DOMAIN epochs
    BY EmptySeq DEF IInv, Tables
  <2>3. \A i \in DOMAIN events : /\ events[i].payload \in Payloads \cup {BadJson}
                                 /\ events[i].epoch \in Columns \cup {Gone}
                                 /\ wrote[i].payload \in Payloads
                                 /\ wrote[i].epoch \in {NULL} \cup DOMAIN epochs
    BY <2>1, <2>2 DEF IInv, Rows, Contiguous, Known, Columns
  <2>4. \A e \in DOMAIN epochs : epochs[e].created \in Times
    BY DEF IInv, SingleEpoch
  <2>5. \A m \in DOMAIN mutations : mutations[m].target \in DOMAIN events
    BY <2>1 DEF IInv, Handlers
  <2>6. QED
    BY <2>1, <2>3, <2>4, <2>5 DEF TypeOK, IInv, Handlers
<1>2. QED
  BY <1>1, Invariance, PTL

\* The verifier reads every row whose epoch column is as inserted: there is never
\* a second epoch.
LEMMA AllRowsVerified == IInv => EveryRowVerified
<1> SUFFICES ASSUME IInv PROVE EveryRowVerified
  OBVIOUS
<1>1. DOMAIN events = 1..Len(events) /\ Len(events) \in Nat
  BY DEF IInv, Tables
<1>2. Current = IF epochs = <<>> THEN {} ELSE RowsOf(events, 1)
  BY SegmentFacts DEF Current
<1>3. \A i \in DOMAIN events :
        events[i].epoch = wrote[i].epoch => i \in Historical \cup Current
  BY <1>1, <1>2 DEF IInv, Contiguous, Historical, RowsOf
<1>4. QED
  BY <1>3 DEF EveryRowVerified, IInv, SingleEpoch

\* No row escapes the verifier, whatever repairs and appends interleave.
THEOREM NoRowEscapes == Spec => []EveryRowVerified
BY Invariance, AllRowsVerified, PTL

\* A pristine verification vouches for what an earlier pristine one has seen, as far
\* as its hashes are still there: for any number of rows, repairs and recorded
\* mutations, and edits of any column.
THEOREM TamperEvidence == Spec => []TamperEvident
<1>1. IInv => TamperEvident
  <2> SUFFICES ASSUME IInv, Verification.pristine, NEW c \in {NULL} \cup DOMAIN epochs,
                      NEW i \in RowsOf(noted, c), NEW k \in RowsOf(events, c),
                      noted[i].hash = events[k].hash
               PROVE  UpTo(noted, c, i) = UpTo(events, c, k)
    BY DEF TamperEvident
  <2>1. noted \in Seq(RangeOf(noted)) /\ events \in Seq(RangeOf(events))
    BY DEF IInv, Tables
  <2>2. CASE c = NULL
    <3>1. ChainOk(noted, c, NoHash) /\ ChainOk(events, c, NoHash)
      BY <2>2, PristineChains DEF IInv, Noted
    <3>2. \A j, p, q : NoHash # EventHash(j, p, q)
      BY HashFacts
    <3> QED BY <2>1, <3>1, <3>2, SameChain
  <2>3. CASE c \in DOMAIN epochs
    <3>1. ChainOk(noted, c, epochs[c].anchor) /\ ChainOk(events, c, epochs[c].anchor)
      BY <2>3, PristineChains DEF IInv, Noted
    <3>2. PICK cert : epochs[c].anchor = CertificateHash(cert)
      BY <2>3 DEF IInv, SingleEpoch
    <3>3. \A j, p, q : epochs[c].anchor # EventHash(j, p, q)
      BY <3>2, HashFacts
    <3> QED BY <2>1, <3>1, <3>3, SameChain
  <2> QED BY <2>2, <2>3
<1>2. QED
  BY <1>1, Invariance, PTL

\* The hash the verifier expects before row i of a segment never disturbed.
LEMMA ExpectedPrevIs ==
    ASSUME IInv, NEW i \in 1..Len(events), events[i].epoch \notin disturbed
    PROVE  /\ events[i] = wrote[i]
           /\ ExpectedPrev(i) =
              IF i > 1 /\ wrote[i - 1].epoch = wrote[i].epoch
              THEN wrote[i - 1].hash
              ELSE IF wrote[i].epoch = NULL THEN NoHash ELSE epochs[1].anchor
<1> DEFINE before == {j \in 1..(i - 1) : events[j].epoch = events[i].epoch}
           inserted == {j \in 1..(i - 1) : wrote[j].epoch = wrote[i].epoch}
<1>1. Len(events) \in Nat
  BY DEF IInv, Tables
<1>e. /\ events[i] = wrote[i]
      /\ \A j \in 1..(i - 1) : events[j].epoch = events[i].epoch
                                 <=> wrote[j].epoch = wrote[i].epoch
      /\ \A j \in 1..(i - 1) : wrote[j].epoch = wrote[i].epoch => events[j] = wrote[j]
  <2>1. \A j \in 1..Len(events) :
           events[j] = wrote[j] \/ {wrote[j].epoch, events[j].epoch} \subseteq disturbed
    BY DEF IInv, Rows
  <2>2. \A j \in 1..(i - 1) : j \in 1..Len(events)
    BY <1>1
  <2> QED BY <2>1, <2>2
<1>b. before = inserted
  BY <1>e
<1>2. wrote[i].epoch = NULL \/ wrote[i].epoch = 1
  BY DEF IInv, Contiguous
<1>3. CASE i > 1 /\ wrote[i - 1].epoch = wrote[i].epoch
  <2>1. i - 1 \in Nat /\ i - 1 \in inserted /\ inserted \in SUBSET (1..(i - 1))
    BY <1>1, <1>3
  <2>2. LastOf(inserted) = i - 1
    BY <2>1, LastOfIs
  <2>3. before # {} /\ LastOf(before) = i - 1 /\ events[i - 1] = wrote[i - 1]
    BY <1>b, <1>e, <2>1, <2>2
  <2>4. QED
    BY <1>3, <1>e, <2>3 DEF ExpectedPrev
<1>4. CASE ~(i > 1 /\ wrote[i - 1].epoch = wrote[i].epoch)
  <2>1. inserted = {}
    <3>1. CASE i = 1
      BY <3>1
    <3>2. CASE i > 1 /\ wrote[i].epoch = NULL
      <4>1. i - 1 \in 1..Len(events)
        BY <1>1, <3>2
      <4>2. wrote[i - 1].epoch = 1
        BY <1>4, <3>2, <4>1 DEF IInv, Contiguous
      <4>3. QED
        BY <3>2, <4>2, SentinelAssumption DEF IInv, Contiguous
    <3>3. CASE i > 1 /\ wrote[i].epoch = 1
      <4>1. i - 1 \in 1..Len(events)
        BY <1>1, <3>3
      <4>2. wrote[i - 1].epoch = NULL
        BY <1>4, <3>3, <4>1 DEF IInv, Contiguous
      <4>3. \A j \in 1..(i - 1) : wrote[j].epoch = NULL
        BY <1>1, <4>1, <4>2, SentinelAssumption DEF IInv, Contiguous
      <4>4. QED
        BY <3>3, <4>3, SentinelAssumption
    <3>4. QED
      BY <1>1, <1>2, <3>1, <3>2, <3>3
  <2>2. before = {}
    BY <1>b, <2>1
  <2>3. QED
    BY <1>2, <1>4, <1>e, <2>2, SentinelAssumption DEF ExpectedPrev
<1>5. QED
  BY <1>3, <1>4, <1>e

\* A segment that was never disturbed has no invalid row.
LEMMA UndisturbedSegmentValid ==
    ASSUME IInv, NEW column, column \notin disturbed
    PROVE  FirstInvalid(RowsOf(events, column)) = 0
<1> DEFINE seg == RowsOf(events, column)
<1>1. Len(events) \in Nat /\ DOMAIN events = 1..Len(events)
  BY DEF IInv, Tables
<1>2. ASSUME NEW i \in seg PROVE RowStatus(i) = "valid"
  <2>1. i \in 1..Len(events) /\ events[i].epoch \notin disturbed
    BY <1>1 DEF RowsOf
  <2>2. /\ events[i] = wrote[i]
        /\ ExpectedPrev(i) = IF i > 1 /\ wrote[i - 1].epoch = wrote[i].epoch
                             THEN wrote[i - 1].hash
                             ELSE IF wrote[i].epoch = NULL THEN NoHash ELSE epochs[1].anchor
    BY <2>1, ExpectedPrevIs
  <2>3. events[i].prev = ExpectedPrev(i)
    BY <2>1, <2>2 DEF IInv, Chained
  <2>4. /\ events[i].hash = EventHash(i, events[i].payload, events[i].prev)
        /\ events[i].payload \in Payloads
    BY <2>1, <2>2 DEF IInv, Rows
  <2>5. events[i].hash # BadHash /\ events[i].payload # BadJson
    BY <2>4, HashFacts, SentinelAssumption
  <2> QED BY <2>3, <2>4, <2>5 DEF RowStatus
<1>3. seg \in SUBSET (Nat \ {0})
  BY <1>1 DEF RowsOf
<1>4. QED
  BY <1>2, <1>3, FirstInvalidFacts

\* A ledger whose verified rows were never edited is reported valid, and damage
\* in certified history does not invalidate an intact current epoch.
THEOREM FalseAlarmFree == Spec => []NoFalseAlarm
<1>1. IInv => NoFalseAlarm
  <2> SUFFICES ASSUME IInv, ActiveEpoch(epochs) \notin disturbed,
                      Certified \/ NULL \notin disturbed
               PROVE  Verification.valid
    BY DEF NoFalseAlarm
  <2>1. NULL \notin disturbed => FirstInvalid(Historical) = 0
    BY UndisturbedSegmentValid DEF Historical
  <2>2. CASE epochs = <<>>
    <3>1. ~Certified
      <4>1. Len(certs) = 0
        BY <2>2, EmptySeq DEF IInv, SingleEpoch
      <4>2. DOMAIN certs = {}
        BY <4>1 DEF IInv, Tables
      <4>3. QED
        BY <4>2 DEF Certified
    <3>2. QED
      BY <2>1, <2>2, <3>1 DEF Verification
  <2>3. CASE epochs # <<>>
    <3>0. ActiveEpoch(epochs) = 1 /\ 1 \notin disturbed
      BY <2>3, SegmentFacts
    <3>1. Current = RowsOf(events, 1)
      BY <3>0 DEF Current
    <3>2. FirstInvalid(Current) = 0
      BY <3>0, <3>1, UndisturbedSegmentValid
    <3>3. Current # {}
      <4>1. Len(events) \in 1..Len(events) /\ wrote[Len(events)].epoch = 1
        BY <2>3 DEF IInv, Tables, SingleEpoch
      <4>2. \/ events[Len(events)] = wrote[Len(events)]
            \/ {wrote[Len(events)].epoch, events[Len(events)].epoch} \subseteq disturbed
        BY <4>1 DEF IInv, Rows
      <4>3. events[Len(events)] = wrote[Len(events)]
        BY <3>0, <4>1, <4>2
      <4>4. Len(events) \in DOMAIN events
        BY <4>1 DEF IInv, Tables
      <4>5. QED
        BY <3>1, <4>1, <4>3, <4>4 DEF RowsOf
    <3>4. QED
      BY <2>1, <2>3, <3>2, <3>3 DEF Verification
  <2>4. QED
    BY <2>2, <2>3
<1>2. QED
  BY <1>1, Invariance, PTL

-----------------------------------------------------------------------------
(* The side tables *)

\* What a repair holds while it does not hold the mutex: a head that was the table's.
InHand ==
    main.at = "repair" =>
        /\ main.first \in 1..Len(events)
        /\ \E head \in 1..Len(events) : main.total <= head /\ HashOf(head, main.head)

CertTrue(c) ==
    LET cert == certs[c].cert IN
    /\ certs[c].event \in 1..Len(events)
    /\ cert.first < certs[c].event
    /\ \E head \in 1..(certs[c].event - 1) : cert.total <= head /\ HashOf(head, cert.head)
    /\ \A i \in RowsOf(wrote, certs[c].epoch) : certs[c].event <= i
    /\ wrote[certs[c].event].epoch = certs[c].epoch
    /\ wrote[certs[c].event].prev = CertificateHash(cert)

MutationTrue(m) ==
    LET r == mutations[m] IN
    /\ r.prev = IF m = 1 THEN NoHash ELSE mutations[m - 1].hash
    /\ r.hash = MutationHash(r.target, r.original, r.prev)
    /\ HashOf(r.target, r.original)

SideInv ==
    /\ InHand
    /\ \A c \in DOMAIN certs : CertTrue(c)
    /\ \A m \in DOMAIN mutations : MutationTrue(m)

\* The inserted rows stay, and others come after them.
Grown ==
    /\ Len(events) \in Nat /\ Len(events') \in Nat /\ Len(events) <= Len(events')
    /\ DOMAIN wrote = 1..Len(events) /\ DOMAIN wrote' = 1..Len(events')
    /\ \A i \in 1..Len(events) : wrote'[i] = wrote[i]

\* Every step only adds to what was inserted.
LEMMA StepGrows ==
    ASSUME IInv, IInv', [Next]_vars
    PROVE  Grown
<1>1. /\ DOMAIN wrote = 1..Len(events) /\ DOMAIN wrote' = 1..Len(events')
      /\ Len(events) \in Nat /\ Len(events') \in Nat
      /\ Len(wrote) = Len(events) /\ Len(wrote') = Len(events')
      /\ wrote \in Seq(RangeOf(wrote))
  BY DEF IInv, Tables
<1>2. UNCHANGED wrote \/ \E row : wrote' = Append(wrote, row)
  <2>1. ASSUME NEW i \in DOMAIN events, Edit(i) PROVE UNCHANGED wrote
    BY <2>1, EditFacts DEF EditRow
  <2> QED
    BY <2>1 DEF Next, vars, Append_ledger, RepairCommit, VerifyLedger, RepairVerify,
         RecordMutation, RecordMutationTx, ReconcileVerify, ReconcileCommit, RefreshTask,
         CacheExpires, Restart
<1>3. CASE UNCHANGED wrote
  BY <1>1, <1>3 DEF Grown
<1>4. ASSUME NEW row, wrote' = Append(wrote, row) PROVE Grown
  BY <1>1, <1>4, AppendFacts DEF Grown
<1> QED BY <1>2, <1>3, <1>4

\* Growing tables keep what a repair holds, a certificate and a mutation record true.
LEMMA GrownKeeps ==
    ASSUME IInv, IInv', Grown, SideInv
    PROVE  /\ UNCHANGED main => InHand'
           /\ \A c \in DOMAIN certs : certs'[c] = certs[c] => CertTrue(c)'
           /\ UNCHANGED mutations => \A m \in DOMAIN mutations' : MutationTrue(m)'
<1>1. UNCHANGED main => InHand'
  BY DEF SideInv, InHand, Grown
<1>2. ASSUME NEW c \in DOMAIN certs, certs'[c] = certs[c] PROVE CertTrue(c)'
  <2>1. CertTrue(c)
    BY DEF SideInv
  <2>2. \A i \in RowsOf(wrote', certs[c].epoch) : certs[c].event <= i
    BY <2>1 DEF CertTrue, RowsOf, Grown
  <2> QED BY <1>2, <2>1, <2>2 DEF CertTrue, Grown
<1>3. ASSUME UNCHANGED mutations, NEW m \in DOMAIN mutations' PROVE MutationTrue(m)'
  BY <1>3 DEF SideInv, MutationTrue
<1> QED BY <1>1, <1>2, <1>3

\* A mutation record continues the chain and names a hash of its row.
LEMMA RecordSide ==
    ASSUME IInv, IInv', Grown, SideInv, NEW i \in DOMAIN events, RecordMutationTx(i)
    PROVE  SideInv'
<1> DEFINE prev == IF mutations = <<>> THEN NoHash ELSE mutations[Len(mutations)].hash
           rec == [target |-> i, original |-> events[i].hash, post |-> events[i].payload,
                   prev |-> prev, hash |-> MutationHash(i, events[i].hash, prev)]
<1>1. /\ mutations' = Append(mutations, rec) /\ main' = Idle
      /\ UNCHANGED <<events, wrote, epochs, certs>>
  BY DEF RecordMutationTx
<1>2. mutations \in Seq(RangeOf(mutations)) /\ i \in 1..Len(events)
  BY DEF IInv, Tables
<1>3. HashOf(i, events[i].hash)
  BY <1>2 DEF IInv, Rows
<1>4. /\ rec.target = i /\ rec.original = events[i].hash /\ rec.prev = prev
      /\ rec.hash = MutationHash(rec.target, rec.original, rec.prev)
  OBVIOUS
<1> HIDE DEF rec, prev
<1>5. /\ Len(mutations) \in Nat /\ DOMAIN mutations = 1..Len(mutations)
      /\ DOMAIN mutations' = 1..(Len(mutations) + 1)
      /\ \A m \in 1..Len(mutations) : mutations'[m] = mutations[m]
      /\ mutations'[Len(mutations) + 1] = rec
  BY <1>1, <1>2, AppendFacts
<1>6. prev = IF Len(mutations) = 0 THEN NoHash ELSE mutations[Len(mutations)].hash
  BY <1>2, EmptySeq DEF prev
<1>7. ASSUME NEW m \in DOMAIN mutations' PROVE MutationTrue(m)'
  <2>1. CASE m \in 1..Len(mutations)
    <3>1. MutationTrue(m) /\ m \in Nat /\ (m # 1 => m - 1 \in 1..Len(mutations))
      BY <1>5, <2>1 DEF SideInv
    <3>2. m # 1 => mutations'[m - 1] = mutations[m - 1]
      BY <1>5, <3>1
    <3>3. mutations'[m] = mutations[m]
      BY <1>5, <2>1
    <3> QED BY <1>1, <3>1, <3>2, <3>3 DEF MutationTrue
  <2>2. CASE m = Len(mutations) + 1
    <3>1. mutations'[m] = rec /\ (m = 1 <=> Len(mutations) = 0) /\ m - 1 = Len(mutations)
      BY <1>5, <2>2
    <3>2. m # 1 => mutations'[m - 1] = mutations[m - 1]
      BY <1>5, <3>1
    <3>3. prev = IF m = 1 THEN NoHash ELSE mutations'[m - 1].hash
      BY <1>6, <3>1, <3>2
    <3> QED BY <1>1, <1>3, <1>4, <3>1, <3>3 DEF MutationTrue
  <2> QED BY <1>5, <2>1, <2>2
<1>8. InHand'
  BY <1>1 DEF InHand, Idle
<1>9. \A c \in DOMAIN certs' : CertTrue(c)'
  BY <1>1, GrownKeeps
<1> QED BY <1>7, <1>8, <1>9 DEF SideInv

\* The certificate a repair writes names the head it verified, and its epoch begins with
\* the repair's own event.
LEMMA RepairSide ==
    ASSUME IInv, IInv', Grown, SideInv, NEW p \in Payloads, NEW now \in Times,
           RepairCommit(p, now)
    PROVE  SideInv'
<1> DEFINE cert == [first |-> main.first, total |-> main.total, head |-> main.head,
                    created |-> now]
           ep == [anchor |-> CertificateHash(cert), created |-> now]
           row == [epoch |-> Len(epochs'), cert |-> cert, event |-> Len(events) + 1]
           n == Len(events)
<1>1. /\ main.at = "repair" /\ epochs' = Append(epochs, ep) /\ certs' = Append(certs, row)
      /\ main' = Idle /\ UNCHANGED mutations
      /\ events' = Append(events, NewRow(events, epochs', p))
      /\ wrote' = Append(wrote, NewRow(events, epochs', p))
  BY DEF RepairCommit
<1>2. PICK r : r = NewRow(events, epochs', p)
  OBVIOUS
<1>3. /\ epochs = <<>> /\ Len(certs) = 0 /\ Len(epochs) = 0
      /\ epochs \in Seq(RangeOf(epochs)) /\ certs \in Seq(RangeOf(certs))
      /\ wrote \in Seq(RangeOf(wrote)) /\ Len(wrote) = n
  BY <1>1, EmptySeq DEF IInv, SingleEpoch, Tables
<1>4. cert.first = main.first /\ cert.total = main.total /\ cert.head = main.head
  OBVIOUS
<1>5. ep.anchor = CertificateHash(cert)
  OBVIOUS
<1>6. row.epoch = Len(epochs') /\ row.cert = cert /\ row.event = n + 1
  OBVIOUS
<1> HIDE DEF cert, ep, row
<1>7. /\ Len(epochs') = 1 /\ epochs'[1] = ep
      /\ DOMAIN certs' = 1..1 /\ certs'[1] = row
  BY <1>1, <1>3, AppendToEmpty
<1>8. epochs' # <<>>
  BY <1>7, EmptySeq
<1>9. /\ Len(wrote') = n + 1 /\ n \in Nat
      /\ \A i \in 1..n : wrote'[i] = wrote[i]
      /\ wrote'[n + 1] = r
  BY <1>1, <1>2, <1>3, AppendFacts
<1>10. Len(events') = n + 1
  BY <1>9 DEF IInv, Tables
<1>11. /\ epochs' \in Seq(RangeOf(epochs')) /\ Len(epochs') <= 1
       /\ \A e \in DOMAIN epochs' : epochs'[e].created \in Times
  BY DEF IInv, Tables, SingleEpoch
<1>12. r.epoch = 1 /\ r.prev = epochs'[1].anchor
  BY <1>2, <1>3, <1>8, <1>11, NewRowFacts
<1>16. wrote'[n + 1].epoch = 1 /\ wrote'[n + 1].prev = CertificateHash(cert)
  BY <1>5, <1>7, <1>9, <1>12
<1>17. \A i \in RowsOf(wrote', 1) : n + 1 <= i
  <2> SUFFICES ASSUME NEW i \in 1..n, wrote'[i].epoch = 1 PROVE FALSE
    BY <1>9, <1>10 DEF RowsOf, Grown
  <2>1. wrote'[i].epoch = NULL
    BY <1>3, <1>9 DEF IInv, Contiguous
  <2> QED BY <2>1, SentinelAssumption
<1>18. /\ main.first \in 1..n
       /\ \E head \in 1..n : main.total <= head /\ HashOf(head, main.head)
  BY <1>1 DEF SideInv, InHand
<1>19. CertTrue(1)'
  <2>1. /\ certs'[1].event = n + 1 /\ certs'[1].cert = cert /\ certs'[1].epoch = 1
    BY <1>6, <1>7
  <2>2. main.first < n + 1 /\ n + 1 - 1 = n /\ n + 1 \in 1..Len(events')
    BY <1>9, <1>10, <1>18
  <2> QED BY <1>4, <1>16, <1>17, <1>18, <2>1, <2>2 DEF CertTrue
<1>20. \A m \in DOMAIN mutations' : MutationTrue(m)'
  BY <1>1, GrownKeeps
<1>21. InHand'
  BY <1>1 DEF InHand, Idle
<1> QED BY <1>7, <1>19, <1>20, <1>21 DEF SideInv

\* The head a verification reports is the last row of the table, and no row that is
\* still there comes after it.
LEMMA HeadFacts ==
    ASSUME IInv, Verification.first # 0
    PROVE  \E head \in 1..Len(events) :
              Verification.total <= head /\ HashOf(head, Verification.head)
<1> DEFINE present == PresentRows(events)
<1>1. Len(events) \in Nat /\ DOMAIN events = 1..Len(events)
  BY DEF IInv, Tables
<1>2. present \in SUBSET (1..Len(events))
  BY <1>1 DEF PresentRows
<1>3. present # {}
  <2>1. Verification.first \in Historical \cup Current
    <3>1. Verification.first = IF FirstInvalid(Current) # 0 THEN FirstInvalid(Current)
                               ELSE FirstInvalid(Historical)
      BY DEF Verification
    <3> QED BY <3>1, SegmentFacts, FirstInvalidFacts
  <2>2. \A i \in Historical \cup Current : events[i].epoch # Gone /\ i \in DOMAIN events
    BY SegmentFacts, SentinelAssumption DEF Historical, Current, RowsOf
  <2> QED BY <2>1, <2>2 DEF PresentRows
<1> DEFINE k == LastOf(present)
<1>4. k \in present /\ \A j \in present : j <= k
  <2> HIDE DEF present
  <2> QED BY <1>1, <1>2, <1>3, LastOfFacts
<1>5. k \in 1..Len(events) /\ k \in Nat /\ present \subseteq 1..k
  BY <1>1, <1>2, <1>4
<1>6. Cardinality(present) <= k
  <2> HIDE DEF present, k
  <2>1. IsFiniteSet(1..k) /\ Cardinality(1..k) = k
    <3>1. 1 \in Int /\ k \in Int
      BY <1>5
    <3>2. IsFiniteSet(1..k) /\ Cardinality(1..k) = IF 1 > k THEN 0 ELSE k - 1 + 1
      BY <3>1, FS_Interval
    <3> QED BY <1>5, <3>2
  <2> QED BY <1>5, <2>1, FS_Subset
<1>7. Verification.total = Cardinality(present) /\ Verification.head = TableHead(events)
  BY DEF Verification
<1>8. TableHead(events) = events[k].hash
  BY <1>3 DEF TableHead
<1>9. HashOf(k, events[k].hash)
  BY <1>5 DEF IInv, Rows
<1> QED BY <1>5, <1>6, <1>7, <1>8, <1>9

\* Certificates and mutation records speak of rows that were inserted.
THEOREM SideTables == Spec => []SideTablesTrue
<1>1. ASSUME Init PROVE SideInv
  BY <1>1 DEF Init, SideInv, InHand, Idle
<1>2. ASSUME IInv, IInv', SideInv, [Next]_vars PROVE SideInv'
  <2>1. Grown
    BY <1>2, StepGrows
  <2>2. ASSUME NEW p \in Payloads, NEW now \in Times, RepairCommit(p, now) PROVE SideInv'
    BY <1>2, <2>1, <2>2, RepairSide
  <2>3. ASSUME NEW i \in DOMAIN events, RecordMutationTx(i) PROVE SideInv'
    BY <1>2, <2>1, <2>3, RecordSide
  <2>4. CASE RepairVerify
    <3>1. /\ main' = [at |-> "repair", first |-> Verification.first,
                      total |-> Verification.total, head |-> Verification.head]
          /\ UNCHANGED <<events, certs, mutations>>
          /\ Verification.first # 0
      BY <2>4 DEF RepairVerify
    <3>2. PICK first, total, head : /\ first = Verification.first
                                    /\ total = Verification.total
                                    /\ head = Verification.head
      OBVIOUS
    <3>3. main'.first = first /\ main'.total = total /\ main'.head = head
      BY <3>1, <3>2
    <3>4. first \in 1..Len(events)
      BY <1>2, <3>1, <3>2, SegmentFacts
    <3>5. \E k \in 1..Len(events) : total <= k /\ HashOf(k, head)
      BY <1>2, <3>1, <3>2, HeadFacts
    <3>6. InHand'
      BY <3>1, <3>3, <3>4, <3>5 DEF InHand
    <3> QED BY <1>2, <2>1, <3>1, <3>6, GrownKeeps DEF SideInv
  <2>5. CASE /\ UNCHANGED <<certs, mutations>> /\ (UNCHANGED main \/ main'.at # "repair")
    BY <1>2, <2>1, <2>5, GrownKeeps DEF SideInv, InHand
  <2>6. CASE ReconcileCommit
    <3>1. main.first \in DOMAIN events
      BY <1>2, <2>6 DEF IInv, Tables, Handlers, ReconcileCommit
    <3> QED BY <2>3, <2>5, <2>6, <3>1 DEF ReconcileCommit, Idle
  <2>7. CASE ReconcileVerify \/ Restart
    <3>1. main'.at # "repair"
      BY <2>7 DEF ReconcileVerify, Restart, Idle
    <3> QED BY <2>5, <2>7, <3>1 DEF ReconcileVerify, Restart
  <2>8. CASE \/ \E p \in Payloads : Append_ledger(p)
             \/ VerifyLedger \/ RefreshTask \/ CacheExpires \/ UNCHANGED vars
    BY <2>5, <2>8 DEF vars, Append_ledger, VerifyLedger, RefreshTask, CacheExpires
  <2>9. CASE \E i \in DOMAIN events : Edit(i)
    <3>1. UNCHANGED <<certs, mutations, main>>
      BY <1>2, <2>9, EditFacts DEF EditRow
    <3> QED BY <2>5, <3>1
  <2>10. CASE \E i \in DOMAIN events : RecordMutation(i)
    BY <2>3, <2>10 DEF RecordMutation
  <2> QED BY <1>2, <2>2, <2>4, <2>6, <2>7, <2>8, <2>9, <2>10 DEF Next
<1>3. ASSUME SideInv PROVE SideTablesTrue
  BY <1>3 DEF SideInv, CertTrue, MutationTrue, SideTablesTrue, CertificateAnchorsEpoch,
              MutationsChained
<1> QED BY <1>1, <1>2, <1>3, Invariance, PTL DEF Spec
=============================================================================
