---------------------------- MODULE StreamProofs ----------------------------
(***************************************************************************)
(* The message stream, for every number of messages, readers and requests  *)
(* under way, and every limit.  The first part says what a page is: the    *)
(* query of ListMessages answers the newest rows and says rightly whether  *)
(* there are more.  The second part is the type invariant, the third one   *)
(* that a client that pages misses nothing.                                *)
(***************************************************************************)
EXTENDS MessageStream, FiniteSetTheorems, SequenceTheorems, TLAPS

USE MessagesAssumption

Above(S, m) == {x \in S : x > m}

-----------------------------------------------------------------------------
(* Pages.                                                                  *)

LEMMA RowsFinite ==
    ASSUME NEW S \in SUBSET MsgIds
    PROVE  S \subseteq Nat /\ IsFiniteSet(S) /\ Cardinality(S) \in Nat
<1>1. IsFiniteSet(MsgIds) /\ MsgIds \subseteq Nat
    BY FS_Interval DEF MsgIds
<1> QED
    BY <1>1, FS_Subset, FS_CardinalityType

\* Of two rows the older one has more rows above it, and every row has fewer
\* than there are.
LEMMA RankOrder ==
    ASSUME NEW S \in SUBSET MsgIds, NEW m \in S
    PROVE  /\ Cardinality(Above(S, m)) \in 0 .. Cardinality(S) - 1
           /\ \A k \in S : m < k => Cardinality(Above(S, k)) < Cardinality(Above(S, m))
<1> USE DEF Above
<1>1. S \subseteq Nat /\ IsFiniteSet(S) /\ Cardinality(S) \in Nat
    BY RowsFinite
<1>2. \A T \in SUBSET S : IsFiniteSet(T) /\ Cardinality(T) \in Nat
    BY <1>1, FS_Subset, FS_CardinalityType
<1>3. /\ Above(S, m) \in SUBSET S
      /\ Cardinality(Above(S, m)) <= Cardinality(S)
      /\ Cardinality(S) = Cardinality(Above(S, m)) => S = Above(S, m)
    BY <1>1, FS_Subset
<1>4. m \notin Above(S, m)
    BY <1>1
<1>5. ASSUME NEW k \in S, m < k
      PROVE  Cardinality(Above(S, k)) < Cardinality(Above(S, m))
    <2>3. \A x \in S : x \in Nat
        BY <1>1
    <2>4. Above(S, k) \in SUBSET Above(S, m)
        BY <1>5, <2>3
    <2>5. k \in Above(S, m) /\ k \notin Above(S, k)
        BY <1>5, <2>3
    <2>2. /\ Cardinality(Above(S, k)) <= Cardinality(Above(S, m))
          /\ Cardinality(Above(S, k)) # Cardinality(Above(S, m))
        BY <1>2, <1>3, <2>4, <2>5, FS_Subset
    <2>6. Cardinality(Above(S, k)) \in Nat /\ Cardinality(Above(S, m)) \in Nat
        BY <1>2
    <2> QED
        BY <2>2, <2>6
<1>6. Cardinality(Above(S, m)) \in Nat /\ Cardinality(Above(S, m)) # Cardinality(S)
    BY <1>2, <1>3, <1>4
<1> HIDE DEF Above
<1>7. Cardinality(Above(S, m)) \in 0 .. Cardinality(S) - 1
    BY <1>1, <1>3, <1>6
<1> QED
    BY <1>5, <1>7

\* So there is one row for every rank (the pigeonhole principle).
LEMMA EveryRank ==
    ASSUME NEW S \in SUBSET MsgIds, NEW r \in 0 .. Cardinality(S) - 1
    PROVE  \E m \in S : Cardinality(Above(S, m)) = r
<1> DEFINE T == 0 .. Cardinality(S) - 1
           rank == [m \in S |-> Cardinality(Above(S, m))]
<1>1. S \subseteq Nat /\ Cardinality(S) \in Nat
    BY RowsFinite
<1>2. rank \in [S -> T]
    BY RankOrder
<1>3. \A a, b \in S : rank[a] = rank[b] => a = b
    <2> SUFFICES ASSUME NEW a \in S, NEW b \in S, a # b PROVE rank[a] # rank[b]
        OBVIOUS
    <2>1. a < b \/ b < a
        BY <1>1
    <2>2. rank[a] \in Int /\ rank[b] \in Int
        BY <1>2
    <2>3. rank[b] < rank[a] \/ rank[a] < rank[b]
        BY <2>1, RankOrder
    <2> QED
        BY <2>2, <2>3
<1>4. rank \in Injection(S, T)
    BY <1>2, <1>3 DEF Injection, IsInjective
<1>5. IsFiniteSet(T) /\ Cardinality(T) = Cardinality(S)
    BY <1>1, FS_Interval
<1> HIDE DEF rank, T
<1>6. rank \in Surjection(S, T)
    BY <1>4, <1>5, FS_Injection
<1>7. \E m \in S : rank[m] = r
    BY <1>6 DEF Surjection, T
<1> QED
    BY <1>7 DEF rank

LEMMA FunctionIsSeq ==
    ASSUME NEW S, NEW k \in Nat, NEW p \in [1 .. k -> S]
    PROVE  p \in Seq(S) /\ DOMAIN p = 1 .. k /\ Len(p) = k
<1>1. p \in Seq(S)
    BY SeqDef
<1>2. DOMAIN p = 1 .. k /\ DOMAIN p = 1 .. Len(p) /\ Len(p) \in Nat
    BY <1>1, LenProperties
<1> QED
    BY <1>1, <1>2

\* Newest(S, n) has the n rows of S with the fewest rows above them.
LEMMA NewestRanks ==
    ASSUME NEW S \in SUBSET MsgIds, NEW n \in Nat
    PROVE  \E k \in Nat :
             /\ k = IF Cardinality(S) < n THEN Cardinality(S) ELSE n
             /\ Newest(S, n) \in [1 .. k -> S]
             /\ \A i \in 1 .. k : Cardinality(Above(S, Newest(S, n)[i])) = i - 1
<1> DEFINE k == IF Cardinality(S) < n THEN Cardinality(S) ELSE n
           row_(i) == CHOOSE m \in S : Cardinality(Above(S, m)) = i - 1
<1>1. k \in Nat /\ k <= Cardinality(S) /\ Cardinality(S) \in Nat
    BY RowsFinite
<1>2. Newest(S, n) = [i \in 1 .. k |-> row_(i)]
    BY DEF Newest, Above
<1>3. ASSUME NEW i \in 1 .. k
      PROVE  row_(i) \in S /\ Cardinality(Above(S, row_(i))) = i - 1
    <2>1. \E m \in S : Cardinality(Above(S, m)) = i - 1
        BY <1>1, EveryRank
    <2> QED
        BY <2>1
<1> HIDE DEF row_
<1> QED
    BY <1>1, <1>2, <1>3

\* A page of the newest rows: in S, in descending order, as many as fit, and
\* whatever is not in it is older.
LEMMA NewestPage ==
    ASSUME NEW S \in SUBSET MsgIds, NEW n \in Nat
    PROVE  LET page == Newest(S, n) IN
           /\ page \in Seq(S)
           /\ Len(page) = IF Cardinality(S) < n THEN Cardinality(S) ELSE n
           /\ \A i, j \in DOMAIN page : i < j => page[i] > page[j]
           /\ \A m \in S : \/ \E i \in DOMAIN page : page[i] = m
                           \/ \A i \in DOMAIN page : page[i] > m
           /\ (\A m \in S : \E i \in DOMAIN page : page[i] = m) <=> Cardinality(S) <= n
<1> DEFINE page == Newest(S, n)
<1>1. PICK k \in Nat :
        /\ k = IF Cardinality(S) < n THEN Cardinality(S) ELSE n
        /\ page \in [1 .. k -> S]
        /\ \A i \in 1 .. k : Cardinality(Above(S, page[i])) = i - 1
    BY NewestRanks
<1>2. S \subseteq Nat /\ Cardinality(S) \in Nat
    BY RowsFinite
<1>3. \A a, b \in S : Cardinality(Above(S, a)) < Cardinality(Above(S, b)) => a > b
    <2> SUFFICES ASSUME NEW a \in S, NEW b \in S,
                        Cardinality(Above(S, a)) < Cardinality(Above(S, b)), ~(a > b)
                 PROVE  FALSE
        OBVIOUS
    <2>1. a = b \/ a < b
        BY <1>2
    <2>2. Cardinality(Above(S, a)) \in Nat /\ Cardinality(Above(S, b)) \in Nat
        BY RankOrder
    <2>3. a < b => Cardinality(Above(S, b)) < Cardinality(Above(S, a))
        BY RankOrder
    <2> QED
        BY <2>1, <2>2, <2>3
<1>4. \A a, b \in S : Cardinality(Above(S, a)) = Cardinality(Above(S, b)) => a = b
    <2> SUFFICES ASSUME NEW a \in S, NEW b \in S, a # b
                 PROVE  Cardinality(Above(S, a)) # Cardinality(Above(S, b))
        OBVIOUS
    <2>1. a < b \/ b < a
        BY <1>2
    <2>2. Cardinality(Above(S, a)) \in Nat /\ Cardinality(Above(S, b)) \in Nat
        BY <1>2, RankOrder
    <2>3. \/ Cardinality(Above(S, b)) < Cardinality(Above(S, a))
          \/ Cardinality(Above(S, a)) < Cardinality(Above(S, b))
        BY <2>1, RankOrder
    <2> QED
        BY <2>2, <2>3
<1> HIDE DEF page
<1>5. page \in Seq(S) /\ DOMAIN page = 1 .. k /\ Len(page) = k
    BY <1>1, FunctionIsSeq
<1>6. \A i, j \in 1 .. k : i < j => page[i] > page[j]
    BY <1>1, <1>3
<1>7. ASSUME NEW m \in S, Cardinality(Above(S, m)) < k
      PROVE  \E i \in 1 .. k : page[i] = m
    <2> DEFINE r == Cardinality(Above(S, m))
    <2>1. r \in Nat /\ r + 1 \in 1 .. k
        BY <1>1, <1>2, <1>7, RankOrder
    <2>2. page[r + 1] \in S /\ Cardinality(Above(S, page[r + 1])) = r
        BY <1>1, <2>1
    <2> QED
        BY <1>4, <2>1, <2>2
<1>8. ASSUME NEW m \in S, ~(Cardinality(Above(S, m)) < k), NEW i \in 1 .. k
      PROVE  page[i] > m
    <2>1. page[i] \in S /\ Cardinality(Above(S, page[i])) = i - 1
        BY <1>1
    <2>2. i - 1 < Cardinality(Above(S, m))
        BY <1>1, <1>2, <1>8, RankOrder
    <2> QED
        BY <1>3, <2>1, <2>2
<1>9. CASE Cardinality(S) <= n
    <2>1. k = Cardinality(S)
        BY <1>1, <1>2, <1>9
    <2>2. \A m \in S : Cardinality(Above(S, m)) < k
        BY <1>2, <2>1, RankOrder
    <2> QED
        BY <1>1, <1>5, <1>6, <1>7, <1>9, <2>1, <2>2 DEF page
<1>10. CASE ~(Cardinality(S) <= n)
    <2>1. k = n /\ n \in 0 .. Cardinality(S) - 1
        BY <1>1, <1>2, <1>10
    <2>2. PICK m \in S : Cardinality(Above(S, m)) = n
        BY <2>1, EveryRank
    <2>3. ASSUME NEW i \in 1 .. k PROVE page[i] # m
        <3>1. page[i] \in S /\ Cardinality(Above(S, page[i])) = i - 1
            BY <1>1
        <3>2. i - 1 # n
            BY <2>1
        <3> QED
            BY <2>2, <3>1, <3>2
    <2> QED
        BY <1>1, <1>5, <1>6, <1>7, <1>8, <1>10, <2>1, <2>3 DEF page
<1> QED
    BY <1>9, <1>10

\* What ListMessages answers, for every cursor, filter, limit and table: a
\* page in descending order, of rows that match; whatever it leaves out is
\* older than all that is in it, so that the next page can start after its
\* last row; and it says that there are more exactly when it has left
\* something out.
THEOREM NewestRowsAnswered ==
    ASSUME NEW cursor \in Cursors, NEW agent, NEW limit \in Nat
    PROVE  LET rows == Matching(cursor, agent)
               page == ListMessages(cursor, agent, limit).page
           IN
           /\ page \in Pages(limit)
           /\ \A i \in DOMAIN page : page[i] \in rows
           /\ \A m \in rows : \/ \E i \in DOMAIN page : page[i] = m
                              \/ \A i \in DOMAIN page : page[i] > m
           /\ ListMessages(cursor, agent, limit).more
                <=> \E m \in rows : \A i \in DOMAIN page : page[i] # m
<1> DEFINE rows == Matching(cursor, agent)
           page == Newest(rows, limit)
<1>1. rows \in SUBSET MsgIds
    BY DEF Matching
<1>2. ListMessages(cursor, agent, limit).page = page
      /\ ListMessages(cursor, agent, limit).more = (Cardinality(rows) > limit)
    BY DEF ListMessages
<1>3. Cardinality(rows) \in Nat
    BY <1>1, RowsFinite
<1> HIDE DEF rows
<1>4. /\ page \in Seq(rows)
      /\ Len(page) = IF Cardinality(rows) < limit THEN Cardinality(rows) ELSE limit
      /\ \A i, j \in DOMAIN page : i < j => page[i] > page[j]
      /\ \A m \in rows : \/ \E i \in DOMAIN page : page[i] = m
                         \/ \A i \in DOMAIN page : page[i] > m
      /\ (\A m \in rows : \E i \in DOMAIN page : page[i] = m)
            <=> Cardinality(rows) <= limit
    BY <1>1, <1>3, NewestPage
<1> HIDE DEF page
<1>5. Len(page) \in 0 .. limit /\ page \in [1 .. Len(page) -> MsgIds]
    BY <1>1, <1>3, <1>4
<1>6. page \in Pages(limit)
    BY <1>4, <1>5 DEF Pages
<1>7. \A i \in DOMAIN page : page[i] \in rows
    BY <1>4
<1>8. Cardinality(rows) > limit <=> ~(Cardinality(rows) <= limit)
    BY <1>3
<1> QED
    BY <1>2, <1>4, <1>6, <1>7, <1>8 DEF rows

LEMMA PageFacts ==
    ASSUME NEW n \in Nat, NEW page \in Pages(n)
    PROVE  /\ page \in Seq(MsgIds)
           /\ page # <<>> => Last(page) \in MsgIds
           /\ CursorAfter(page) \in Cursors
           /\ CursorAfter(page) # Nil => page # <<>> /\ CursorAfter(page) = Last(page)
           /\ \A i, j \in DOMAIN page : i < j => page[i] > page[j]
<1>1. PICK k \in 0 .. n : page \in [1 .. k -> MsgIds]
    BY DEF Pages
<1>2. page \in Seq(MsgIds)
    BY <1>1, FunctionIsSeq
<1>3. page # <<>> => Last(page) \in MsgIds
    <2>1. page # <<>> => Len(page) \in 1 .. Len(page)
        BY <1>2, EmptySeq
    <2> QED
        BY <1>2, <2>1, ElementOfSeq DEF Last
<1> QED
    BY <1>2, <1>3 DEF CursorAfter, Cursors, Pages

LEMMA EmptyPage == ASSUME NEW n \in Nat PROVE <<>> \in Pages(n)
<1>1. <<>> \in [1 .. 0 -> MsgIds] /\ 0 \in 0 .. n
    OBVIOUS
<1>2. \A i, j \in DOMAIN <<>> : i < j => <<>>[i] > <<>>[j]
    OBVIOUS
<1> QED
    BY <1>1, <1>2 DEF Pages

-----------------------------------------------------------------------------
(* The types.                                                              *)

USE ReadersAssumption

LEMMA SlotFacts ==
    ASSUME NEW s \in Slots
    PROVE  s[1] \in Readers /\ Limit[s[1]] \in Nat /\ Limit[s[1]] \in Limits
BY DEF Limits

LEMMA NoRequestTyped ==
    ASSUME NEW s \in Slots
    PROVE  /\ NoRequest \in Request(s[1])
           /\ \A c \in Cursors : [NoRequest EXCEPT !.phase = "asked", !.cursor = c]
                                    \in Request(s[1])
           /\ [NoRequest EXCEPT !.phase = "asked"] \in Request(s[1])
BY SlotFacts, EmptyPage DEF NoRequest, Request, Cursors

\* A step that writes the entry of one request.
LEMMA RequestStep ==
    ASSUME StreamTypeOK, NEW s \in Slots, NEW r \in Request(s[1]),
           request' = [request EXCEPT ![s] = r]
    PROVE  /\ DOMAIN request' = Slots
           /\ \A t \in Slots : request'[t] \in Request(t[1])
BY DEF StreamTypeOK

LEMMA TypeInitial == StreamInit => StreamTypeOK
<1> SUFFICES ASSUME StreamInit PROVE StreamTypeOK
    OBVIOUS
<1>1. \A s \in Slots : request[s] \in Request(s[1])
    BY NoRequestTyped DEF StreamInit
<1>2. list \in [Readers -> Seq(MsgIds)] /\ \A d \in Dashboards : list[d] \in Pages(Limit[d])
    BY EmptySeq, EmptyPage DEF StreamInit, Readers
<1>3. \A c \in Cursors, n \in Limits : cache[<<c, n>>] = Nil
    BY DEF StreamInit
<1> QED
    BY <1>1, <1>2, <1>3 DEF StreamInit, StreamTypeOK, Cursors

LEMMA TableKeepsTypes ==
    ASSUME StreamTypeOK,
           \/ \E m \in MsgIds : BeginInsert(m) \/ CommitInsert(m)
           \/ \E k \in Cursors \X Limits : Expire(k)
    PROVE  StreamTypeOK'
<1>1. CASE \E m \in MsgIds : BeginInsert(m) \/ CommitInsert(m)
    BY <1>1 DEF BeginInsert, CommitInsert, StreamTypeOK, readerVars
<1>2. CASE \E k \in Cursors \X Limits : Expire(k)
    BY <1>2 DEF Expire, StreamTypeOK, readerVars
<1> QED
    BY <1>1, <1>2

LEMMA GetPageKeepsTypes ==
    ASSUME StreamTypeOK, NEW s \in Slots,
           \/ FetchFindings(s) \/ FetchPage(s)
           \/ Lookup(s) \/ LookupFails(s) \/ Read(s) \/ Fill(s)
    PROVE  StreamTypeOK'
<1> DEFINE n == Limit[s[1]]
<1>1. UNCHANGED <<row, readerVars, fails>>
    BY DEF FetchFindings, FetchPage, Lookup, LookupFails, Read, Fill
<1>2. /\ request[s] \in Request(s[1])
      /\ request[s].cursor \in Cursors
      /\ request[s].page \in Pages(n)
    BY DEF StreamTypeOK, Request
<1>3. \E r \in Request(s[1]) : request' = [request EXCEPT ![s] = r]
    <2>1. CASE FetchFindings(s)
        BY <2>1, NoRequestTyped DEF FetchFindings
    <2>2. CASE FetchPage(s)
        BY <2>2, NoRequestTyped DEF FetchPage, StreamTypeOK
    <2>3. CASE Lookup(s)
        <3>1. PageKey(s) = <<request[s].cursor, n>> /\ cache[PageKey(s)] \in Pages(n) \cup {Nil}
            BY <1>2, SlotFacts DEF PageKey, StreamTypeOK
        <3>2. /\ [request[s] EXCEPT !.phase = "missed"] \in Request(s[1])
              /\ \A p \in Pages(n) :
                    [request[s] EXCEPT !.phase = "answered", !.page = p, !.more = FALSE]
                        \in Request(s[1])
            BY <1>2 DEF Request
        <3>3. CASE cache[PageKey(s)] = Nil
            BY <2>3, <3>2, <3>3, Zenon DEF Lookup, StreamTypeOK
        <3>4. CASE cache[PageKey(s)] # Nil
            BY <2>3, <3>1, <3>2, <3>4 DEF Lookup, StreamTypeOK
        <3> QED
            BY <3>3, <3>4
    <2>4. CASE LookupFails(s)
        <3>1. [request[s] EXCEPT !.phase = "missed"] \in Request(s[1])
            BY <1>2 DEF Request
        <3> QED
            BY <2>4, <3>1 DEF LookupFails
    <2>5. CASE Read(s)
        <3> DEFINE rows == ListMessages(request[s].cursor, Filter[s[1]], n)
        <3>1. rows.page \in Pages(n) /\ rows.more \in BOOLEAN
            BY <1>2, SlotFacts, NewestRowsAnswered DEF ListMessages
        <3>2. request' = [request EXCEPT ![s] = [request[s] EXCEPT
                              !.phase = "read", !.page = rows.page, !.more = rows.more]]
            BY <2>5 DEF Read
        <3> HIDE DEF rows
        <3>3. [request[s] EXCEPT !.phase = "read", !.page = rows.page, !.more = rows.more]
                 \in Request(s[1])
            BY <1>2, <3>1 DEF Request
        <3> QED
            BY <3>2, <3>3
    <2>6. CASE Fill(s)
        <3>1. [request[s] EXCEPT !.phase = "answered"] \in Request(s[1])
            BY <1>2 DEF Request
        <3> QED
            BY <2>6, <3>1 DEF Fill
    <2> QED
        BY <2>1, <2>2, <2>3, <2>4, <2>5, <2>6
<1>4. \/ cache' = cache
      \/ cache' = [cache EXCEPT ![<<request[s].cursor, n>>] = request[s].page]
    BY DEF FetchFindings, FetchPage, Lookup, LookupFails, Read, Fill, PageKey
<1>5. /\ DOMAIN cache' = Cursors \X Limits
      /\ \A c \in Cursors, k \in Limits : cache'[<<c, k>>] \in Pages(k) \cup {Nil}
    BY <1>2, <1>4, SlotFacts DEF StreamTypeOK
<1>6. /\ DOMAIN request' = Slots
      /\ \A t \in Slots : request'[t] \in Request(t[1])
    BY <1>3, RequestStep
<1> QED
    BY <1>1, <1>5, <1>6 DEF StreamTypeOK, readerVars

\* A client's list with the page that it has got.
LEMMA TakenPage ==
    ASSUME NEW old \in Seq(MsgIds), NEW n \in Nat, NEW page \in Pages(n)
    PROVE  /\ old \o page \in Seq(MsgIds)
           /\ DOMAIN old = 1 .. Len(old) /\ Len(old) \in Nat
           /\ DOMAIN page = 1 .. Len(page) /\ Len(page) \in Nat
           /\ DOMAIN (old \o page) = 1 .. Len(old) + Len(page)
           /\ \A i \in 1 .. Len(old) + Len(page) :
                 (old \o page)[i] = IF i <= Len(old) THEN old[i] ELSE page[i - Len(old)]
<1>1. page \in Seq(MsgIds)
    BY PageFacts
<1>2. /\ old \o page \in Seq(MsgIds)
      /\ Len(old \o page) = Len(old) + Len(page)
      /\ \A i \in 1 .. Len(old) + Len(page) :
            (old \o page)[i] = IF i <= Len(old) THEN old[i] ELSE page[i - Len(old)]
    BY <1>1, ConcatProperties
<1> QED
    BY <1>1, <1>2, LenProperties

LEMMA AnswersKeepTypes ==
    ASSUME StreamTypeOK, NEW s \in Slots,
           ShowFindings(s) \/ TakePage(s) \/ Fail(s)
    PROVE  StreamTypeOK'
<1>1. /\ request[s].page \in Pages(Limit[s[1]])
      /\ request[s].more \in BOOLEAN
      /\ Limit[s[1]] \in Nat
    BY SlotFacts DEF StreamTypeOK, Request
<1>2. UNCHANGED <<row, cache>> /\ request' = [request EXCEPT ![s] = NoRequest]
    BY DEF ShowFindings, TakePage, Fail, Settle
<1>3. /\ DOMAIN request' = Slots
      /\ \A t \in Slots : request'[t] \in Request(t[1])
    BY <1>2, NoRequestTyped, RequestStep
<1>4. CASE ShowFindings(s)
    <2>1. request[s].page \in Seq(MsgIds)
        BY <1>1, PageFacts
    <2>2. /\ list' \in [Readers -> Seq(MsgIds)]
          /\ \A d \in Dashboards : list'[d] \in Pages(Limit[d])
        BY <1>1, <1>4, <2>1 DEF ShowFindings, StreamTypeOK, Readers
    <2> QED
        BY <1>2, <1>3, <1>4, <2>2 DEF ShowFindings, StreamTypeOK
<1>5. CASE TakePage(s)
    <2>1. /\ s[1] \in Clients
          /\ list[s[1]] \o request[s].page \in Seq(MsgIds)
          /\ CursorAfter(request[s].page) \in Cursors
        BY <1>1, <1>5, TakenPage, PageFacts DEF TakePage, StreamTypeOK, Readers
    <2>2. /\ list' \in [Readers -> Seq(MsgIds)]
          /\ \A d \in Dashboards : list'[d] \in Pages(Limit[d])
        BY <1>5, <2>1 DEF TakePage, StreamTypeOK, Readers
    <2>3. nextCursor' \in [Clients -> Cursors] /\ hasMore' \in [Clients -> BOOLEAN]
        BY <1>1, <1>5, <2>1 DEF TakePage, StreamTypeOK
    <2> QED
        BY <1>2, <1>3, <1>5, <2>2, <2>3 DEF TakePage, StreamTypeOK
<1>6. CASE Fail(s)
    <2>1. /\ list' \in [Readers -> Seq(MsgIds)]
          /\ \A d \in Dashboards : list'[d] \in Pages(Limit[d])
        <3>1. <<>> \in Seq(MsgIds)
            BY EmptySeq
        <3>3. \A d \in Dashboards : Limit[d] \in Nat
            BY EmptySeq DEF Readers
        <3>2. list' = list \/ list' = [list EXCEPT ![s[1]] = <<>>]
            BY <1>6 DEF Fail
        <3>4. \A d \in Dashboards : <<>> \in Pages(Limit[d])
            BY <3>3, EmptyPage
        <3>5. \A r \in Readers : list'[r] \in {list[r], <<>>}
            BY <3>2 DEF StreamTypeOK
        <3>6. list' \in [Readers -> Seq(MsgIds)]
            BY <3>1, <3>2 DEF StreamTypeOK
        <3> QED
            BY <3>4, <3>5, <3>6 DEF StreamTypeOK, Readers
    <2>2. fails' \in 0 .. MaxFails
        BY <1>6 DEF Fail, StreamTypeOK
    <2> QED
        BY <1>2, <1>3, <1>6, <2>1, <2>2 DEF Fail, StreamTypeOK
<1> QED
    BY <1>4, <1>5, <1>6

LEMMA TypeStep == StreamTypeOK /\ [StreamNext]_streamVars => StreamTypeOK'
<1> SUFFICES ASSUME StreamTypeOK, [StreamNext]_streamVars PROVE StreamTypeOK'
    OBVIOUS
<1>1. CASE UNCHANGED streamVars
    BY <1>1 DEF streamVars, readerVars, StreamTypeOK
<1> QED
    BY <1>1, TableKeepsTypes, GetPageKeepsTypes, AnswersKeepTypes DEF StreamNext

\* Every page that is cached, under way or on a dashboard is a descending page
\* of messages, no longer than its reader's limit, and every cursor is that of
\* a message or none.
THEOREM StreamTypeCorrect == StreamSpec => []StreamTypeOK
BY TypeInitial, TypeStep, PTL DEF StreamSpec

-----------------------------------------------------------------------------
(* No drift.                                                               *)

\* The page leaves out no early row below the cursor and above its own end.
PageFrom(cursor, page) ==
    /\ cursor # Nil => \A i \in DOMAIN page : page[i] < cursor
    /\ \A e \in 1..Early :
          \/ cursor # Nil /\ e >= cursor
          \/ \E i \in DOMAIN page : page[i] = e
          \/ \A i \in DOMAIN page : page[i] > e

Unfiltered == \A r \in Readers : Filter[r] = All

EarlyThere == \A e \in 1..Early : row[e] = "visible"

CacheSound ==
    \A c \in Cursors, n \in Limits :
        cache[<<c, n>>] # Nil => PageFrom(c, cache[<<c, n>>])

RequestSound(s) ==
    /\ request[s].phase \in {"read", "answered"} =>
          PageFrom(request[s].cursor, request[s].page)
    /\ (s[1] \in Clients /\ request[s].phase # "none") =>
          /\ request[s].cursor = nextCursor[s[1]]
          /\ nextCursor[s[1]] # Nil \/ list[s[1]] = <<>>

CursorSound ==
    \A c \in Clients :
        nextCursor[c] # Nil => list[c] # <<>> /\ nextCursor[c] = Last(list[c])

\* A page is asked for after the last row of what its client has, and the
\* cache and the table answer pages that start where the cursor ends.
DriftInv ==
    /\ StreamTypeOK
    /\ EarlyThere
    /\ CacheSound
    /\ \A s \in Slots : RequestSound(s)
    /\ CursorSound
    /\ NoPageDrift

\* The table answers such pages to whom asks for no agent in particular.
LEMMA TablePage ==
    ASSUME EarlyThere, NEW cursor \in Cursors, NEW n \in Nat
    PROVE  PageFrom(cursor, ListMessages(cursor, All, n).page)
<1> DEFINE rows == Matching(cursor, All)
           page == ListMessages(cursor, All, n).page
<1>1. /\ \A i \in DOMAIN page : page[i] \in rows
      /\ \A m \in rows : \/ \E i \in DOMAIN page : page[i] = m
                         \/ \A i \in DOMAIN page : page[i] > m
    BY NewestRowsAnswered
<1>2. \A m \in rows : cursor # Nil => m < cursor
    BY DEF Matching
<1>3. \A e \in 1..Early : (cursor # Nil => e < cursor) => e \in rows
    BY DEF Matching, EarlyThere, MsgIds
<1>4. \A e \in 1..Early : cursor # Nil => (e < cursor \/ e >= cursor)
    BY DEF Cursors, MsgIds
<1> HIDE DEF rows, page
<1> QED
    BY <1>1, <1>2, <1>3, <1>4 DEF PageFrom, page

LEMMA DriftInitial == StreamInit => DriftInv
<1> SUFFICES ASSUME StreamInit PROVE DriftInv
    OBVIOUS
<1>1. EarlyThere
    BY DEF StreamInit, EarlyThere, MsgIds
<1>2. CacheSound
    BY DEF StreamInit, CacheSound
<1>3. ASSUME NEW s \in Slots PROVE RequestSound(s)
    BY DEF StreamInit, RequestSound, NoRequest
<1>4. CursorSound
    BY DEF StreamInit, CursorSound
<1>5. NoPageDrift
    BY DEF StreamInit, NoPageDrift, Readers
<1> QED
    BY <1>1, <1>2, <1>3, <1>4, <1>5, TypeInitial DEF DriftInv

\* Inserting and expiring.
LEMMA TableKeepsDrift ==
    ASSUME DriftInv,
           \/ \E m \in MsgIds : BeginInsert(m) \/ CommitInsert(m)
           \/ \E k \in Cursors \X Limits : Expire(k)
    PROVE  DriftInv'
<1>1. UNCHANGED <<request, list, nextCursor>>
    BY DEF BeginInsert, CommitInsert, Expire, readerVars
<1>2. EarlyThere'
    BY DEF DriftInv, EarlyThere, StreamTypeOK, BeginInsert, CommitInsert, Expire, MsgIds
<1>3. CacheSound'
    <2>1. ASSUME NEW k \in Cursors \X Limits
          PROVE  Expire(k) => cache' = [cache EXCEPT ![k] = Nil]
        BY DEF Expire
    <2>2. cache' = cache \/ \E k \in Cursors \X Limits : cache' = [cache EXCEPT ![k] = Nil]
        BY <2>1 DEF BeginInsert, CommitInsert
    <2> QED
        BY <2>2 DEF DriftInv, StreamTypeOK, CacheSound
<1>4. \A s \in Slots : RequestSound(s)'
    BY <1>1 DEF DriftInv, RequestSound
<1>5. CursorSound' /\ NoPageDrift'
    BY <1>1 DEF DriftInv, CursorSound, NoPageDrift
<1> QED
    BY <1>2, <1>3, <1>4, <1>5, TableKeepsTypes DEF DriftInv

\* A step that writes one request; the lists stay.
LEMMA RequestKeepsDrift ==
    ASSUME DriftInv, StreamTypeOK', UNCHANGED <<row, list, nextCursor>>, CacheSound',
           NEW s \in Slots, RequestSound(s)',
           \A t \in Slots \ {s} : request'[t] = request[t]
    PROVE  DriftInv'
<1>1. ASSUME NEW t \in Slots PROVE RequestSound(t)'
    BY DEF DriftInv, RequestSound
<1> QED
    BY <1>1 DEF DriftInv, EarlyThere, CursorSound, NoPageDrift

LEMMA GetPageKeepsDrift ==
    ASSUME Unfiltered, DriftInv, NEW s \in Slots,
           \/ FetchFindings(s) \/ FetchPage(s)
           \/ Lookup(s) \/ LookupFails(s) \/ Read(s) \/ Fill(s)
    PROVE  DriftInv'
<1> DEFINE n == Limit[s[1]]
<1>1. UNCHANGED <<row, list, nextCursor>> /\ StreamTypeOK'
    BY GetPageKeepsTypes DEF DriftInv, FetchFindings, FetchPage, Lookup, LookupFails, Read,
                             Fill, readerVars
<1>2. /\ request[s].cursor \in Cursors
      /\ PageKey(s) = <<request[s].cursor, n>> /\ n \in Limits /\ n \in Nat
      /\ DOMAIN request = Slots
    BY SlotFacts DEF DriftInv, StreamTypeOK, Request, PageKey
<1>3. \A t \in Slots \ {s} : request'[t] = request[t]
    BY <1>2 DEF FetchFindings, FetchPage, Lookup, LookupFails, Read, Fill
<1>4. CacheSound'
    <2>1. CASE Fill(s)
        <3>1. PageFrom(request[s].cursor, request[s].page)
            BY <2>1 DEF Fill, DriftInv, RequestSound
        <3>2. cache' = cache
              \/ cache' = [cache EXCEPT ![<<request[s].cursor, n>>] = request[s].page]
            BY <1>2, <2>1 DEF Fill
        <3> QED
            BY <1>2, <3>1, <3>2 DEF DriftInv, StreamTypeOK, CacheSound
    <2>2. CASE ~Fill(s)
        BY <2>2 DEF FetchFindings, FetchPage, Lookup, LookupFails, Read, DriftInv, CacheSound
    <2> QED
        BY <2>1, <2>2
<1>5. RequestSound(s)'
    <2>1. CASE FetchFindings(s)
        <3>1. request'[s].phase = "asked" /\ s[1] \notin Clients
            BY <1>2, <2>1 DEF FetchFindings, NoRequest
        <3> QED
            BY <3>1 DEF RequestSound
    <2>2. CASE FetchPage(s)
        <3>1. request'[s].phase = "asked" /\ request'[s].cursor = nextCursor[s[1]]
            BY <1>2, <2>2 DEF FetchPage, NoRequest
        <3> QED
            BY <1>1, <2>2, <3>1 DEF FetchPage, RequestSound
    <2>3. ASSUME request'[s].cursor = request[s].cursor, request[s].phase # "none",
                 request'[s].phase \in {"read", "answered"}
                     => PageFrom(request[s].cursor, request'[s].page)
          PROVE  RequestSound(s)'
        BY <1>1, <2>3 DEF DriftInv, RequestSound
    <2>4. CASE Lookup(s)
        <3>1. CASE cache[PageKey(s)] = Nil
            <4>1. request'[s] = [request[s] EXCEPT !.phase = "missed"]
                BY <1>2, <2>4, <3>1 DEF Lookup
            <4>2. request'[s].cursor = request[s].cursor /\ request'[s].phase = "missed"
                BY <4>1 DEF DriftInv, StreamTypeOK, Request
            <4> QED
                BY <2>3, <2>4, <4>2 DEF Lookup
        <3>2. CASE cache[PageKey(s)] # Nil
            <4>1. request'[s] = [request[s] EXCEPT !.phase = "answered",
                                    !.page = cache[PageKey(s)], !.more = FALSE]
                BY <1>2, <2>4, <3>2 DEF Lookup
            <4>2. /\ request'[s].cursor = request[s].cursor
                  /\ request'[s].page = cache[PageKey(s)]
                BY <4>1 DEF DriftInv, StreamTypeOK, Request
            <4>3. PageFrom(request[s].cursor, cache[PageKey(s)])
                BY <1>2, <3>2 DEF DriftInv, CacheSound
            <4> QED
                BY <2>3, <2>4, <4>2, <4>3 DEF Lookup
        <3> QED
            BY <3>1, <3>2
    <2>5. CASE LookupFails(s)
        <3>1. request'[s] = [request[s] EXCEPT !.phase = "missed"]
            BY <1>2, <2>5 DEF LookupFails
        <3>2. request'[s].cursor = request[s].cursor /\ request'[s].phase = "missed"
            BY <3>1 DEF DriftInv, StreamTypeOK, Request
        <3> QED
            BY <2>3, <2>5, <3>2 DEF LookupFails
    <2>6. CASE Read(s)
        <3> DEFINE rows == ListMessages(request[s].cursor, All, n)
        <3>1. PageFrom(request[s].cursor, rows.page)
            BY <1>2, TablePage DEF DriftInv
        <3>2. Filter[s[1]] = All
            BY SlotFacts DEF Unfiltered
        <3>3. request'[s] = [request[s] EXCEPT !.phase = "read",
                                 !.page = rows.page, !.more = rows.more]
            BY <1>2, <2>6, <3>2 DEF Read
        <3> HIDE DEF rows
        <3>4. request'[s].cursor = request[s].cursor /\ request'[s].page = rows.page
            BY <3>3 DEF DriftInv, StreamTypeOK, Request
        <3> QED
            BY <2>3, <2>6, <3>1, <3>4 DEF Read
    <2>7. CASE Fill(s)
        <3>1. request'[s] = [request[s] EXCEPT !.phase = "answered"]
            BY <1>2, <2>7 DEF Fill
        <3>2. /\ request'[s].cursor = request[s].cursor
              /\ request'[s].page = request[s].page
            BY <3>1 DEF DriftInv, StreamTypeOK, Request
        <3>3. PageFrom(request[s].cursor, request[s].page)
            BY <2>7 DEF Fill, DriftInv, RequestSound
        <3> QED
            BY <2>3, <2>7, <3>2, <3>3 DEF Fill
    <2> QED
        BY <2>1, <2>2, <2>4, <2>5, <2>6, <2>7
<1> QED
    BY <1>1, <1>3, <1>4, <1>5, RequestKeepsDrift

\* The page continues the list: it starts below its end.
LEMMA Continued ==
    ASSUME NEW old \in Seq(MsgIds), NEW n \in Nat, NEW page \in Pages(n), NEW cursor,
           PageFrom(cursor, page),
           IF cursor = Nil THEN old = <<>> ELSE old # <<>> /\ cursor = Last(old),
           \A i, j \in DOMAIN old : i < j => old[i] > old[j],
           \A e \in 1..Early : \/ \E i \in DOMAIN old : old[i] = e
                               \/ \A i \in DOMAIN old : old[i] > e
    PROVE  LET new == old \o page IN
           /\ \A i, j \in DOMAIN new : i < j => new[i] > new[j]
           /\ \A e \in 1..Early : \/ \E i \in DOMAIN new : new[i] = e
                                  \/ \A i \in DOMAIN new : new[i] > e
           /\ page # <<>> => new # <<>> /\ Last(new) = Last(page)
<1> DEFINE new == old \o page
           a == Len(old)
           b == Len(page)
<1>1. /\ DOMAIN old = 1 .. a /\ a \in Nat
      /\ DOMAIN page = 1 .. b /\ b \in Nat
      /\ DOMAIN new = 1 .. a + b /\ new \in Seq(MsgIds)
      /\ \A i \in 1 .. a + b : new[i] = IF i <= a THEN old[i] ELSE page[i - a]
    BY TakenPage
<1>2. /\ \A i \in 1 .. a : new[i] = old[i] /\ old[i] \in MsgIds
      /\ \A i \in 1 .. b : new[a + i] = page[i] /\ page[i] \in MsgIds
      /\ \A i \in 1 .. a + b : i \in 1 .. a \/ i - a \in 1 .. b
    <2>1. page \in Seq(MsgIds)
        BY PageFacts
    <2>2. (\A i \in 1 .. a : old[i] \in MsgIds) /\ (\A i \in 1 .. b : page[i] \in MsgIds)
        BY <1>1, <2>1, ElementOfSeq
    <2> QED
        BY <1>1, <2>2
<1> HIDE DEF new, a, b
<1>3. \A i \in 1 .. a, j \in 1 .. b : old[i] > page[j]
    <2> SUFFICES ASSUME NEW i \in 1 .. a, NEW j \in 1 .. b PROVE old[i] > page[j]
        OBVIOUS
    <2>1. a \in Nat /\ old # <<>> /\ a >= 1
        BY <1>1, EmptySeq DEF a
    <2>2. cursor = old[a] /\ cursor # Nil
        BY <2>1 DEF Last, a
    <2>3. page[j] < old[a]
        BY <1>1, <2>2 DEF PageFrom
    <2>4. old[i] >= old[a]
        <3>1. a \in 1 .. a
            BY <2>1
        <3>2. \A k \in 1 .. a : old[k] \in MsgIds
            BY <1>2
        <3>3. old[i] \in Nat /\ old[a] \in Nat
            BY <3>1, <3>2 DEF MsgIds
        <3>4. i = a \/ i < a
            BY <2>1
        <3>5. i < a => old[i] > old[a]
            BY <1>1, <3>1
        <3>6. old[i] = old[a] \/ old[i] > old[a]
            BY <3>4, <3>5
        <3> QED
            BY <3>3, <3>6
    <2>5. old[i] \in Nat /\ old[a] \in Nat /\ page[j] \in Nat
        <3>1. a \in 1 .. a
            BY <2>1
        <3>2. old[i] \in MsgIds /\ old[a] \in MsgIds /\ page[j] \in MsgIds
            BY <1>2, <3>1
        <3> QED
            BY <3>2 DEF MsgIds
    <2> QED
        BY <2>3, <2>4, <2>5
<1>4. \A i, j \in DOMAIN page : i < j => page[i] > page[j]
    BY PageFacts
<1>5. ASSUME NEW i \in 1 .. a + b, NEW j \in 1 .. a + b, i < j
      PROVE  new[i] > new[j]
    <2>1. CASE j \in 1 .. a
        <3>1. i \in 1 .. a
            BY <1>1, <1>5, <2>1
        <3> QED
            BY <1>1, <1>2, <1>5, <2>1, <3>1
    <2>2. CASE i \in 1 .. a /\ j - a \in 1 .. b
        <3>1. new[i] = old[i] /\ new[j] = page[j - a]
            BY <1>1, <1>2, <2>2
        <3> QED
            BY <1>3, <2>2, <3>1
    <2>3. CASE i - a \in 1 .. b /\ j - a \in 1 .. b
        <3>1. new[i] = page[i - a] /\ new[j] = page[j - a]
            <4>1. a + (i - a) = i /\ a + (j - a) = j
                BY <1>1
            <4>2. new[a + (i - a)] = page[i - a] /\ new[a + (j - a)] = page[j - a]
                BY <1>2, <2>3
            <4> QED
                BY <4>1, <4>2
        <3>2. i - a < j - a
            BY <1>1, <1>5
        <3> QED
            BY <1>1, <1>4, <2>3, <3>1, <3>2
    <2> QED
        BY <1>2, <2>1, <2>2, <2>3
<1>6. ASSUME NEW e \in 1..Early
      PROVE  \/ \E i \in 1 .. a + b : new[i] = e
             \/ \A i \in 1 .. a + b : new[i] > e
    <2>1. CASE \E i \in 1 .. a : old[i] = e
        <3>1. PICK i \in 1 .. a : old[i] = e
            BY <2>1
        <3>2. i \in 1 .. a + b /\ new[i] = e
            BY <1>1, <1>2, <3>1
        <3> QED
            BY <3>2
    <2>2. CASE \A i \in 1 .. a : old[i] > e
        <3>1. ~(cursor # Nil /\ e >= cursor)
            <4>1. CASE cursor # Nil
                <5>1. old # <<>> /\ cursor = Last(old)
                    BY <4>1
                <5>2. a \in 1 .. a /\ cursor = old[a]
                    BY <1>1, <5>1, EmptySeq DEF Last, a
                <5> QED
                    BY <1>2, <2>2, <5>2 DEF MsgIds
            <4> QED
                BY <4>1
        <3>2. CASE \E i \in 1 .. b : page[i] = e
            <4>1. PICK i \in 1 .. b : page[i] = e
                BY <3>2
            <4>2. a + i \in 1 .. a + b /\ new[a + i] = e
                BY <1>1, <1>2, <4>1
            <4> QED
                BY <4>2
        <3>3. CASE \A i \in 1 .. b : page[i] > e
            <4> SUFFICES ASSUME NEW i \in 1 .. a + b PROVE new[i] > e
                OBVIOUS
            <4>1. CASE i \in 1 .. a
                BY <1>2, <2>2, <4>1
            <4>2. CASE i - a \in 1 .. b
                <5>1. a + (i - a) = i
                    BY <1>1
                <5>2. new[i] = page[i - a]
                    BY <1>2, <4>2, <5>1
                <5> QED
                    BY <3>3, <4>2, <5>2
            <4> QED
                BY <1>2, <4>1, <4>2
        <3> QED
            BY <1>1, <3>1, <3>2, <3>3 DEF PageFrom
    <2> QED
        BY <1>1, <2>1, <2>2
<1>7. page # <<>> => new # <<>> /\ Last(new) = Last(page)
    <2> SUFFICES ASSUME page # <<>> PROVE new # <<>> /\ Last(new) = Last(page)
        OBVIOUS
    <2>1. b \in 1 .. b
        BY <1>1, EmptySeq, PageFacts DEF b
    <2>2. new[a + b] = page[b] /\ a + b >= 1
        BY <1>1, <1>2, <2>1
    <2>3. Len(new) = a + b
        BY <1>1, LenProperties
    <2>4. new # <<>>
        BY <1>1, <2>2, <2>3, EmptySeq
    <2> QED
        BY <2>2, <2>3, <2>4 DEF Last, b
<1> QED
    BY <1>1, <1>5, <1>6, <1>7 DEF new

LEMMA AnswersKeepDrift ==
    ASSUME DriftInv, NEW s \in Slots, ShowFindings(s) \/ TakePage(s) \/ Fail(s)
    PROVE  DriftInv'
<1>1. StreamTypeOK' /\ UNCHANGED <<row, cache>> /\ request' = [request EXCEPT ![s] = NoRequest]
    BY AnswersKeepTypes DEF DriftInv, ShowFindings, TakePage, Fail, Settle
<1>2. EarlyThere' /\ CacheSound'
    BY <1>1 DEF DriftInv, EarlyThere, CacheSound
<1>3. DOMAIN request = Slots /\ request'[s] = NoRequest
      /\ \A t \in Slots \ {s} : request'[t] = request[t]
    BY <1>1 DEF DriftInv, StreamTypeOK
<1>4. RequestSound(s)'
    BY <1>3 DEF RequestSound, NoRequest
<1>5. CASE ShowFindings(s) \/ Fail(s)
    <2>1. nextCursor' = nextCursor /\ \A c \in Clients : list'[c] = list[c]
        BY <1>5 DEF ShowFindings, Fail, DriftInv, StreamTypeOK, Readers
    <2>2. ASSUME NEW t \in Slots PROVE RequestSound(t)'
        BY <1>3, <1>4, <2>1 DEF DriftInv, RequestSound
    <2>3. CursorSound' /\ NoPageDrift'
        BY <2>1 DEF DriftInv, CursorSound, NoPageDrift
    <2> QED
        BY <1>1, <1>2, <2>2, <2>3 DEF DriftInv
<1>6. CASE TakePage(s)
    <2> DEFINE c == s[1]
               n == Limit[c]
               page == request[s].page
               cursor == request[s].cursor
               new == list[c] \o page
    <2>1. /\ c \in Clients /\ n \in Nat
          /\ list[c] \in Seq(MsgIds) /\ page \in Pages(n)
        BY <1>6, SlotFacts DEF TakePage, DriftInv, StreamTypeOK, Request, Readers
    <2>2. /\ PageFrom(cursor, page)
          /\ IF cursor = Nil THEN list[c] = <<>> ELSE list[c] # <<>> /\ cursor = Last(list[c])
        BY <1>6, <2>1 DEF TakePage, DriftInv, RequestSound, CursorSound
    <2>3. /\ \A i, j \in DOMAIN list[c] : i < j => list[c][i] > list[c][j]
          /\ \A e \in 1..Early : \/ \E i \in DOMAIN list[c] : list[c][i] = e
                                 \/ \A i \in DOMAIN list[c] : list[c][i] > e
        BY <2>1 DEF DriftInv, NoPageDrift
    <2> HIDE DEF c, n, page, cursor
    <2>4. /\ \A i, j \in DOMAIN new : i < j => new[i] > new[j]
          /\ \A e \in 1..Early : \/ \E i \in DOMAIN new : new[i] = e
                                 \/ \A i \in DOMAIN new : new[i] > e
          /\ page # <<>> => new # <<>> /\ Last(new) = Last(page)
        BY <2>1, <2>2, <2>3, Continued
    <2>5. /\ list' = [list EXCEPT ![c] = new]
          /\ nextCursor' = [nextCursor EXCEPT ![c] = CursorAfter(page)]
        BY <1>6 DEF TakePage, c, page
    <2> HIDE DEF new
    <2>6. /\ list'[c] = new /\ nextCursor'[c] = CursorAfter(page)
          /\ \A d \in Clients \ {c} : list'[d] = list[d] /\ nextCursor'[d] = nextCursor[d]
        BY <2>1, <2>5 DEF DriftInv, StreamTypeOK, Readers
    <2>7. CursorAfter(page) # Nil => page # <<>> /\ CursorAfter(page) = Last(page)
        BY <2>1, PageFacts
    <2>8. CursorSound'
        BY <2>4, <2>6, <2>7 DEF DriftInv, CursorSound
    <2>9. NoPageDrift'
        BY <2>4, <2>6 DEF DriftInv, NoPageDrift
    <2>10. ASSUME NEW t \in Slots PROVE RequestSound(t)'
        <3>1. CASE t = s
            BY <1>4, <3>1
        <3>2. CASE t # s
            <4>1. ~(t[1] \in Clients /\ t[1] = c)
                BY <3>2 DEF c
            <4> QED
                BY <1>3, <2>6, <3>2, <4>1 DEF DriftInv, RequestSound
        <3> QED
            BY <3>1, <3>2
    <2> QED
        BY <1>1, <1>2, <2>8, <2>9, <2>10 DEF DriftInv
<1> QED
    BY <1>5, <1>6

LEMMA DriftStep == Unfiltered /\ DriftInv /\ [StreamNext]_streamVars => DriftInv'
<1> SUFFICES ASSUME Unfiltered, DriftInv, [StreamNext]_streamVars PROVE DriftInv'
    OBVIOUS
<1>1. CASE UNCHANGED streamVars
    <2>1. StreamTypeOK'
        BY <1>1, TypeStep DEF DriftInv
    <2> QED
        BY <1>1, <2>1 DEF streamVars, readerVars, DriftInv, EarlyThere, CacheSound,
                          RequestSound, CursorSound, NoPageDrift
<1> QED
    BY <1>1, TableKeepsDrift, GetPageKeepsDrift, AnswersKeepDrift DEF StreamNext

\* Where no one asks for one agent's messages (whose pages would be found
\* under the same keys), a client that pages through the stream gets no message
\* twice or out of order and passes over none that was there from the start,
\* for every interleaving of inserts, late commits, other readers and the cache.
THEOREM PagingDoesNotDrift == Unfiltered => (StreamSpec => []NoPageDrift)
<1> SUFFICES ASSUME Unfiltered PROVE StreamSpec => []NoPageDrift
    OBVIOUS
<1>1. DriftInv /\ [StreamNext]_streamVars => DriftInv'
    BY DriftStep
<1>2. DriftInv => NoPageDrift
    BY DEF DriftInv
<1> QED
    BY <1>1, <1>2, DriftInitial, PTL DEF StreamSpec

=============================================================================
