---------------------------- MODULE MessageStream ----------------------------
(***************************************************************************)
(* The message stream: ListMessages reads a page of the table (keyset on   *)
(* created_at and id), stream.GetPage keeps pages in Redis, and two kinds  *)
(* of readers ask for them with a key.  The dashboard asks for the newest  *)
(* page on a timer; a client of the HTTP interface pages from the newest   *)
(* message to the oldest (README.md, Cursor Pagination).                   *)
(*                                                                         *)
(* A message is its place in the order of (created_at, id).  created_at is *)
(* the start of the inserting transaction, so messages become visible in   *)
(* any order.  Requests overtake each other on the way to the server, at   *)
(* the server and on the way back.                                         *)
(***************************************************************************)
EXTENDS Naturals, Sequences, FiniteSets, SequencesExt

CONSTANTS
    MaxMessages,  \* bound: messages written
    Early,        \* of these, the number that is there from the start
    Author,       \* Author[m]: the agent who writes message m
    Dashboards,   \* dashboards that poll
    Clients,      \* programs that page through the stream
    Limit,        \* Limit[r]: the limit that reader r asks for
    Filter,       \* Filter[r]: the agent_id that reader r asks for, or All
    Slots,        \* places for requests under way: <<reader, n>>
    All,          \* no agent_id
    Nil,          \* no cursor, no page
    RedisFails,   \* Redis may refuse a read or a write
    MaxFails      \* bound: requests that fail on the way or at the server

Readers == Dashboards \cup Clients

ASSUME MessagesAssumption ==
    /\ MaxMessages \in Nat /\ Early \in 0..MaxMessages
    /\ Nil \notin Nat

ASSUME ReadersAssumption ==
    /\ Dashboards \cap Clients = {}
    /\ Limit \in [Readers -> Nat \ {0}]
    /\ Filter \in [Readers -> {All} \cup {Author[m] : m \in 1..MaxMessages}]
    /\ \A d \in Dashboards : Filter[d] = All
    /\ Slots \subseteq Readers \X Nat
    /\ \A s, t \in Slots : s[1] = t[1] /\ s[1] \in Clients => s = t
    /\ RedisFails \in BOOLEAN
    /\ MaxFails \in Nat

VARIABLES
    row,         \* row[m]: "none", "open" (inserted, not committed) or "visible"
    cache,       \* cache[k]: the page that Redis has under key k, or Nil
    request,     \* request[s]: the request in slot s
    list,        \* list[r]: `findings` of a dashboard, all that a client has got
    nextCursor,  \* nextCursor[c]: next_cursor as last answered, Nil for ""
    hasMore,     \* hasMore[c]: has_more as last answered
    fails        \* requests that have failed so far

readerVars == <<list, nextCursor, hasMore>>
streamVars == <<row, cache, request, readerVars, fails>>

MsgIds == 1..MaxMessages
Cursors == MsgIds \cup {Nil}
Limits == {Limit[r] : r \in Readers}

\* What a page of at most n rows can be.
Pages(n) ==
    {p \in UNION {[1..k -> MsgIds] : k \in 0..n} :
        \A i, j \in DOMAIN p : i < j => p[i] > p[j]}

NoRequest == [phase |-> "none", cursor |-> Nil, page |-> <<>>, more |-> FALSE]
Request(r) == [phase : {"none", "asked", "missed", "read", "answered"},
               cursor : Cursors, page : Pages(Limit[r]), more : BOOLEAN]

StreamTypeOK ==
    /\ row \in [MsgIds -> {"none", "open", "visible"}]
    /\ DOMAIN cache = Cursors \X Limits
    /\ \A c \in Cursors, n \in Limits : cache[<<c, n>>] \in Pages(n) \cup {Nil}
    /\ DOMAIN request = Slots
    /\ \A s \in Slots : request[s] \in Request(s[1])
    /\ list \in [Readers -> Seq(MsgIds)]
    /\ \A d \in Dashboards : list[d] \in Pages(Limit[d])
    /\ nextCursor \in [Clients -> Cursors]
    /\ hasMore \in [Clients -> BOOLEAN]
    /\ fails \in 0..MaxFails

StreamInit ==
    /\ row = [m \in MsgIds |-> IF m <= Early THEN "visible" ELSE "none"]
    /\ cache = [k \in Cursors \X Limits |-> Nil]
    /\ request = [s \in Slots |-> NoRequest]
    /\ list = [r \in Readers |-> <<>>]
    /\ nextCursor = [c \in Clients |-> Nil]
    /\ hasMore = [c \in Clients |-> TRUE]
    /\ fails = 0

-----------------------------------------------------------------------------
(* The table.                                                              *)

\* An agent's insert takes created_at: after every one that began before.
BeginInsert(m) ==
    /\ row[m] = "none"
    /\ \A k \in MsgIds : k < m => row[k] # "none"
    /\ row' = [row EXCEPT ![m] = "open"]
    /\ UNCHANGED <<cache, request, readerVars, fails>>

CommitInsert(m) ==
    /\ row[m] = "open"
    /\ row' = [row EXCEPT ![m] = "visible"]
    /\ UNCHANGED <<cache, request, readerVars, fails>>

\* The rows of the query of ListMessages, without its LIMIT.
Matching(cursor, agent) ==
    {m \in MsgIds : /\ row[m] = "visible"
                    /\ cursor # Nil => m < cursor
                    /\ agent # All => Author[m] = agent}

\* The first n of a set of rows, in descending order.
Newest(S, n) ==
    LET k == IF Cardinality(S) < n THEN Cardinality(S) ELSE n IN
    [i \in 1..k |-> CHOOSE m \in S : Cardinality({x \in S : x > m}) = i - 1]

\* Bug variant: the row that was read to know whether there are more is answered.
ListMessagesUntrimmed(cursor, agent, limit) ==
    [page |-> Newest(Matching(cursor, agent), limit + 1),
     more |-> Cardinality(Matching(cursor, agent)) > limit]

\* limit + 1 rows are read to know whether there are more than limit.
ListMessages(cursor, agent, limit) ==
    [page |-> Newest(Matching(cursor, agent), limit),
     more |-> Cardinality(Matching(cursor, agent)) > limit]

\* The cursor of the last row of a page, "" for none.
CursorAfter(page) == IF page = <<>> THEN Nil ELSE Last(page)

-----------------------------------------------------------------------------
(* The requests.                                                           *)

\* fetchFindings of a dashboard, by its timer, whatever is under way.
FetchFindings(s) ==
    /\ s[1] \in Dashboards
    /\ request[s].phase = "none"
    /\ request' = [request EXCEPT ![s] = [NoRequest EXCEPT !.phase = "asked"]]
    /\ UNCHANGED <<row, cache, readerVars, fails>>

\* A client asks for the first page, then for the next one as long as it has
\* a cursor.
FetchPage(s) ==
    LET c == s[1] IN
    /\ c \in Clients
    /\ request[s].phase = "none"
    /\ nextCursor[c] # Nil \/ list[c] = <<>>
    /\ request' = [request EXCEPT ![s] = [NoRequest EXCEPT !.phase = "asked",
                                                           !.cursor = nextCursor[c]]]
    /\ UNCHANGED <<row, cache, readerVars, fails>>

-----------------------------------------------------------------------------
(* stream.GetPage, one step per access to Redis or to the table.           *)

\* Bug variant: the key is the limit alone.
PageKeyOfLimit(s) == <<Nil, Limit[s[1]]>>

\* pageKey: the cursor and the limit.
PageKey(s) == <<request[s].cursor, Limit[s[1]]>>

\* A page that is found is answered with has_more = false, whatever follows it.
Lookup(s) ==
    /\ request[s].phase = "asked"
    /\ request' =
          [request EXCEPT ![s] =
              IF cache[PageKey(s)] # Nil
              THEN [@ EXCEPT !.phase = "answered", !.page = cache[PageKey(s)], !.more = FALSE]
              ELSE [@ EXCEPT !.phase = "missed"]]
    /\ UNCHANGED <<row, cache, readerVars, fails>>

\* An error of Redis is a miss.
LookupFails(s) ==
    /\ RedisFails
    /\ request[s].phase = "asked"
    /\ request' = [request EXCEPT ![s].phase = "missed"]
    /\ UNCHANGED <<row, cache, readerVars, fails>>

Read(s) ==
    /\ request[s].phase = "missed"
    /\ LET rows == ListMessages(request[s].cursor, Filter[s[1]], Limit[s[1]]) IN
       request' = [request EXCEPT ![s] = [@ EXCEPT !.phase = "read",
                                                   !.page = rows.page, !.more = rows.more]]
    /\ UNCHANGED <<row, cache, readerVars, fails>>

\* SetPage; when Redis refuses it, the answer is the same.
Fill(s) ==
    /\ request[s].phase = "read"
    /\ request' = [request EXCEPT ![s].phase = "answered"]
    /\ \/ cache' = [cache EXCEPT ![PageKey(s)] = request[s].page]
       \/ RedisFails /\ UNCHANGED cache
    /\ UNCHANGED <<row, readerVars, fails>>

\* Bug variant: pages are stored without a time to live.
ExpireNever(k) == cache[k] = Nil /\ cache[k] # Nil /\ UNCHANGED streamVars

\* cacheTTL is over.
Expire(k) ==
    /\ cache[k] # Nil
    /\ cache' = [cache EXCEPT ![k] = Nil]
    /\ UNCHANGED <<row, request, readerVars, fails>>

-----------------------------------------------------------------------------
(* The answers.                                                            *)

Settle(s) == request' = [request EXCEPT ![s] = NoRequest]

\* setFindings, in whatever order the answers come.
ShowFindings(s) ==
    /\ s[1] \in Dashboards
    /\ request[s].phase = "answered"
    /\ list' = [list EXCEPT ![s[1]] = request[s].page]
    /\ Settle(s)
    /\ UNCHANGED <<row, cache, nextCursor, hasMore, fails>>

TakePage(s) ==
    LET c == s[1] IN
    /\ c \in Clients
    /\ request[s].phase = "answered"
    /\ list' = [list EXCEPT ![c] = @ \o request[s].page]
    /\ nextCursor' = [nextCursor EXCEPT ![c] = CursorAfter(request[s].page)]
    /\ hasMore' = [hasMore EXCEPT ![c] = request[s].more]
    /\ Settle(s)
    /\ UNCHANGED <<row, cache, fails>>

\* The network loses a request or its answer, or the table cannot be read: a
\* dashboard finds no `messages` in the body of an error, and shows none.
Fail(s) ==
    /\ request[s].phase # "none"
    /\ fails < MaxFails
    /\ fails' = fails + 1
    /\ \/ UNCHANGED list
       \/ /\ s[1] \in Dashboards /\ request[s].phase = "missed"
          /\ list' = [list EXCEPT ![s[1]] = <<>>]
    /\ Settle(s)
    /\ UNCHANGED <<row, cache, nextCursor, hasMore>>

StreamNext ==
    \/ \E m \in MsgIds : BeginInsert(m) \/ CommitInsert(m)
    \/ \E k \in Cursors \X Limits : Expire(k)
    \/ \E s \in Slots :
          \/ FetchFindings(s)
          \/ FetchPage(s)
          \/ Lookup(s)
          \/ LookupFails(s)
          \/ Read(s)
          \/ Fill(s)
          \/ ShowFindings(s)
          \/ TakePage(s)
          \/ Fail(s)

StreamSpec == StreamInit /\ [][StreamNext]_streamVars

\* The timer of a dashboard fires, the server works on what it was asked, its
\* answers arrive and entries of the cache run out.  Nothing is assumed of
\* agents and clients.
StreamFairness ==
    /\ \A s \in Slots :
          WF_streamVars(s[1] \in Dashboards /\
                        (FetchFindings(s) \/ Lookup(s) \/ Read(s) \/ Fill(s) \/ ShowFindings(s)))
    /\ \A k \in Cursors \X Limits : WF_streamVars(Expire(k))

-----------------------------------------------------------------------------
\* spec.md, D019: paging is "stable under insertion (no page drift ...)".  A
\* client never gets a message twice or out of order, and passes over none
\* that was there when it began, although messages are written and commit
\* late meanwhile, and some pages come from the cache, filled at other times
\* and by other readers, and some from the table.
NoPageDrift ==
    \A c \in Clients :
        /\ \A i, j \in DOMAIN list[c] : i < j => list[c][i] > list[c][j]
        /\ \A e \in 1..Early :
              \/ \E i \in DOMAIN list[c] : list[c][i] = e
              \/ \A i \in DOMAIN list[c] : list[c][i] > e

\* When no message is written any more, a dashboard that polls shows the
\* newest page for good, although answers overtake each other, slow requests
\* put old pages into the cache and a page may be cached while a late commit
\* is missing from it.
DashboardSettles ==
    <>[]\A d \in Dashboards : list[d] = Newest(Matching(Nil, All), Limit[d])

\* README.md: has_more is "true if more pages exist"; a client that is told
\* that there are none has all messages that were there when it began.
HasMoreIsTrue ==
    \A c \in Clients :
        hasMore[c] \/ 1..Early \subseteq ToSet(list[c])

\* frontend-prompt.md: the stream of an agent holds that agent's messages.
FilterHonoured ==
    \A r \in Readers : \A i \in DOMAIN list[r] :
        Filter[r] # All => Author[list[r][i]] = Filter[r]

=============================================================================
