------------------------------ MODULE StreamPage ------------------------------
(***************************************************************************)
(* app/stream/page.tsx with useMessages: the latest page is asked for on a *)
(* timer, an older one whenever the sentinel below the list comes into     *)
(* view.  A message is its place in the list of mock.ts, newest first; the *)
(* page shows the first ones, so a number says which.                      *)
(***************************************************************************)
EXTENDS ApiClient

CONSTANTS
    MockMessages,   \* messages of mock.ts
    MockPage        \* messages that it answers

ASSUME StreamPageAssumption ==
    MockMessages \in Nat /\ MockPage \in Nat \ {0} /\ Nil \notin Nat

VARIABLES
    messagesShown,  \* length of `messages`
    streamCursor,   \* `nextCursor`
    streamMore,     \* `hasMore`
    streamLoading, streamError,  \* `loading`, `error` is not null
    streamAsks      \* requests under way: of the timer, of the sentinel

streamPageVars ==
    <<messagesShown, streamCursor, streamMore, streamLoading, streamError, streamAsks>>

StreamPageTypeOK ==
    /\ messagesShown \in 0..MockPage
    /\ streamCursor \in {Nil, MockPage}
    /\ streamMore \in BOOLEAN /\ streamLoading \in BOOLEAN /\ streamError \in BOOLEAN
    /\ streamAsks \subseteq {"latest", "older"}

\* The effect has asked for the latest page.
StreamPageInit ==
    /\ messagesShown = 0 /\ streamCursor = Nil /\ streamMore = TRUE
    /\ streamLoading = TRUE /\ streamError = FALSE
    /\ streamAsks = {"latest"}

FetchLatest ==
    /\ "latest" \notin streamAsks
    /\ streamAsks' = streamAsks \cup {"latest"}
    /\ UNCHANGED <<messagesShown, streamCursor, streamMore, streamLoading, streamError,
                   clientVars>>

LoadMore ==
    /\ "older" \notin streamAsks
    /\ streamCursor # Nil /\ streamMore
    /\ streamAsks' = streamAsks \cup {"older"}
    /\ UNCHANGED <<messagesShown, streamCursor, streamMore, streamLoading, streamError,
                   clientVars>>

\* GET /messages of the mock: the first page, and that there are more.
MockLatest ==
    /\ MockAnswers /\ "latest" \in streamAsks
    /\ messagesShown' = IF MockMessages < MockPage THEN MockMessages ELSE MockPage
    /\ streamCursor' = IF MockMessages > MockPage THEN MockPage ELSE Nil
    /\ streamMore' = (MockMessages > MockPage)
    /\ streamLoading' = FALSE /\ streamError' = FALSE
    /\ streamAsks' = streamAsks \ {"latest"}
    /\ UNCHANGED clientVars

LatestFails ==
    /\ "latest" \in streamAsks
    /\ RequestThrows
    /\ streamLoading' = FALSE /\ streamError' = TRUE
    /\ streamAsks' = streamAsks \ {"latest"}
    /\ UNCHANGED <<messagesShown, streamCursor, streamMore>>

\* The mock has a route for "/messages" and none for the same path with a
\* query: it throws, and loadMore rejects before it sets anything.
MockHasNoRoute ==
    /\ MockAnswers /\ "older" \in streamAsks
    /\ streamAsks' = streamAsks \ {"older"}
    /\ UNCHANGED <<messagesShown, streamCursor, streamMore, streamLoading, streamError,
                   clientVars>>

StreamPageNext == FetchLatest \/ LoadMore \/ MockLatest \/ LatestFails \/ MockHasNoRoute

-----------------------------------------------------------------------------
\* frontend-prompt.md: "infinite scroll via cursor pagination"; the older page
\* that is asked for on scroll comes, or there was none.
ScrollLoadsOlder ==
    [][("older" \in streamAsks /\ "older" \notin streamAsks')
          => (messagesShown' > messagesShown \/ ~streamMore')]_streamPageVars

=============================================================================
