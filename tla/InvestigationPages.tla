------------------------- MODULE InvestigationPages -------------------------
(***************************************************************************)
(* One tab on the pages of the investigations: the landing page, the       *)
(* dashboard, the list and the report.  They talk to the server with       *)
(* fetch, without lib/api, so that there is no mock and no look at the     *)
(* status of an answer: an error body is data.                             *)
(*                                                                         *)
(* The status of an investigation is driven by the runtime (see            *)
(* Orchestrator); its stages are here in_progress, consensus, reported     *)
(* (status consensus, the report is stored) and complete.                  *)
(***************************************************************************)
EXTENDS ApiClient, Sequences, FiniteSets, FiniteSetsExt

CONSTANTS
    Ids,        \* bound: investigations, in the order in which they are made
    Posts       \* places for POST /investigations requests under way

\* Neither null nor an error body is an investigation.
ASSUME InvestigationPagesAssumption ==
    /\ Ids \subseteq Nat
    /\ {Nil, Refused}
          \cap [id : Ids, status : {"in_progress", "consensus", "complete"}] = {}

VARIABLES
    stage,      \* stage[i]: of investigation i, on the server
    screen,     \* the page of the tab, and the investigation in its address
    question,   \* `question` of the dashboard is not blank
    activeInv,  \* `activeInv`
    recent,     \* `investigations`, of the dashboard and of the list
    reportView, \* what the report page shows
    fetch,        \* the GET of the page, under way
    posts,      \* posts[p]: a POST /investigations
    trigger,    \* a POST /investigations/:id/consensus
    refused     \* some POST /investigations was refused

tabVars == <<question, activeInv, recent, reportView>>
investigationPagesVars == <<stage, screen, tabVars, fetch, posts, trigger, refused>>

Stages == {"none", "in_progress", "consensus", "reported", "complete"}
Status(s) == IF s = "reported" THEN "consensus" ELSE s
Bodies == [Ids -> Stages] \cup {Refused}

On(name) == [name |-> name, id |-> 0]
Report(i) == [name |-> "report", id |-> i]
Active(i, status) == [id |-> i, status |-> status]
Screens == {On(n) : n \in {"landing", "dashboard", "list", "crashed"}}
               \cup {Report(i) : i \in Ids}

NoFetch == [phase |-> "none", body |-> Refused]
NewFetch == [NoFetch EXCEPT !.phase = "sent"]
NoPost == [phase |-> "none", id |-> 0, here |-> FALSE]
NoTrigger == [phase |-> "none", id |-> 0]

InvestigationPagesTypeOK ==
    /\ stage \in [Ids -> Stages]
    /\ screen \in Screens
    /\ question \in BOOLEAN
    /\ activeInv \in {Nil, Refused} \cup
                     [id : Ids, status : {"in_progress", "consensus", "complete"}]
    /\ recent \in [Ids -> Stages]
    /\ reportView \in {"loading", "not found", "bare"} \cup Stages
    /\ fetch \in [phase : {"none", "sent", "served"}, body : Bodies]
    /\ posts \in [Posts -> [phase : {"none", "sent", "served", "refused"},
                            id : Ids \cup {0}, here : BOOLEAN]]
    /\ trigger \in [phase : {"none", "sent", "read", "served"}, id : Ids \cup {0}]
    /\ refused \in BOOLEAN

NoRows == [i \in Ids |-> "none"]

\* The tab is opened on the landing page or on the address of a report.
InvestigationPagesInit ==
    /\ stage = NoRows
    /\ screen \in {On("landing")} \cup {Report(i) : i \in Ids}
    /\ question = FALSE /\ activeInv = Nil /\ recent = NoRows
    /\ reportView = "loading"
    /\ fetch = IF screen.name = "report" THEN NewFetch ELSE NoFetch
    /\ posts = [p \in Posts |-> NoPost]
    /\ trigger = NoTrigger
    /\ refused = FALSE

-----------------------------------------------------------------------------
(* The server.                                                             *)

\* The orchestrator: consensus, report, complete.
Advance(i) ==
    /\ \/ stage[i] = "in_progress" /\ stage' = [stage EXCEPT ![i] = "consensus"]
       \/ stage[i] = "consensus" /\ stage' = [stage EXCEPT ![i] = "reported"]
       \/ stage[i] = "reported" /\ stage' = [stage EXCEPT ![i] = "complete"]
    /\ UNCHANGED <<screen, tabVars, fetch, posts, trigger, refused, clientVars>>

\* The query of ListInvestigations numbers LIMIT and OFFSET $2 and $3 and has
\* one argument less when there is no status to filter by.
Placeholders(filtered) == {2, 3} \cup (IF filtered THEN {1} ELSE {})
Arguments(filtered) == IF filtered THEN 3 ELSE 2
QueryRuns(filtered) == Placeholders(filtered) = 1..Arguments(filtered)

\* GET /investigations: every page calls it without a status.
ListInvestigations == IF QueryRuns(FALSE) THEN stage ELSE Refused

\* GET /investigations/:id.
GetInvestigation(i) ==
    IF stage[i] = "none" THEN Refused ELSE [NoRows EXCEPT ![i] = stage[i]]

FetchServed ==
    /\ fetch.phase = "sent"
    /\ fetch' = [phase |-> "served",
               body |-> IF screen.name = "report" THEN GetInvestigation(screen.id)
                        ELSE ListInvestigations]
    /\ UNCHANGED <<stage, screen, tabVars, posts, trigger, refused, clientVars>>

\* Handler.CreateInvestigation: the row is in_progress when it appears.
PostServed(p) ==
    /\ posts[p].phase = "sent"
    /\ \E i \in Ids :
          /\ stage[i] = "none" /\ \A j \in Ids : j < i => stage[j] # "none"
          /\ stage' = [stage EXCEPT ![i] = "in_progress"]
          /\ posts' = [posts EXCEPT ![p].phase = "served", ![p].id = i]
    /\ UNCHANGED <<screen, tabVars, fetch, trigger, refused, clientVars>>

PostRefused(p) ==
    /\ posts[p].phase = "sent"
    /\ posts' = [posts EXCEPT ![p].phase = "refused"]
    /\ refused' = TRUE
    /\ UNCHANGED <<stage, screen, tabVars, fetch, trigger, clientVars>>

\* Handler.TriggerConsensus reads the status and refuses if it is complete.
TriggerRead ==
    /\ trigger.phase = "sent"
    /\ trigger' = [trigger EXCEPT !.phase = IF stage[trigger.id] = "complete"
                                            THEN "served" ELSE "read"]
    /\ UNCHANGED <<stage, screen, tabVars, fetch, posts, refused, clientVars>>

\* Then it writes the status, over whatever it is by now.
TriggerWritten ==
    /\ trigger.phase = "read"
    /\ trigger' = [trigger EXCEPT !.phase = "served"]
    /\ stage' = [stage EXCEPT ![trigger.id] =
                    IF @ \in {"reported", "complete"} THEN "reported" ELSE "consensus"]
    /\ UNCHANGED <<screen, tabVars, fetch, posts, refused, clientVars>>

-----------------------------------------------------------------------------
(* Navigation: the state of the page is left behind, answers that come     *)
(* later find nobody.                                                      *)

Go(to, asked) ==
    /\ screen' = to
    /\ question' = asked
    /\ activeInv' = Nil /\ recent' = NoRows /\ reportView' = "loading"
    /\ fetch' = IF to.name = "landing" THEN NoFetch ELSE NewFetch
    /\ posts' = [p \in Posts |-> [posts[p] EXCEPT !.here = FALSE]]
    /\ trigger' = IF trigger.phase \in {"sent", "read"} THEN trigger ELSE NoTrigger
    /\ UNCHANGED <<stage, refused, clientVars>>

\* handleSubmit and pickTemplate of the landing page: /dashboard?q=..
Investigate == screen = On("landing") /\ Go(On("dashboard"), TRUE)

\* A row of the list goes to the report of a complete investigation, or else
\* to /dashboard?inv=.., whose parameter the dashboard does not read.
RowLink(i) == IF Status(recent[i]) = "complete" THEN Report(i) ELSE On("dashboard")

Listed == {i \in Ids : recent[i] # "none"}

\* The links of each page: those of the header, the rows of the list, "Recent
\* Investigations" while there is no active one, "View Report".
Links ==
    CASE screen.name = "landing" -> {On("list")}
      [] screen.name = "list" ->
            {On("landing"), On("dashboard")} \cup {RowLink(i) : i \in Listed}
      [] screen.name = "dashboard" ->
            {On("landing"), On("list")}
                \cup {Report(i) : i \in IF activeInv = Nil THEN Listed ELSE {}}
                \cup {Report(i) : i \in {k \in Ids : activeInv = Active(k, "complete")}}
      [] screen.name = "report" ->
            IF reportView \in {"loading", "not found"} THEN {On("landing")}
            ELSE {On("landing"), On("list"), On("dashboard")}
      [] OTHER -> {}

FollowLink == \E to \in Links : Go(to, FALSE)

-----------------------------------------------------------------------------
(* The pages.                                                              *)

UnchangedByPage == UNCHANGED <<stage, refused, clientVars>>

\* Setting activeInv draws the card, and a body without a status throws.
SetActive(inv) ==
    /\ activeInv' = inv
    /\ screen' = IF inv = Refused THEN On("crashed") ELSE screen

\* fetchInvestigations.  Bound: while one is under way, no other is sent.
FetchInvestigations == fetch' = IF fetch = NoFetch THEN NewFetch ELSE fetch

\* The interval, which the effect keeps while the shown status is open.
PollInvestigations ==
    /\ screen = On("dashboard") /\ fetch = NoFetch
    /\ activeInv \notin {Nil, Refused}
    /\ activeInv.status \in {"in_progress", "consensus"}
    /\ FetchInvestigations
    /\ UNCHANGED <<screen, tabVars, posts, trigger>> /\ UnchangedByPage

\* The newest of a list that is not complete, or Nil.
FindActive(list) ==
    LET open == {i \in Ids : list[i] \notin {"none", "complete"}} IN
    IF open = {} THEN Nil ELSE Active(Max(open), Status(list[Max(open)]))

\* data.investigations || [], and data.investigations?.find.
Listing(body) == IF body = Refused THEN NoRows ELSE body

\* Bug variant: whatever came is taken for the active investigation.
DashboardListedUnchecked ==
    /\ screen = On("dashboard") /\ fetch.phase = "served"
    /\ recent' = Listing(fetch.body)
    /\ SetActive(fetch.body)
    /\ fetch' = NoFetch
    /\ UNCHANGED <<question, reportView, posts, trigger>> /\ UnchangedByPage

DashboardListed ==
    LET active == FindActive(Listing(fetch.body)) IN
    /\ screen = On("dashboard") /\ fetch.phase = "served"
    /\ recent' = Listing(fetch.body)
    /\ IF active = Nil THEN UNCHANGED <<activeInv, screen>> ELSE SetActive(active)
    /\ fetch' = NoFetch
    /\ UNCHANGED <<question, reportView, posts, trigger>> /\ UnchangedByPage

ListListed ==
    /\ screen = On("list") /\ fetch.phase = "served"
    /\ recent' = Listing(fetch.body)
    /\ fetch' = NoFetch
    /\ UNCHANGED <<screen, question, activeInv, reportView, posts, trigger>>
    /\ UnchangedByPage

\* setInv(invData), once: an error body is an investigation without anything.
ReportLoaded ==
    /\ screen.name = "report" /\ fetch.phase = "served"
    /\ reportView' = IF fetch.body = Refused THEN "bare" ELSE fetch.body[screen.id]
    /\ fetch' = NoFetch
    /\ UNCHANGED <<screen, question, activeInv, recent, posts, trigger>>
    /\ UnchangedByPage

\* The catch of the dashboard, the `finally` of the list and of the report.
FetchFails ==
    /\ fetch # NoFetch
    /\ RequestFails
    /\ fetch' = NoFetch
    /\ reportView' = IF screen.name = "report" THEN "not found" ELSE reportView
    /\ UNCHANGED <<stage, screen, question, activeInv, recent, posts, trigger, refused>>

TypeQuestion ==
    /\ screen = On("dashboard")
    /\ question' = TRUE
    /\ UNCHANGED <<screen, activeInv, recent, reportView, fetch, posts, trigger>>
    /\ UnchangedByPage

\* The button, or Enter: as often as the question is there.
StartInvestigation(p) ==
    /\ screen = On("dashboard") /\ question
    /\ posts[p] = NoPost
    /\ posts' = [posts EXCEPT ![p] = [phase |-> "sent", id |-> 0, here |-> TRUE]]
    /\ UNCHANGED <<screen, tabVars, fetch, trigger>> /\ UnchangedByPage

\* The answer of a POST, whatever it is, becomes the investigation shown.
PostAnswered(p) ==
    LET inv == IF posts[p].phase = "refused" THEN Refused
               ELSE Active(posts[p].id, "in_progress")
    IN
    /\ posts[p].phase \in {"served", "refused"}
    /\ posts' = [posts EXCEPT ![p] = NoPost]
    /\ IF posts[p].here /\ screen = On("dashboard")
       THEN SetActive(inv) /\ question' = FALSE /\ FetchInvestigations
       ELSE UNCHANGED <<activeInv, screen, question, fetch>>
    /\ UNCHANGED <<recent, reportView, trigger>> /\ UnchangedByPage

PostFails(p) ==
    /\ posts[p] # NoPost
    /\ RequestFails
    /\ posts' = [posts EXCEPT ![p] = NoPost]
    /\ UNCHANGED <<stage, screen, tabVars, fetch, trigger, refused>>

\* "Generate Report".
TriggerConsensus ==
    /\ screen = On("dashboard") /\ trigger = NoTrigger
    /\ activeInv \notin {Nil, Refused} /\ activeInv.status = "in_progress"
    /\ trigger' = [phase |-> "sent", id |-> activeInv.id]
    /\ UNCHANGED <<screen, tabVars, fetch, posts>> /\ UnchangedByPage

TriggerAnswered ==
    /\ trigger.phase = "served"
    /\ trigger' = NoTrigger
    /\ IF screen = On("dashboard") THEN FetchInvestigations ELSE UNCHANGED fetch
    /\ UNCHANGED <<screen, tabVars, posts>> /\ UnchangedByPage

\* The catch: nothing.
TriggerFails ==
    /\ trigger # NoTrigger
    /\ RequestFails
    /\ trigger' = NoTrigger
    /\ UNCHANGED <<stage, screen, tabVars, fetch, posts, refused>>

InvestigationPagesNext ==
    \/ \E i \in Ids : Advance(i)
    \/ FetchServed
    \/ TriggerRead
    \/ TriggerWritten
    \/ Investigate
    \/ FollowLink
    \/ PollInvestigations
    \/ DashboardListed
    \/ ListListed
    \/ ReportLoaded
    \/ FetchFails
    \/ TypeQuestion
    \/ TriggerConsensus
    \/ TriggerAnswered
    \/ TriggerFails
    \/ \E p \in Posts :
          \/ StartInvestigation(p)
          \/ PostServed(p)
          \/ PostRefused(p)
          \/ PostAnswered(p)
          \/ PostFails(p)

-----------------------------------------------------------------------------
\* The dashboard breaks only when the server refuses a new investigation, the
\* one body without a status that becomes activeInv.
CrashOnlyAfterRefusal == screen = On("crashed") => refused

\* pivot.md, phase 4: the page of the list and the dashboard list the
\* investigations; an answer to them is a list, if maybe an empty one.
ListsAreAnswered ==
    (fetch.phase = "served" /\ screen.name # "report") => fetch.body # Refused

=============================================================================
