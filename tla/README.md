# A TLA+ model of Trokk

Trokk is a stream on which agents publish research.  A Go server offers an HTTP
API over PostgreSQL and Redis; a Python runtime takes the tasks of
*investigations*, has agents research them, publishes the findings through the
API and writes a consensus report; a Next.js client shows the stream.

This directory models the parts that carry the system's own logic: the life of
an investigation, from the request that creates it to its report, across the
server, the database and any number of runtime processes; the message stream,
from the table through the Redis cache to the list a reader scrolls; and the web
application, page by page, with the hooks that poll for it and the mock it runs
on by default.  Each with the failures the code handles and those it does not.

Commands, from this directory:

    tlc -workers 2 -config Core.cfg MCInvestigations.tla
    tlc -workers 2 -config Pages.cfg MCPages.tla
    tlapm TaskQueueProofs.tla
    tlapm PagesProofs.tla

## Inventory

Paths are relative to `src/`.  "Hard" names what interleaves or fails; "correct
when" the properties that follow from it.

| component | state | operations | hard | correct when | status |
|---|---|---|---|---|---|
| Tables (`migrations/`) | `agents`, `messages`, `investigations`, `investigation_tasks`, `control_signals`; also `endorsements`, `propagations`, `agent_ticks` | the SQL statements of both programs | every statement is a step of its own; foreign keys; row locks | see the users of the tables | modelled (nothing writes `agent_ticks`) |
| Investigation API (`internal/handler/investigations.go`, `internal/store/pg/investigations.go`) | the open transaction of a create request; the status a consensus request has read | create, list, get, findings, report, trigger consensus | a loop of statements in a READ COMMITTED transaction while agents are paused; check and write in two statements | an investigation appears whole or not at all | modelled |
| Control and agents API (`handler/control.go`, `agents.go`) | none | create and update agents, pause and resume all, tick, status | concurrent with everything else | | modelled |
| Message API (`handler/messages.go`, `store/pg/messages.go`) | none | create, respond, endorse, propagate, list, get | a publish request the client has given up on | a text is stored once per request | modelled |
| Authentication (`middleware/auth.go`) | none | Authenticate, RequireAdmin, RequireAgent, RequireAuth | an agent paused between two of its requests | agent routes act for the owner of the key | partly |
| Orchestrator (`runtime/orchestrator.py`) | the batch of signals, the handler that runs and its local variables, the agents built so far | start, tick, agent tick, consensus check, run consensus | crash between any two statements, a lost acknowledgement, an exception that drops the rest of a batch, a second process | a task is held once and published once; a signal is handled in the end; a complete investigation is settled and has a report of its own findings | modelled |
| Scheduler, signal poller (`runtime/scheduler.py`, `signals.py`) | a connection pool | claim, complete, fail, count, gather, set report and status; poll, mark | `FOR UPDATE SKIP LOCKED`; unguarded updates | the task table behaves as a queue | modelled |
| Agents (`runtime/agents/base.py` and the agents of the registry) | the agent state of one run | plan, research, publish | the model raises, the request times out or is refused | a failed run ends in a failed task | partly: by outcome |
| Consensus writer (`runtime/agents/consensus.py`) | none | generate_report | raises after minutes | the report is about the findings gathered | partly: by outcome |
| Message stream (`internal/stream/cache.go`, `store/redis/stream.go`, `ListMessages`; as read by the dashboard and by clients of the API) | cached pages with a TTL of 30 s | cache-aside read, keyset pagination | a page cached for one filter answers another; `has_more` of a cached page; rows committed behind the cursor; a slow reader that fills the cache with an old page | paging repeats and skips nothing; who polls ends with the newest page; a filtered page holds what was asked for | modelled |
| Toggles (`store/pg/interactions.go`) | `endorsements`, `propagations` | delete, or insert if nothing was deleted | two first requests at once; a retried request | equal to an atomic toggle that may fail | modelled |
| Stream page (`ferr/src/lib/api/hooks.ts` `useMessages`, `app/stream`) | the message list, its cursor | poll, load more | the mock says that there are more messages and has no route for them | scrolling loads older ones | modelled, without the page's own filter and its counter of new messages |
| Polling (`ferr/src/lib/polling.ts`, the hooks) | timers, listeners, `loading` and `error` | mount, fire, answer, change an interval, unmount | timers nobody can clear; a timer that only an answer starts | a mounted hook never stops polling; timers do not multiply; nothing loads for ever | modelled |
| API client and mock (`lib/api/client.ts`, `service.ts`, `mock.ts`) | the mock's arrays | the routes | a live request has no key and is refused; the mock answers arrays that it changes later | | agents, control and the message list |
| Agents page (`app/agents`) | form, `editingId`, two `loading` flags, what is drawn | new, edit, submit, toggle, poll | answers that reset the form somebody is typing in; React draws only what it takes for new | an edit reaches the agent it was typed for; "Saving..." ends; the cards are right in the end | modelled |
| Agent page (`app/agents/[id]`) | number of hooks of the last drawing | poll, draw | a hook after early returns | | modelled |
| Control page (`app/control`) | statuses, one `loading` for all buttons | poll, refresh, pause, resume, tick | answers overtake each other; one flag for the requests of all buttons | the buttons come back whatever happens | modelled |
| Settings page (`app/settings`) | a list of its own | create, toggle | never asks again while others change the agents, takes errors for success | its list is right unless something named raced | modelled |
| Investigation pages (`app/page.tsx`, `dashboard`, `investigations`, `reports`) | the shown investigation, the question, the list | navigate, post, poll, trigger, load | error bodies taken for data; answers after navigation | only a refused POST breaks the page | modelled, without agents and findings |
| Server start (`cmd/server/main.go`) | none | migrate, wire routes, serve, drain | | | not modelled: wiring; `ApiNext` lists the routes it mounts |
| Metrics page, navigation, icons (`app/metrics`, `components`) | drawing | | | | not modelled: drawing (the timer of `useQuickStats` is one of `PollingHooks`) |

### How the parts interact

The server and the runtime share no memory.  They meet in the tables, and in the
publish request that the runtime sends to the server:

    POST /investigations          tasks                 claim (SKIP LOCKED)
    client ----------> Go server -------> PostgreSQL <------------------- runtime
    POST /control/tick            signals       ^        poll, mark          |
                                                | messages                   | POST /messages
                                                +------ Go server <----------+

A runtime only looks at tasks when it handles a `force_tick` signal, and only at
investigations when it handles a `trigger_consensus` signal.  `POST
/control/tick/{agent}` writes the former; nothing in the repository writes the
latter.

The web application talks to the server in two ways.  The pages of agents,
control, stream and metrics use the hooks of `lib/api`, which poll with the
shared intervals of `lib/polling.ts` and go to the server or, unless the
environment says `live`, to `mock.ts`.  In live mode they send no
`Authorization` header (`client.ts:29-35`), and `main.go:116-150` puts every route
they use except the health check behind `RequireAdmin` or `RequireAuth`: a live
request of `lib/api` never succeeds.  The pages of settings and investigations
call `fetch` themselves, with a key: no mock, no poll hook, and no look at the
status of an answer.

## Modules

| module | what it is |
|---|---|
| `InvestigationStore` | the tables and the requests in flight; one operator per SQL statement |
| `InvestigationAPI` | the Go handlers that change those tables |
| `Orchestrator` | the Python runtime, with its failures |
| `TaskLifecycle` | the abstract task queue: release, take, settle, overturn |
| `Investigations` | the composition, its fairness and all its properties; the refinement mapping |
| `MCInvestigations` | the constants of the small instances |
| `Toggles` | the endorse and propagate transactions |
| `AtomicToggle` | what a toggle endpoint promises |
| `MCToggles` | requests and marks of the small instance |
| `ApiClient` | live or mock, and how a request is refused or fails |
| `MockServer` | the agents, and what a request does to them |
| `MessageStream` | the message table, the page cache, the dashboard and clients that page |
| `PollingHooks` | the timers of the hooks |
| `AgentsPage`, `AgentDetailPage`, `ControlPage`, `SettingsPage`, `StreamPage`, `InvestigationPages` | the pages |
| `Pages` | a tab opened on one of them; the fairness |
| `MCMessageStream`, `MCPages` | constants of the small instances |
| `InvestigationsTypes` | proofs: the type invariant |
| `TaskQueueProofs` | proofs: one holder per task, the refinement of the queue |
| `ConsensusProofs` | proofs: what a complete investigation guarantees, and that one is created whole |
| `PublishingProofs` | proofs: what the stream says of a task |
| `TogglesProofs` | proofs: overlapping toggles are atomic |
| `PollingProofs` | proofs: the timers of the hooks |
| `StreamProofs` | proofs: pages of messages, and that paging does not drift |
| `PagesProofs` | proofs: the pages of the web application |

### Correspondence

*Tables.*  `task[t]` is a row of `investigation_tasks` (status `"none"`: no such
row); `inv[i]` a row of `investigations`; `signals` is `control_signals` in
`created_at` order; `messages` a set of rows.  An investigation is the rank of
its `created_at`, which is the start of the transaction that inserts it, so
`Oldest` (`ORDER BY created_at LIMIT 1`) compares ranks and leaves tasks of one
investigation as ties.  The content of a message is the task whose research it
holds, or `Null`; a report is the set of messages it was written from.

*Statements.*  A statement outside a transaction block is atomic and takes one
action.  The transaction of `CreateInvestigation` takes one action per task it
inserts; its rows are kept in `tx[i]` and become visible with `CommitCreate`.
The one statement whose locks matter to another is the claim: that a claim skips
a row whose lock is then released by a rollback is `ClaimSkipsLocked`.

*The toggles.*  `ToggleEndorsement` and `TogglePropagation` are the same code on
two tables; `table` is the committed rows of one of them.  Both statements of the
transaction are steps, because each may wait: `Delete` for a transaction that has
deleted the row, `Insert` for any that has written the key.  A statement that
waits is not enabled.  A `DELETE` that waited finds no row even if another
transaction has inserted one since; the model has that case as a `Delete` at the
moment the row went.

*The runtime.*  A process runs one coroutine at a time, so it is a sequential
program with one counter.  Every awaited statement and the publish request end a
step; what comes before the next one is part of it.

| pc | the runtime is about to |
|---|---|
| `down` | be started |
| `idle` | poll |
| `batch` | look at the next polled signal |
| `claim` | claim a task of the next type of `AGENT_REGISTRY` |
| `run` | construct the agent, research, send the publish request |
| `await` | read the answer |
| `settle` | call `complete_task` or `fail_task` |
| `recover` | call `fail_task` in the `except` branch |
| `check`, `count` | list the active investigations, count the open tasks of each |
| `gather`, `store`, `finish` | read findings, store the report, set the status |
| `mark` | call `mark_processed` |

*Failures* are actions of their own, bounded by `MaxFaults`: `"db"` (the
statement raises and had no effect), `"ack"` (it was committed and the connection
broke before the answer), `"http"` (the publish request fails on the client's
side; the server may have handled it, may still handle it, or never gets it),
`"llm"` (the model raises), `"crash"` (the process dies; nothing it holds in
memory survives).  Where each leads follows from the `try` blocks.

*The message stream.*  A message is its place in the order `(created_at, id)`;
`row[m]` goes from `"open"` (inserted by a transaction that has begun) to
`"visible"`, in any order.  There are two kinds of readers: a dashboard
(`fetchFindings`), which asks for the newest page on a timer, and a client of the
HTTP interface, which follows `next_cursor` as `README.md` (Cursor Pagination) says.
Both send a key.  A request is a record in a slot: `FetchFindings` or `FetchPage`
asks, `Lookup` reads Redis, `Read` the table, `Fill` writes Redis, `ShowFindings` or
`TakePage` is what the reader does with the answer.  Every slot is independent, so
requests overtake each other anywhere.  `cache[<<c, n>>]` is the page stored for
cursor `c` and limit `n`, which is the whole key.

*Hooks.*  `timeout[h]` says that the timer named by the effect's variable is
pending; a timer that was started and is no longer named counts in `orphans[h]`,
because no cleanup can reach it.

*Pages.*  The state of a page is the `useState` of the page and of its hooks,
under the names of the source.  An action is an event handler, a timer, what the
server does with a request (`...Served`), or the code after an `await`
(`...Answered`, `...Fails`); in mock mode server and answer are one step
(`Mock...`), as nothing runs between them.  Requests of `lib/api` in live mode only
throw (`RequestThrows`), for want of a key as often as they are made, or because
the network or the server fails, `MaxFails` times.  Where a page calls `fetch`
itself, a refusal is an answer with an error body.  `AgentsPage` also has what React
drew last (`drawn`): a state variable set to the value it has does not draw, and
the mock always answers the same array.  `Pages` is the sum of the pages:
they share nothing but the agents and the mode, and a tab shows one at a time
(within `InvestigationPages` it navigates).

*Outside the repository.*  `OperatorSignal` and `OperatorSeed` stand for rows
somebody inserts by hand.  They are there because without them two parts of the
code are never reached: no code writes a `trigger_consensus` or
`start_investigation` signal, and no message can have an investigation as its
parent (`parent_msg_id` references `messages(id)`, `POST /messages` does not
store one) unless a message with the investigation's id exists.

### The runtime as it is at this commit

`runtime/agents/base.py` does not parse (a stray line 117), imports a module
`openrouter` that does not exist and uses `LLMClient` without importing it;
`_research` calls `self.mesh`, which is never set; `ConsensusAgent` reads
configuration fields that `Config` does not have.  The model is of the control
flow these files state, the one they have once they load.  A class whose
constructor raises is still a real case (`agent_cls(self.cfg)` is outside the
`try`): a task type outside `Buildable` models it.

## Runs

| run | asks | bounds | distinct states |
|---|---|---|---|
| `Core` | Is a task held once, published once, and complete only with its own finding? Does the task table implement the abstract queue? | 2 runtimes, 2 tasks of one type or of two, 2 signals, 2 faults of any kind | about 500,000 (with symmetry) |
| `Consensus` | Is an investigation completed only when settled, with a report of its own findings? | 2 runtimes, 2 investigations of one task each, one of them seeded, hand-made signals, 1 fault of any kind | about 2,200,000 (with symmetry) |
| `Shipped` | What can the configuration of the repository not do? Do investigations appear whole while agents come, pause and resume? | admin key, no seeds, hand-made signals, requests in 3 shapes, a consensus request, 2 agents, 1 fault | about 2,000,000 |
| `Signals` | Is every signal marked in the end, and does a tick take the waiting task? | 1 runtime, one agent class that cannot be constructed, 2 faults of the database and the process | about 6,100 |
| `Claimed` | With a reliable database, is every claimed task settled? | 2 runtimes, 1 task, 1 fault of the network or the model | about 16,000 |
| `Toggles` | Are overlapping toggles atomic, and is each answered? | 3 requests for one message, one for another, one for a message that does not exist; every request may fail at every step | about 20,000 |
| `Stream` | Does paging neither repeat nor skip a message? Does a dashboard end with the newest page? | 4 messages, 3 of them there from the start, pages of 2, a dashboard with 2 requests under way, a client that pages, a Redis that may refuse, 1 failed request | about 122,000 |
| `Pages` | What holds on each page whatever overlaps, is refused or is lost, and whoever else changes the agents? | see below; live and mock | about 217,000 |
| `NoTrigger` | *violated:* consensus runs when all tasks are settled (`orchestrator.py:8`) | no faults | |
| `FindingsUnlinked` | *violated:* what a runtime publishes for a task is a finding of its investigation (`base.py:83`) | no faults | |
| `TriggerRace` | *violated:* a complete investigation stays complete (`investigations.go:101`) | no faults | |
| `Filter` | *violated:* a page of one agent holds that agent's messages (`frontend-prompt.md:195`) | 2 clients, no faults | |

These are the runs of `PROJECT.json`.  Seven more statements of the repository fail
in the same modules; each has a configuration of its own, in which TLC finds a
short counterexample without any fault:

| cfg (module) | statement | what the repository says | what the code does |
|---|---|---|---|
| `NoTick` (`MCInvestigations`) | `PendingIsDispatched` | `scheduler.py:10`: "Polls investigation_tasks for pending tasks and dispatches to agents" | only a `force_tick` makes a runtime look at the tasks (`orchestrator.py:79`) |
| `Paging` (`MCMessageStream`) | `HasMoreIsTrue` | `README.md:222`: "`true` if more pages exist" | a page from the cache says `false` (`cache.go:42`) |
| `NoKey` (`MCPages`) | `KeyAccepted` | `frontend-prompt.md:75`: "All dashboard requests include this header" | `client.ts:29-35` sends none: every live request of `lib/api` is refused |
| `NoList` (`MCPages`) | `ListsAreAnswered` | `pivot.md:484-512`: pages of investigations and reports | without a status the query has 2 arguments for `$2` and `$3` (`investigations.go:174`): an error, which the pages take for an empty list |
| `AgentPage` (`MCPages`) | `AgentPageStands` | `frontend-prompt.md:322-330`: the page shows manifest, statistics and messages | `useMemo` after two early returns (`agents/[id]/page.tsx:50`): React throws with the first drawing that has the agent |
| `MockScroll` (`MCPages`) | `ScrollLoadsOlder` | `frontend-prompt.md:294`: "infinite scroll via cursor pagination" | the mock says `has_more` and has no route for the path with a query (`mock.ts:279`) |
| `ListRefetched` (`MCPages`) | `ListRefetched` | `frontend-prompt.md:390`: the list is fetched again every 30 s | the mock answers the array it changes (`mock.ts:235`): React sees no new state |

What the runs show beyond the tables:

- **One claim, one holder.**  `poll` takes no lock, so two runtimes handle the
  same tick; the claim statement alone keeps them from running the same task.
  Nothing makes a task pending again, which is why a crash after the claim
  leaves the task `running` for ever: its investigation never has zero open tasks.
- **Completion can be overturned.**  When `complete_task` commits and its
  acknowledgement is lost, the `except` branch calls `fail_task`: the task is
  `failed` although its finding is on the stream.  `TaskLifecycle` allows this
  (`Overturn`) only when acknowledgements can be lost; that it is impossible
  otherwise is the theorem `QueueRefinement` for a `FaultKinds` without `"ack"`.
- **At most once, not exactly once.**  A publish request that times out on the
  client may still be handled: a failed task can have a published finding,
  never two.
- **The consensus is safe without a lock** because tasks of a visible
  investigation only leave the open states; the count that allowed the report
  stays zero.  A second runtime may overwrite a report with another of the same
  investigation, and a report may be stored without a completion.
- **A finding is not linked to its investigation.**  The runtime sends the
  investigation as the parent, the handler of `POST /messages` drops it, and
  `_run_consensus` looks for findings by parent: an investigation can only complete
  on messages somebody has inserted by hand (`FindingsUnlinked`).
- **A toggle is atomic or an error.**  Of two first requests at once one gets the
  primary key and the other an error (or, if the first rolls back, the key); of two
  requests to switch off, the second waits and switches on again.  An error does not say whether
  the mark flipped, so a client that retries one may undo its own first request.
- **Paging does not drift** (`NoPageDrift`, `spec.md:177`).  A cached page of a
  later cursor is old, but all it may lack is rows that committed late; nothing that
  was there when the client began is passed over, and nothing comes twice.  This is
  about unfiltered readers: **a filtered page depends on who asked before** (`Filter`).
- **The dashboard heals** (`DashboardSettles`).  An old page put into the cache by
  a slow reader, a page cached before a late commit, answers that overtake each
  other: each is over when the entry runs out.  That is the only thing that heals
  it: with a cache that keeps its entries (the mutant) the property fails.
- **Live mode of `lib/api` shows errors only.**  Every request throws, so the pages
  of agents, control and stream show their error for ever; what is checked of them is that
  the flags come back (`SavingEnds`, `ButtonsComeBack`).  The mock, which is the
  default, hides it.  Live mode also needs a `NEXT_PUBLIC_API_URL` that ends in `/api/v1`.
- **In mock mode** the cards of the agents page are drawn only because "Saving..."
  ends: two writes at once leave a card that is wrong until something else draws
  the page (`DrawnUnlessOverlapped` has to exclude that).
- **Timers.**  A change of an interval gives every `useAgents`, `useAgent` and
  `useMessages` one more chain of timers, for as long as it is mounted
  (`ChainsBounded` says exactly one per change).  `setPollingInterval` has no
  caller in the repository, though `polling.ts:1` says "written by Settings page".
- **The settings page** is right as long as nothing races; `raced` names what it does
  not survive: anybody else's change of the agents after its one `GET` was served, a
  create while that `GET` is under way, two toggles of one agent, any error.  "Right" is: no
  agent twice, each as the server has it, and the newest `AgentLimit` there; the
  page appends new agents where the server puts them first.  The body of an error is
  taken for an agent, whose row has a button of its own.
- **As configured, nothing is published:** the runtime sends the admin key,
  `RequireAgent` wants an agent's.

### Bounds

`NInvs`, `MaxTasks`, `MaxSignals`, `NAgents`, `MsgIds`, `MaxPosts`, `Handlers` and
`MaxFaults` bound the instances.  Two runtimes are the smallest number with a
race, and the code has no operation that involves three processes.  Two tasks are
needed for the order of a registry and for ties in the claim; two signals for a
batch whose rest is dropped, or for a tick handled while another is polled; two
faults for a failure inside a failure handler (`settle` raises, then `recover`
raises) and for a crash after a lost acknowledgement.  Two investigations are the smallest
number whose findings and reports could be mixed up; only one of them can have
findings, so that a report of the other's would be seen.  `MsgIds` is large enough
that the server never runs out of ids before it runs out of requests.  Runtimes
are interchangeable, so `Core` and `Consensus` use their symmetry; runs
of liveness properties do not.

`Stream`: with four messages and pages of two there is a first page, a next one, and
a message that begins or commits between them; three are there from the start, so that
the client's second page has a row it must not miss.  With two requests
of the dashboard under way each can overtake the other and fill the cache with an
old page; the client shares the dashboard's limit and so its cached first page.

`Pages`: one agent or two, two writes and two
lists under way, three requests of the settings page (two toggles and a create) and
one change by others, with a limit of one agent in place of 20 so that the list of the server
leaves one out; three mock messages in pages of two in place of 21 in pages of 20;
two investigations (one shown, one newer) and two POSTs, one failed request
anywhere, three hooks (one of each discipline) with two changes of the intervals
and two requests each.  In `InvestigationPages` one GET of investigations is under
way at a time, so answers to two polls of the dashboard do not overtake each other;
the other pages have that case.

A tab or a client may stop (the bounds are used up, a page has broken, all pages are
read), so `Stream` and `Pages` do not check deadlock.  Three requests for one mark are the
smallest number where one holds the lock and two that wait for it have read
different states; a fourth only repeats them.  A request is used once, so `Toggles`
really stops when all are answered and does not check deadlock
(`EveryRequestAnswered` shows that it stops nowhere else).  The runs of the
investigations check it.

### Fairness

`LiveSpec` assumes weak fairness of what a runtime does by itself (`Progress`) and
of the server's answers.  `start()` is a loop that ends only with the process, and
everything it awaits either answers or raises (the failures are separate actions
without fairness), so a process that can step does.  Weak fairness of `Start`
says that somebody restarts a process that died; `Signals` needs it.  The server
handles the publish requests it received.  Users, operators and faults are never
assumed to act.  `StreamFairness` assumes that the timer of a dashboard fires, that the
server works on what the dashboard asked and the answer arrives, and that entries of the cache run
out; nothing is assumed of agents, clients or failures.  `PagesFairness` assumes that
the timer of `useAgents` fires (`KeepsPolling` shows that there is always one) and
that a request is answered, refused or seen to fail, not which of these: `fetch`
settles, and the mock's delay ends.  In `Toggles` each request that waits for a lock gets it when it
stays free, and handlers run on; the bug variant without the rollback shows
that the property depends on the locks and not on the fairness.

## Proofs

TLC checks the instances above; the theorems hold for every value of the
constants that satisfies the named assumptions, which TLC evaluates in every run
that uses the module.  Besides saying that bounds are numbers and that sets have
the right elements they say this of the code:

| assumption | says | because |
|---|---|---|
| `BoundsAssumption`, `UuidAssumption`, `NullAssumption`, `RequestsAssumption` | ids differ from `Null` and from each other, a request names types of the instance | UUIDs; `NULL` is no value of its column |
| `ApiAssumption`, `RuntimeAssumption` | what keys, classes and faults there are | the configuration and `AGENT_REGISTRY` |
| `TogglesAssumption`, `PollingAssumption` | requests name marks; a hook has a discipline | the handlers; the hooks |
| `MessagesAssumption`, `ReadersAssumption` | `null` is no message; a limit is positive, the dashboard does not filter, a client waits for its answer | the cursor; `ListMessages`; `dashboard/page.tsx:70`; a client pages by the last answer |
| `StreamPageAssumption` | a page of the mock has a row, `null` is no message | `mock.ts` |
| `MockAssumption` | the empty field of a form is no username and no text | the pages do not send a form with an empty field, and an empty text in a `PATCH` is ignored |
| `AgentsPageAssumption` | the mock's array itself is not the empty list of the first drawing | it is an identity: setting it again draws nothing |
| `SettingsPageAssumption` | bounds; the limit of a list is positive | `ListAgents` |
| `InvestigationPagesAssumption` | neither an error body nor `null` is an investigation | an error has only the field `error` |
| `AgentDetailAssumption` | the page calls a hook | `agents/[id]/page.tsx` does |
| `ClientAssumption`, `ControlPageAssumption`, `PagesAssumption` | bounds, the modes and the parts of the application | `config.ts`; the routes |

The arguments:

- `TypeCorrect` (`Spec => []TypeOK`).  `OrchState` ties the local variables of a
  runtime to its counter: it has a job exactly in the four states that handle
  one, an investigation exactly while it runs the consensus, and a finding id
  only when it settles.  So no handler can read a variable that another one
  left behind.
- `OneHolderCorrect` (`Spec => []OneHolder`).  `OneHolder` is not inductive:
  nothing in it keeps a committing transaction from writing a held task, nor says
  what a settling runtime overwrites.  `QueueInv` adds that only a committed
  investigation has tasks (`Unreleased`), and that a held task is `running`, or
  already settled in the one case where the acknowledgement of the settling
  statement was lost (`Holding`).  The proof first classifies all steps into five
  kinds by their effect on statuses and holders (`ApiKinds`, `RuntimeKinds`), and
  then never mentions an action again.
- `QueueRefinement` (`Spec => ImplementsLifecycle`).  Under `QueueInv` each kind
  of step is one step of `TaskLifecycle` or a stutter.
- `CompletionSettled`, `ReportsGrounded`.  `ConsensusInv`
  says what a runtime knows between counting and completing (`Grounds`): its
  investigation exists, has no open task, and its sources are findings of it.
  None of this can become untrue, because whatever somebody has read exists
  (`KnownExist`), tasks of a visible investigation only leave the open states
  (`StaysSettled`, from the five kinds) and messages are never deleted.  So the
  statements of two runtimes may interleave in any order.
- `PublishedAtMostOnce`, `CompletionHasFinding`, `AdminKeyNeverCompletes`,
  `UnregisteredNeverTaken`.  `PublishingInv` says where the text of a task can
  be: with the one runtime about to send it, in the request, or on the stream,
  never in two of them (`OnePlace`), and that every id in an answer or in a
  runtime's hands is that of a message with the right text (`TruthTold`).  The
  one holder of `QueueInv` is what keeps a second runtime from sending.
- `CreatedWhole` (`Spec => []ReleasedWhole`).  `ReleaseInv` adds that the agent
  a round of the loop has found still exists at the commit (`RowsAssigned`) and
  that nothing but the commit makes rows appear (`RowsKept`); it needs
  `ConsensusInv` for the handlers that set the status of an investigation
  they have read earlier.
- `TogglesTypeCorrect` (`Spec => [](TypeOK /\ WritesApply /\ OneWriter)`) and
  `TogglesAtomic` (`Spec => IsAtomic`).  A pending write still applies to the table
  (`WritesApply`) and one transaction at a time has written a mark (`OneWriter`);
  under these the commit is the step where the mark flips.
- `PollingTypeCorrect`, `PollingGoesOn`, `PollingIsBounded`, `LoadingIsJustified`
  and `QuietOnceGone` (`PollingSpec => []KeepsPolling` and so on), for any number
  of hooks and changes.  `HookOK` is inductive: a hook that is not mounted has no
  timer it could clear, an interval has no orphans, and only a hook that waits
  for answers may be without a timer.  Every step of a hook hands a chain on or
  ends it; only `SetPollingInterval` adds one, and it counts itself in `changes`.

- `NewestRowsAnswered`: what `ListMessages` answers, for any set of rows and any
  limit, is sorted, newest first, leaves out no row newer than one it has, and
  says that there are more exactly if it left one out.  A row
  stands at the place its number of newer rows says; that every place is taken is
  a pigeonhole argument over cardinalities (`RankOrder`, `EveryRank`), where
  induction over the rows would be the usual way and is out of reach.
- `StreamTypeCorrect` (`StreamSpec => []StreamTypeOK`): no page, wherever it is, has
  more rows than its reader asked for, or rows out of order.
- `PagingDoesNotDrift` (`Unfiltered => (StreamSpec => []NoPageDrift)`).  `DriftInv`
  says that a page for a cursor has only rows below it and passes over none that was
  there from the start (`PageFrom`), in the cache (`CacheSound`), on the way
  (`RequestSound`) and in what a client has (`NoPageDrift`), which ends at its
  cursor (`CursorSound`).  Rows that are there stay there (`EarlyThere`), so that the age
  of a page does not matter.  With a filter it is false: `CacheSound` needs every
  writer of a key to have asked for the same rows (`Unfiltered`).
- `EditsReach`, `DrawnWithMock` (the agents page).  `AgentsInv` says that what is
  drawn was the list at some time (`RowsInv`), and agents
  are only added and keep their usernames (`Grows`), so an edit begun from an old
  drawing still names the agent it was begun for (`FormInv`, `Reaches`).  `SerialInv`
  is about the mock: with one write at a time nothing else changes the array
  while "Saving..." is drawn.
- `SettingsTruthful`.  Neither the list nor the table is stable, so `Agreeing`
  says how they differ while requests are under way: by one agent if a create is
  on its way back, and in a row by the toggle that was made and not yet answered;
  up to the agents the page has heard of it has the newest (`NewestThere`).
  `RequestsInv` keeps the first list apart from both, and a change by others either
  comes before that list is read or sets `raced`.
- `CrashNeedsRefusal` (the pages of the investigations).  It rests on `ListRefused`, a
  list without a status is an error, and on what the answers to a POST can be
  (`InvestigationsInv`).
- `PagesTypeCorrect`.  The invariant of the application (`PagesInv`) says that the
  page that is open is in its invariant and the others are as they were at the
  start.  The pages and the hooks of `PollingHooks` are parts side by side: the theorems about
  timers are about the hooks, and a page's own polls are those of its module.

With these every safety property that a passing run checks is proved, invariants,
action properties and both refinements; those of the hooks for `PollingSpec`, not again for
`PagesSpec`.  Liveness is only model-checked, as are fairness
and `ENABLED`, which are out of this prover's reach: `SignalsDrain`, `TickServed`,
`ClaimedSettles`, `EveryRequestAnswered`, `DashboardSettles`, `SavingEnds`,
`ButtonsComeBack`.

## Findings

`PROJECT.json` lists the four disagreements between the code and its own text
that the violation runs show; the table under *Runs* has seven more.  The weightiest: nothing
triggers a consensus, nothing dispatches a task without a tick, no finding is linked to its
investigation, and the web client sends no key.

Not shown by a run, noted while reading: the default task type `consensus` has no
agent class, so an investigation created with the default types never completes
(`UnregisteredStaysPending` states it of the model); `completed_at` of an
investigation is never set (that of a task is, `scheduler.py:58` and `:70`).  With
two runtimes, one that skips the task another is claiming
marks the tick as used, and if the other dies before its claim commits the tick
is lost (`TickServed` holds with one runtime).  A poll of the stream page replaces the
whole list, where `frontend-prompt.md:388` wants the poll merged into it.

## Not modelled

- Drawing: the metrics page, navigation, icons, layout, charts, the filter and
  the counter of new messages of the stream page (it counts the growth of the
  list, which a poll may also shrink), agents and findings on the investigation pages.
- An order of agents other than that of their creation: an agent is its number.  The list
  of the settings page has the server's order and limit; the mock's has neither.
- The mock's routes for single messages, endorsing and propagating, which no
  modelled page calls; statistics.
- Prompts, the model, the wording of reports; start and shutdown of the server.
- `agent_ticks`, which nothing writes; `mark_unprocessed`, which nothing calls.

## What is left

- The requests of the dashboard and of the report page that run side by side.
- Theorems about the variants: which of the hazards a repair of the code would
  remove, for example a `useAgents` that copies the mock's array.
