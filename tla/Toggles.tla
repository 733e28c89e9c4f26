------------------------------- MODULE Toggles -------------------------------
(***************************************************************************)
(* ToggleEndorsement and TogglePropagation: a READ COMMITTED transaction   *)
(* that deletes the row of an agent and a message and, if there was none,  *)
(* inserts it.  The two run the same statements on two tables; this is one *)
(* of the tables.  A statement that waits for the lock of another          *)
(* transaction is an action that is not enabled.                           *)
(***************************************************************************)
EXTENDS Naturals, FiniteSets

CONSTANTS
    Requests,  \* requests to the endpoint
    Marks,     \* primary keys: an agent and a message
    Known,     \* those whose message exists
    Target,    \* the mark a request is for
    AckLoss    \* whether the connection may break while the commit is on its way

ASSUME TogglesAssumption ==
    Known \subseteq Marks /\ Target \in [Requests -> Marks] /\ AckLoss \in BOOLEAN

VARIABLES
    table,  \* the committed rows
    tx,     \* the transaction of each request: its position, and its own write
    answer  \* the response of each request

vars == <<table, tx, answer>>

Idle == [pc |-> "idle", wrote |-> "nothing"]

TypeOK ==
    /\ table \in SUBSET Known
    /\ tx \in [Requests -> [pc : {"idle", "delete", "insert", "commit", "done"},
                            wrote : {"nothing", "deleted", "inserted"}]]
    /\ answer \in [Requests -> {"none", "on", "off", "error"}]

Init ==
    /\ table \in SUBSET Known
    /\ tx = [r \in Requests |-> Idle]
    /\ answer = [r \in Requests |-> "none"]

At(r, pc) == tx[r].pc = pc
Step(r, pc, wrote) == tx' = [tx EXCEPT ![r] = [pc |-> pc, wrote |-> wrote]]
Answer(r, a) ==
    /\ Step(r, "done", "nothing")
    /\ answer' = [answer EXCEPT ![r] = a]

\* The write of another transaction on the same row that is not committed yet.
Pending(r, write) ==
    \E q \in Requests \ {r} : Target[q] = Target[r] /\ tx[q].wrote = write

Begin(r) ==
    /\ At(r, "idle")
    /\ Step(r, "delete", "nothing")
    /\ UNCHANGED <<table, answer>>

\* Bug variant: the row is looked up with a SELECT, which takes no lock.
DeleteUnlocked(r) ==
    /\ At(r, "delete")
    /\ IF Target[r] \in table THEN Step(r, "commit", "deleted") ELSE Step(r, "insert", "nothing")
    /\ UNCHANGED <<table, answer>>

\* Waits for a transaction that has deleted the row; a row that another one
\* has inserted and not committed is not seen.  RowsAffected decides.
Delete(r) ==
    /\ At(r, "delete")
    /\ ~Pending(r, "deleted")
    /\ IF Target[r] \in table THEN Step(r, "commit", "deleted") ELSE Step(r, "insert", "nothing")
    /\ UNCHANGED <<table, answer>>

\* Bug variant: the foreign key on the message is missing.
InsertUnchecked(r) ==
    /\ At(r, "insert")
    /\ ~Pending(r, "deleted") /\ ~Pending(r, "inserted")
    /\ IF Target[r] \notin table
       THEN Step(r, "commit", "inserted") /\ UNCHANGED answer
       ELSE Answer(r, "error")
    /\ UNCHANGED table

\* Waits for any transaction that has written the key; then the primary key
\* and the foreign key of the message are checked.
Insert(r) ==
    /\ At(r, "insert")
    /\ ~Pending(r, "deleted") /\ ~Pending(r, "inserted")
    /\ IF Target[r] \in Known \ table
       THEN Step(r, "commit", "inserted") /\ UNCHANGED answer
       ELSE Answer(r, "error")
    /\ UNCHANGED table

Write(r) ==
    table' = IF tx[r].wrote = "inserted" THEN table \cup {Target[r]} ELSE table \ {Target[r]}

Commit(r) ==
    /\ At(r, "commit")
    /\ Write(r)
    /\ Answer(r, IF tx[r].wrote = "inserted" THEN "on" ELSE "off")

\* The commit took effect, and its caller sees an error.
CommitAckLost(r) ==
    /\ AckLoss
    /\ At(r, "commit")
    /\ Write(r)
    /\ Answer(r, "error")

\* Bug variant: no deferred rollback, the locks stay.
RollbackMissing(r) ==
    /\ tx[r].pc # "done"
    /\ Step(r, "done", tx[r].wrote)
    /\ answer' = [answer EXCEPT ![r] = "error"]
    /\ UNCHANGED table

\* No connection, a statement that raises, a client that goes away: the
\* deferred rollback undoes the write and releases its lock.
Rollback(r) ==
    /\ tx[r].pc # "done"
    /\ Answer(r, "error")
    /\ UNCHANGED table

Next ==
    \E r \in Requests :
        \/ Begin(r) \/ Delete(r) \/ Insert(r) \/ Commit(r)
        \/ CommitAckLost(r) \/ Rollback(r)

Spec == Init /\ [][Next]_vars

\* A handler runs until it answers, and a lock that is released is granted.
Fairness == \A r \in Requests : WF_vars(Delete(r) \/ Insert(r) \/ Commit(r))

LiveSpec == Spec /\ Fairness

-----------------------------------------------------------------------------

\* However requests for one mark overlap, those that are answered took effect
\* one after the other: the table and the answers are those of an atomic
\* toggle (DELETE, RowsAffected, INSERT, primary key).
Abstract == INSTANCE AtomicToggle
IsAtomic == Abstract!Spec

\* Requests for one mark wait for each other's locks, never in a circle, and
\* none keeps its lock: every request that has begun is answered (one row per
\* transaction, Commit or the deferred Rollback on every path).
EveryRequestAnswered == \A r \in Requests : At(r, "delete") ~> At(r, "done")

=============================================================================
