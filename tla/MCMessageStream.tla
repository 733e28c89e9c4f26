--------------------------- MODULE MCMessageStream ---------------------------
EXTENDS MessageStream

CONSTANTS board, pager, reader, ada, bob

\* A dashboard may have two requests under way, a client waits for its answer.
MCSlots ==
    {<<board, 1>>, <<board, 2>>, <<pager, 1>>, <<reader, 1>>} \cap (Readers \X Nat)

NoFilter == [r \in Readers |-> All]

\* The reader asks for one agent only.
OneFilter == [r \in Readers |-> IF r = reader THEN ada ELSE All]

\* One row a page, or two.
OneRow == [r \in Readers |-> 1]
TwoRows == [r \in Readers |-> 2]

MCAuthor == [m \in 1..MaxMessages |-> IF m = 1 THEN ada ELSE bob]

LiveSpec == StreamSpec /\ StreamFairness

=============================================================================
