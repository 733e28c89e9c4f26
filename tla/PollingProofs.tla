---------------------------- MODULE PollingProofs ----------------------------
(***************************************************************************)
(* The timers of the hooks, for every number of hooks, of changes of the   *)
(* intervals and of requests under way.                                    *)
(***************************************************************************)
EXTENDS PollingHooks, TLAPS

\* What the life of a hook says of its timers: a hook that is not mounted has
\* none that can be cleared, an interval never leaves an orphan, and only a
\* hook that waits for answers may be without a timer, as long as it waits.
HookOK(h) ==
    /\ life[h] = "new" => ~timeout[h] /\ orphans[h] = 0 /\ calls[h] = 0
    /\ life[h] = "gone" => ~timeout[h]
    /\ Kind[h] = "interval" => orphans[h] = 0
    /\ life[h] = "active" /\ Kind[h] # "afterAnswer" => timeout[h]
    /\ life[h] = "active" => Chains(h) > 0
    /\ Chains(h) <= 1 + changes
    /\ (life[h] = "active" /\ view[h] = "loading") => calls[h] > 0

PollingInv == PollingTypeOK /\ \A h \in Hooks : HookOK(h)

USE PollingAssumption

\* Nothing is mounted at first.
LEMMA InitInv == PollingInit => PollingInv
  BY DEF PollingInit, PollingInv, PollingTypeOK, HookOK, Chains

\* A change of the intervals adds at most one chain to each hook.
LEMMA ChangeInv ==
    ASSUME PollingInv, SetPollingInterval
    PROVE  PollingInv'
<1>1. PollingTypeOK'
  BY DEF PollingInv, PollingTypeOK, SetPollingInterval, Listening, Displaced
<1>2. ASSUME NEW h \in Hooks PROVE HookOK(h)'
  <2>1. /\ life[h] \in {"new", "active", "gone"} /\ timeout[h] \in BOOLEAN
        /\ orphans[h] \in Nat /\ calls[h] \in Nat /\ changes \in Nat
        /\ Kind[h] \in {"afterAnswer", "fixed", "interval"}
    BY DEF PollingInv, PollingTypeOK
  <2>2. /\ life'[h] = life[h] /\ calls'[h] = calls[h] /\ view'[h] = view[h]
        /\ changes' = changes + 1
        /\ timeout'[h] = (Listening(h) \/ timeout[h])
        /\ orphans'[h] = IF Listening(h) /\ Kind[h] = "fixed"
                         THEN orphans[h] + Displaced(h) ELSE orphans[h]
    BY DEF PollingInv, PollingTypeOK, SetPollingInterval
  <2>3. HookOK(h)
    BY DEF PollingInv
  <2> QED BY <2>1, <2>2, <2>3 DEF HookOK, Chains, Listening, Displaced
<1> QED BY <1>1, <1>2 DEF PollingInv

\* A step of one hook leaves the others alone.
LEMMA OthersStay ==
    ASSUME PollingInv, NEW h \in Hooks, NEW g \in Hooks \ {h},
           \/ Mount(h)
           \/ Fire(h)
           \/ FireOrphanFixed(h)
           \/ FireOrphanHealth(h)
           \/ \E ok \in BOOLEAN : Answer(h, ok)
           \/ Unmount(h)
    PROVE  /\ life'[g] = life[g] /\ timeout'[g] = timeout[g] /\ orphans'[g] = orphans[g]
           /\ calls'[g] = calls[g] /\ view'[g] = view[g] /\ changes' = changes
  BY DEF PollingInv, PollingTypeOK, Mount, Fire, FireOrphanFixed, FireOrphanHealth, Answer,
         Unmount, Fetch

\* The steps of one hook, seen from its own variables: every one of them
\* hands a chain on, or ends it when the hook is gone.
LEMMA HookInv ==
    ASSUME PollingInv, NEW h \in Hooks,
           \/ Mount(h)
           \/ Fire(h)
           \/ FireOrphanFixed(h)
           \/ FireOrphanHealth(h)
           \/ \E ok \in BOOLEAN : Answer(h, ok)
           \/ Unmount(h)
    PROVE  PollingInv'
<1>1. PollingTypeOK'
  <2>1. CASE Mount(h)
    BY <2>1 DEF PollingInv, PollingTypeOK, Mount, Fetch
  <2>2. CASE Fire(h)
    BY <2>2 DEF PollingInv, PollingTypeOK, Fire, Fetch
  <2>3. CASE FireOrphanFixed(h)
    <3>1. Displaced(h) \in 0..1 /\ orphans[h] \in Nat /\ orphans[h] > 0
      BY <2>3 DEF FireOrphanFixed, Displaced, PollingInv, PollingTypeOK
    <3>2. orphans' \in [Hooks -> Nat]
      <4>1. \/ orphans' = [orphans EXCEPT ![h] = orphans[h] - 1 + Displaced(h)]
            \/ orphans' = [orphans EXCEPT ![h] = orphans[h] - 1]
        BY <2>3 DEF FireOrphanFixed
      <4> QED BY <3>1, <4>1 DEF PollingInv, PollingTypeOK
    <3>3. timeout' \in [Hooks -> BOOLEAN]
      <4>1. timeout' = [timeout EXCEPT ![h] = TRUE] \/ timeout' = timeout
        BY <2>3 DEF FireOrphanFixed
      <4> QED BY <4>1 DEF PollingInv, PollingTypeOK
    <3>5. calls' \in [Hooks -> 0..MaxCalls]
      BY <2>3 DEF PollingInv, PollingTypeOK, FireOrphanFixed, Fetch
    <3>4. view' \in [Hooks -> {"loading", "data", "error"}]
      BY <2>3 DEF PollingInv, PollingTypeOK, FireOrphanFixed, Fetch
    <3> QED BY <2>3, <3>2, <3>3, <3>4, <3>5 DEF PollingInv, PollingTypeOK, FireOrphanFixed
  <2>4. CASE FireOrphanHealth(h)
    BY <2>4 DEF PollingInv, PollingTypeOK, FireOrphanHealth, Fetch
  <2>5. ASSUME NEW ok \in BOOLEAN, Answer(h, ok) PROVE PollingTypeOK'
    <3>1. Displaced(h) \in 0..1 /\ orphans[h] \in Nat
      BY DEF Displaced, PollingInv, PollingTypeOK
    <3>2. orphans' \in [Hooks -> Nat]
      <4>1. \/ orphans' = [orphans EXCEPT ![h] = orphans[h] + Displaced(h)]
            \/ orphans' = orphans
        BY <2>5 DEF Answer
      <4> QED BY <3>1, <4>1 DEF PollingInv, PollingTypeOK
    <3>3. timeout' \in [Hooks -> BOOLEAN]
      <4>1. timeout' = [timeout EXCEPT ![h] = TRUE] \/ timeout' = timeout
        BY <2>5 DEF Answer
      <4> QED BY <4>1 DEF PollingInv, PollingTypeOK
    <3>5. calls' \in [Hooks -> 0..MaxCalls]
      BY <2>5 DEF PollingInv, PollingTypeOK, Answer
    <3>4. view' \in [Hooks -> {"loading", "data", "error"}]
      BY <2>5 DEF PollingInv, PollingTypeOK, Answer
    <3> QED BY <2>5, <3>2, <3>3, <3>4, <3>5 DEF PollingInv, PollingTypeOK, Answer
  <2>6. CASE Unmount(h)
    BY <2>6 DEF PollingInv, PollingTypeOK, Unmount
  <2> QED BY <2>1, <2>2, <2>3, <2>4, <2>5, <2>6
<1>2. ASSUME NEW g \in Hooks \ {h} PROVE HookOK(g)'
  <2>1. HookOK(g)
    BY DEF PollingInv
  <2> QED BY <2>1, OthersStay DEF HookOK, Chains
<1>3. HookOK(h)'
  <2>1. /\ life[h] \in {"new", "active", "gone"} /\ timeout[h] \in BOOLEAN
        /\ orphans[h] \in Nat /\ calls[h] \in Nat /\ changes \in Nat
        /\ Kind[h] \in {"afterAnswer", "fixed", "interval"}
    BY DEF PollingInv, PollingTypeOK
  <2>2. HookOK(h)
    BY DEF PollingInv
  <2>3. CASE Mount(h)
    <3>1. /\ life[h] = "new" /\ life'[h] = "active" /\ calls'[h] = calls[h] + 1
          /\ \/ Kind[h] = "afterAnswer" /\ timeout'[h] = FALSE
             \/ Kind[h] # "afterAnswer" /\ timeout'[h] = TRUE
          /\ orphans'[h] = orphans[h] /\ changes' = changes
      BY <2>3 DEF PollingInv, PollingTypeOK, Mount, Fetch
    <3> QED BY <3>1, <2>1, <2>2 DEF HookOK, Chains
  <2>4. CASE Fire(h)
    <3>1. /\ timeout[h] /\ life'[h] = life[h] /\ calls'[h] = calls[h] + 1
          /\ \/ Kind[h] = "afterAnswer" /\ timeout'[h] = FALSE
             \/ Kind[h] # "afterAnswer" /\ timeout'[h] = TRUE
          /\ orphans'[h] = orphans[h] /\ changes' = changes
      BY <2>4 DEF PollingInv, PollingTypeOK, Fire, Fetch
    <3> QED BY <3>1, <2>1, <2>2 DEF HookOK, Chains
  <2>5. CASE FireOrphanFixed(h)
    <3>1. /\ Kind[h] = "fixed" /\ orphans[h] > 0
          /\ life'[h] = life[h] /\ calls'[h] = calls[h] + 1 /\ changes' = changes
          /\ \/ /\ life[h] = "active" /\ timeout'[h] = TRUE
                /\ orphans'[h] = orphans[h] - 1 + Displaced(h)
             \/ /\ life[h] # "active" /\ timeout'[h] = timeout[h]
                /\ orphans'[h] = orphans[h] - 1
      BY <2>5 DEF PollingInv, PollingTypeOK, FireOrphanFixed, Fetch, Reschedules
    <3> QED BY <3>1, <2>1, <2>2 DEF HookOK, Chains, Displaced
  <2>6. CASE FireOrphanHealth(h)
    <3>1. /\ Kind[h] = "afterAnswer" /\ orphans[h] > 0
          /\ life'[h] = life[h] /\ calls'[h] = calls[h] + 1 /\ changes' = changes
          /\ timeout'[h] = timeout[h] /\ orphans'[h] = orphans[h] - 1
      BY <2>6 DEF PollingInv, PollingTypeOK, FireOrphanHealth, Fetch
    <3> QED BY <3>1, <2>1, <2>2 DEF HookOK, Chains
  <2>7. ASSUME NEW ok \in BOOLEAN, Answer(h, ok) PROVE HookOK(h)'
    <3>1. /\ calls[h] > 0
          /\ life'[h] = life[h] /\ calls'[h] = calls[h] - 1 /\ changes' = changes
          /\ life[h] = "active" => view'[h] # "loading"
          /\ \/ /\ Kind[h] = "afterAnswer" /\ life[h] = "active" /\ timeout'[h] = TRUE
                /\ orphans'[h] = orphans[h] + Displaced(h)
             \/ /\ Kind[h] # "afterAnswer" \/ life[h] # "active"
                /\ timeout'[h] = timeout[h] /\ orphans'[h] = orphans[h]
      BY <2>7 DEF PollingInv, PollingTypeOK, Answer, Reschedules
    <3> QED BY <3>1, <2>1, <2>2 DEF HookOK, Chains, Displaced
  <2>8. CASE Unmount(h)
    <3>1. /\ life[h] = "active" /\ life'[h] = "gone" /\ timeout'[h] = FALSE
          /\ orphans'[h] = orphans[h] /\ calls'[h] = calls[h] /\ changes' = changes
      BY <2>8 DEF PollingInv, PollingTypeOK, Unmount
    <3> QED BY <3>1, <2>1, <2>2 DEF HookOK, Chains
  <2> QED BY <2>3, <2>4, <2>5, <2>6, <2>7, <2>8
<1> QED BY <1>1, <1>2, <1>3 DEF PollingInv

LEMMA NextInv == PollingInv /\ [PollingNext]_pollingVars => PollingInv'
<1> SUFFICES ASSUME PollingInv, [PollingNext]_pollingVars PROVE PollingInv'
  OBVIOUS
<1>1. CASE UNCHANGED pollingVars
  BY <1>1 DEF pollingVars, PollingInv, PollingTypeOK, HookOK, Chains
<1> QED BY <1>1, ChangeInv, HookInv DEF PollingNext

LEMMA Inductive == PollingSpec => []PollingInv
  BY InitInv, NextInv, PTL DEF PollingSpec

\* In every run of the hooks the state is well typed: in particular the count
\* of orphaned timers never goes below zero.
THEOREM PollingTypeCorrect == PollingSpec => []PollingTypeOK
<1>1. PollingInv => PollingTypeOK
  BY DEF PollingInv
<1> QED BY <1>1, Inductive, PTL

\* A mounted hook goes on polling, whatever the answers and the intervals do.
THEOREM PollingGoesOn == PollingSpec => []KeepsPolling
<1>1. PollingInv => KeepsPolling
  BY DEF PollingInv, HookOK, KeepsPolling
<1> QED BY <1>1, Inductive, PTL

\* Chains of timers multiply by changes of the intervals and by nothing else.
THEOREM PollingIsBounded == PollingSpec => []ChainsBounded
<1>1. PollingInv => ChainsBounded
  <2> SUFFICES ASSUME PollingInv, NEW h \in Hooks
               PROVE  Chains(h) <= 1 + changes /\ (Kind[h] = "interval" => Chains(h) <= 1)
    BY DEF ChainsBounded
  <2>1. HookOK(h) /\ timeout[h] \in BOOLEAN
    BY DEF PollingInv, PollingTypeOK
  <2> QED BY <2>1 DEF HookOK, Chains
<1> QED BY <1>1, Inductive, PTL

\* No page that is open shows its skeleton without a request under way.
THEOREM LoadingIsJustified == PollingSpec => []LoadingMeansAsked
<1>1. PollingInv => LoadingMeansAsked
  BY DEF PollingInv, HookOK, LoadingMeansAsked
<1> QED BY <1>1, Inductive, PTL

\* Once a page is left, its timers fire at most once more: the requests still
\* to come can only become fewer.
THEOREM QuietOnceGone == PollingSpec => QuietAfterUnmount
<1> DEFINE Quiet == \A h \in Hooks :
             life[h] = "gone" => /\ life'[h] = "gone" /\ ~timeout'[h]
                                 /\ orphans'[h] <= orphans[h]
                                 /\ orphans'[h] + calls'[h] <= orphans[h] + calls[h]
<1>1. ASSUME PollingInv, PollingNext PROVE Quiet
  <2> SUFFICES ASSUME NEW h \in Hooks, life[h] = "gone"
               PROVE  /\ life'[h] = "gone" /\ ~timeout'[h]
                      /\ orphans'[h] <= orphans[h]
                      /\ orphans'[h] + calls'[h] <= orphans[h] + calls[h]
    OBVIOUS
  <2>1. ~timeout[h] /\ orphans[h] \in Nat /\ calls[h] \in Nat
    BY <1>1 DEF PollingInv, PollingTypeOK, HookOK
  <2>2. CASE SetPollingInterval
    BY <1>1, <2>1, <2>2 DEF SetPollingInterval, Listening, PollingInv, PollingTypeOK
  <2>3. ASSUME NEW g \in Hooks \ {h},
               \/ Mount(g) \/ Fire(g) \/ FireOrphanFixed(g) \/ FireOrphanHealth(g)
               \/ (\E ok \in BOOLEAN : Answer(g, ok)) \/ Unmount(g)
        PROVE  life'[h] = life[h] /\ timeout'[h] = timeout[h]
               /\ orphans'[h] = orphans[h] /\ calls'[h] = calls[h]
    BY <1>1, <2>3, OthersStay
  <2>4. ~Mount(h) /\ ~Fire(h) /\ ~Unmount(h)
    BY <2>1 DEF Mount, Fire, Unmount
  <2>5. CASE FireOrphanFixed(h) \/ FireOrphanHealth(h)
    BY <1>1, <2>1, <2>5 DEF FireOrphanFixed, FireOrphanHealth, Fetch, Reschedules,
                      PollingInv, PollingTypeOK
  <2>6. ASSUME NEW ok \in BOOLEAN, Answer(h, ok)
        PROVE  life'[h] = life[h] /\ timeout'[h] = timeout[h]
               /\ orphans'[h] = orphans[h] /\ calls'[h] = calls[h] - 1
    BY <1>1, <2>6 DEF Answer, Reschedules, PollingInv, PollingTypeOK
  <2> QED BY <1>1, <2>1, <2>2, <2>3, <2>4, <2>5, <2>6 DEF PollingNext
<1>2. PollingSpec => [][PollingInv /\ PollingNext]_pollingVars
  BY Inductive, PTL DEF PollingSpec
<1> QED BY <1>1, <1>2, PTL DEF QuietAfterUnmount

=============================================================================
