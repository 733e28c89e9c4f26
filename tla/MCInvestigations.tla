-------------------------- MODULE MCInvestigations --------------------------
(***************************************************************************)
(* Small instances of Investigations.  The task types keep the three cases *)
(* the code has: "research" has a slot and an agent class, "reddit" has an *)
(* agent class and no slot, "consensus" has a slot and no agent class.     *)
(***************************************************************************)
EXTENDS Investigations, TLC

MCTaskTypes == {"research", "reddit", "consensus"}
MCDefaultTypes == <<"research", "consensus">>
MCRegistry == <<"research", "reddit">>
OneClass == <<"research">>
TwoIds == 11 .. 12
ThreeIds == 11 .. 13

\* Runtime processes are alike: nothing chooses between them.
OrchSymmetry == Permutations(Orchs)

OneResearch == {<<"research">>}
TwoTasks == {<<"research", "reddit">>, <<"research", "research">>}
AnyRequest == {<<>>, <<"reddit">>, <<"reddit", "research">>}
=============================================================================
