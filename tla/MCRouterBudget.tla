--------------------------- MODULE MCRouterBudget ---------------------------
(* Values for model checking the router's budget. *)
EXTENDS RouterBudget, TLC

CONSTANTS r1, r2, p1, p2, cheap, dear

MCCost == cheap :> 1 @@ dear :> 2
MCFailoverRank == cheap :> 2 @@ dear :> 1     \* the dear one is tried first
Config(mode, topK, day, month, research) ==
    [enabled |-> TRUE, mode |-> mode, topK |-> topK, day |-> day, month |-> month,
     research |-> research]
OneConfig == {Config("SINGLE", 1, 2, 3, NoLimit)}
TwoConfigs == {Config("FALLBACK", 1, 2, 3, 2), Config("MULTI", 2, 3, NoLimit, NoLimit)}
EnsembleConfig == {Config("MULTI", 2, NoLimit, NoLimit, NoLimit)}

DearFirst == {<<dear, cheap>>}
AnyRanking == {<<dear, cheap>>, <<cheap, dear>>, <<cheap>>}

RequestSymmetry == Permutations({r1, r2})
=============================================================================
