---------------------------- MODULE MCRankings ----------------------------
\* The player sync, with the injury sync or a ranking job of each kind.
EXTENDS Rankings, TLC

CONSTANTS wDd, wFc, wFp, k1, k2, p1, p2

MCStyle == [w \in Rankers |-> CASE w = wFc -> "FantasyCalc" [] w = wFp -> "FantasyPros"
                                [] OTHER -> "DynastyDaddy"]
MCKeysOf == [w \in Rankers |-> IF w = wFc THEN <<k1, k2>> ELSE <<k1>>]
MCSchedules == {{"players", "injuries"}} \cup {{"players", w} : w \in Rankers}
=============================================================================
