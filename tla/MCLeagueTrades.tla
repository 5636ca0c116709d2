--------------------------- MODULE MCLeagueTrades ---------------------------
\* Markis plays in m1 and m2, ann too; she leads to o, and bob, who is only
\* met in o, would lead on to far.  The small graph has the league m1 alone.
EXTENDS LeagueTrades, TLC

CONSTANTS markis, ann, bob, m1, m2, o, far, p1, p2, pick, t1, t2, s1, s2, w1, w2

MCUserLeagues == (markis :> <<m1, m2>>) @@ (ann :> <<m1, m2, o>>) @@ (bob :> <<o, far>>)
MCOwnersOf == (m1 :> <<markis, ann>>) @@ (m2 :> <<markis, ann>>) @@ (o :> <<ann, bob>>) @@ (far :> <<bob>>)
MCSmallLeagues == (markis :> <<m1>>) @@ (ann :> <<m1>>)
MCSmallOwners == (m1 :> <<markis, ann>>)
MCRosters == [l \in Leagues |-> [u \in Users |->
                  Players \cap (IF u = markis /\ l = m1 THEN {p1} ELSE IF u = ann THEN {p2} ELSE {})]]
MCLeagueOf == [t \in Trades |-> IF t = t1 THEN m1 ELSE o]
MCWeekOf == [t \in Trades |-> 1]
MCAssetsOf == [t \in Trades |-> IF t = t1 THEN {p1, pick} ELSE {p2}]
=============================================================================
