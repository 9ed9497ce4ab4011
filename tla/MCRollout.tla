------------------------------ MODULE MCRollout ------------------------------
(***************************************************************************)
(* Three instances and three migrations, of which an image embeds the      *)
(* first few.  Two commands at once over three legacy holdings: one of the *)
(* super admin's with shares, one of theirs that is sold out, and one      *)
(* nobody owns; the source holds one of their scripts and another one.     *)
(***************************************************************************)
EXTENDS Rollout, TLC

CONSTANTS i1, i2, i3, r1, r2

MCInstances == {i1, i2, i3}
MCFiles == <<"0001_gold.sql", "0002_prices.sql", "0003_sellers.sql">>

MCIds == 1..7
MCUsers == <<"admin", "user">>
MCRuns == {r1, r2}

Position(shares, cost, realized) ==
    [stocksOwned |-> Whole(shares), avgCostPrice |-> Whole(cost),
     realizedPnL |-> Whole(realized), totalDividends |-> Zero]
Holding(owner, script, position, raw) ==
    [owner |-> owner, script |-> script, raw |-> raw, position |-> position]

MCSource ==
    <<[script |-> "A", raw |-> TRUE, position |-> Position(3, 1, 0)],
      [script |-> "C", raw |-> FALSE, position |-> Position(1, 2, 0)]>>

MCHeld ==
    (1 :> Holding("admin", "A", Position(2, 5, 1), TRUE)) @@
    (2 :> Holding("admin", "B", Position(0, 0, 4), FALSE)) @@
    (3 :> Holding("nobody", "A", Position(1, 1, 0), TRUE))

MCCommands == AllCommands

Renaming == Permutations(MCInstances) \cup Permutations(MCRuns)
==============================================================================
