---------------------------- MODULE LedgerReplay ----------------------------
(***************************************************************************)
(* The replay of Ledger checked against what it promises, on every ledger  *)
(* of a few events.  The only action records one more event, in any order  *)
(* of dates, so that the reachable states are the bounded ledgers with     *)
(* every order of creation.                                                *)
(***************************************************************************)
EXTENDS Ledger

CONSTANTS RecordIds,  \* the ids available, 1..n
          Recordable  \* the events that may be recorded

ASSUME RecordableAreTransactions == Recordable \subseteq Transaction
ASSUME RecordIdsAreNumbers == RecordIds \subseteq Nat /\ IsFiniteSet(RecordIds)

VARIABLE booked

RecordInit == booked = [i \in RecordIds |-> NoEvent]

Record(txn) ==
    LET next == Cardinality(Events(booked)) + 1
    IN  /\ next \in RecordIds
        /\ booked' = [booked EXCEPT ![next] = txn]

RecordNext == \E txn \in Recordable : Record(txn)

RecordSpec == RecordInit /\ [][RecordNext]_booked

------------------------------------------------------------------------------
(***************************************************************************)
(* Reference definitions, written from the meaning and not from the loop.  *)
(***************************************************************************)
Typed(types) == {i \in Events(booked) : booked[i].type \in types}

Total(field, ids) == MapThenSumSet(LAMBDA i : booked[i][field], ids)

BookedDays == {DayOf(booked[i].date) : i \in Events(booked)}

\* Events that count at the end of a day: openings always do.
Through(day, ids) ==
    {i \in ids : IsOpening(booked[i]) \/ DayOf(booked[i].date) <= day}

SharesOf(ids) == Total("quantity", ids)
CashOf(ids)   == Total("amount", ids)

ShortAtEndOf(day) ==
    SharesOf(Through(day, Typed({"sell"}))) > SharesOf(Through(day, Typed({"opening", "buy"})))

\* The replay as it would be without waiting: every sell is booked when met.
ImmediateReplay == FoldLeft(Effect, EmptyReplay, Ordered(booked))

------------------------------------------------------------------------------
\* "Oversell is judged at the end of the day" (ledger.go:72-77): whatever the
\* times and the order of entry, a ledger without splits is refused exactly
\* when some day closes with more shares sold than acquired.
OversellIsDayEndShortfall ==
    Typed({"split", "bonus"}) = {} =>
        (Oversells(booked) <=> \E day \in BookedDays : ShortAtEndOf(day))

\* Average cost moves money between the running basis and realized P&L and
\* never creates any: realized P&L is the proceeds plus the seeds, less the
\* cost that is no longer in the position (ledger.go:57-71).
Bought == {i \in Typed({"opening", "buy"}) : booked[i].quantity > 0}

CostIsConserved ==
    LET position == RecomputePosition(booked)
        basis    == Times(position.avgCostPrice, position.stocksOwned)
        proceeds == CashOf(Typed({"sell"}))
        seeds    == Total("seed", Typed({"opening"}))
    IN  Plus(position.realizedPnL, Whole(CashOf(Bought))) = Plus(basis, Whole(proceeds + seeds))

\* "A ledger that never oversells never waits, so its replay is unchanged"
\* (ledger.go:76-77): waiting only matters where booking at once would clamp.
WaitingOnlyHelps ==
    ~ImmediateReplay.oversold => Replay(booked) = [ImmediateReplay EXCEPT !.day = Replay(booked).day]

\* The opening is the baseline regardless of its calendar date (ledger.go:33-36),
\* so redating one (HoldingsService.setOpeningDate, which has no rollback) can
\* neither change the position nor turn an accepted ledger into an oversold one.
RedatingAnOpeningIsNeutral ==
    \A i \in Typed({"opening"}), day \in BookedDays :
        LET redated == [booked EXCEPT ![i].date = StartOf(day), ![i].openingDate = day]
        IN  /\ RecomputePosition(redated) = RecomputePosition(booked)
            /\ Oversells(redated) = Oversells(booked)

\* The heal replays the ledger as of each stored row and only warns when that
\* one oversells (snapshot_recompute.go:153-165).  An accepted ledger has no
\* such day, provided no sell is dated before a declared opening.
AsOfNeverOversells ==
    (/\ ~Oversells(booked)
     /\ \A i \in Typed({"opening"}), j \in Typed({"sell"}) :
            booked[i].openingDate <= DayOf(booked[j].date))
    => \A day \in BookedDays : ~Oversells(AsOfLedger(booked, day))
==============================================================================
