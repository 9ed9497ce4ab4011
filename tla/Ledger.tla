------------------------------- MODULE Ledger -------------------------------
(***************************************************************************)
(* The replay of one holding's ledger (services/ledger.go) and the ledger  *)
(* as of a past day (services/snapshot_recompute.go).  Pure operators: no  *)
(* state, no recursion operator, so that the modules that use them can be  *)
(* proved about.                                                           *)
(*                                                                         *)
(* A ledger is a function from event ids to events or NoEvent.  Ids are    *)
(* handed out in the order events are created, so the id also stands for   *)
(* created_at.  A date is an instant: SlotsPerDay instants make one UTC    *)
(* day, enough for a bare-day event (the first slot) and a timed one.      *)
(***************************************************************************)
EXTENDS Integers, Sequences, SequencesExt, Rationals

SlotsPerDay == 2
DayOf(date) == date \div SlotsPerDay
StartOf(day) == day * SlotsPerDay

TxnType == {"opening", "buy", "sell", "dividend", "split", "bonus", "merger"}

\* opening_date of an opening whose date the user never declared.
Undated == -1

Transaction ==
    [type: TxnType, date: Nat, quantity: Nat, amount: Nat,
     ratio: Rational, seed: Int, openingDate: Nat \cup {Undated}]

NoEvent == [type |-> "none"]

Events(ledger) == {i \in DOMAIN ledger : ledger[i] # NoEvent}

------------------------------------------------------------------------------
(***************************************************************************)
(* Replay order: openings first whatever their date, then the trade date,  *)
(* then creation.                                                          *)
(***************************************************************************)
IsOpening(txn) == txn.type = "opening"

\* Faulty variant: the opening takes its place by date.
Precedes_ByDate(ledger, i, j) ==
    \/ ledger[i].date < ledger[j].date
    \/ ledger[i].date = ledger[j].date /\ i < j

Precedes(ledger, i, j) ==
    \/ IsOpening(ledger[i]) /\ ~IsOpening(ledger[j])
    \/ /\ IsOpening(ledger[i]) = IsOpening(ledger[j])
       /\ \/ ledger[i].date < ledger[j].date
          \/ ledger[i].date = ledger[j].date /\ i < j

Preceding(ledger, i) == {j \in Events(ledger) : Precedes(ledger, j, i)}

\* The id at a place of the replay: the event that so many others precede.
AtPlace(ledger, place) == CHOOSE i \in Events(ledger) : Cardinality(Preceding(ledger, i)) = place - 1

Ordered(ledger) ==
    [place \in 1..Cardinality(Events(ledger)) |-> ledger[AtPlace(ledger, place)]]

(***************************************************************************)
(* The accumulator of the replay: shares and their cost, the sells of the  *)
(* day that exceed the shares held and wait for the rest of the day, and   *)
(* the day being replayed.                                                 *)
(***************************************************************************)
EmptyReplay ==
    [qty |-> Zero, basis |-> Zero, realized |-> Zero, dividends |-> Zero,
     oversold |-> FALSE, waiting |-> <<>>, day |-> Undated]

Covered(acc, txn) == ~Below(acc.qty, Whole(txn.quantity))

CostOf(acc, qty) ==
    IF Positive(acc.qty) THEN Times(Over(acc.basis, acc.qty), qty) ELSE Zero

\* Takes qty shares and their cost out of the position.
Book(acc, txn, qty, cost) ==
    [acc EXCEPT !.qty = Minus(@, qty),
                !.basis = Minus(@, cost),
                !.realized = Plus(@, Minus(Whole(txn.amount), cost)),
                !.oversold = @ \/ ~Covered(acc, txn)]

\* Faulty variant: the cost of the shares asked for is charged instead of that
\* of the shares sold.
Sell_UncoveredCost(acc, txn) ==
    [Book(acc, txn, Smaller(Whole(txn.quantity), acc.qty),
          CostOf(acc, Smaller(Whole(txn.quantity), acc.qty)))
        EXCEPT !.realized = Plus(acc.realized,
                                 Minus(Whole(txn.amount), CostOf(acc, Whole(txn.quantity))))]

Sell(acc, txn) ==
    LET qty == Smaller(Whole(txn.quantity), acc.qty)
    IN  Book(acc, txn, qty, CostOf(acc, qty))

\* Sells the waiting events from the oldest on: all of them at the end of the
\* day, before it only up to the first that the shares held do not cover.
Settle(acc, endOfDay) ==
    FoldLeft(LAMBDA now, txn :
                 IF endOfDay \/ (now.waiting = <<>> /\ Covered(now, txn))
                 THEN Sell(now, txn)
                 ELSE [now EXCEPT !.waiting = Append(@, txn)],
             [acc EXCEPT !.waiting = <<>>], acc.waiting)

Acquire(acc, txn) ==
    IF txn.quantity > 0
    THEN [acc EXCEPT !.qty = Plus(@, Whole(txn.quantity)),
                     !.basis = Plus(@, Whole(txn.amount))]
    ELSE acc

Effect(acc, txn) ==
    CASE txn.type = "opening" ->
            [Acquire(acc, txn) EXCEPT !.realized = Plus(@, Whole(txn.seed))]
      [] txn.type = "buy"  -> Acquire(acc, txn)
      [] txn.type = "sell" -> Sell(acc, txn)
      [] txn.type \in {"split", "bonus"} ->
            IF Positive(txn.ratio) THEN [acc EXCEPT !.qty = Times(@, txn.ratio)]
                                   ELSE acc
      [] txn.type = "dividend" ->
            [acc EXCEPT !.dividends = Plus(@, Whole(txn.amount))]
      [] txn.type = "merger" -> acc

\* The day is over for the events that wait.
NewDay(acc, day) ==
    [(IF day # acc.day THEN Settle(acc, TRUE) ELSE acc) EXCEPT !.day = day]

Meet(acc, txn) ==
    IF txn.type = "sell" /\ ~Covered(acc, txn)
    THEN [acc EXCEPT !.waiting = Append(@, txn)]
    ELSE Settle(Effect(acc, txn), FALSE)

\* Faulty variants: waiting sells survive the end of their day; a sell of all
\* the shares held waits too.
ReplayEvent_NoDayBreak(acc, txn) == Meet(acc, txn)

ReplayEvent_WaitsAtEqual(acc, txn) ==
    LET now == NewDay(acc, DayOf(txn.date))
    IN  IF txn.type = "sell" /\ ~Below(Whole(txn.quantity), now.qty)
        THEN [now EXCEPT !.waiting = Append(@, txn)]
        ELSE Settle(Effect(now, txn), FALSE)

ReplayEvent(acc, txn) == Meet(NewDay(acc, DayOf(txn.date)), txn)

Replay(ledger) ==
    Settle(FoldLeft(ReplayEvent, EmptyReplay, Ordered(ledger)), TRUE)

(***************************************************************************)
(* What RecomputePosition returns: the four derived fields of a holding,   *)
(* and whether the replay ended in ErrOversell.                            *)
(***************************************************************************)
Derived(end) ==
    [stocksOwned |-> end.qty,
     avgCostPrice |-> IF Positive(end.qty) THEN Over(end.basis, end.qty) ELSE Zero,
     realizedPnL |-> end.realized,
     totalDividends |-> end.dividends]

RecomputePosition(ledger) == Derived(Replay(ledger))

Oversells(ledger) == Replay(ledger).oversold

------------------------------------------------------------------------------
(***************************************************************************)
(* The ledger in effect at the end of a day.  An opening counts from its   *)
(* declared opening date, or on every day while it has none; every other   *)
(* event counts from its own day on.                                       *)
(***************************************************************************)
\* Faulty variant: an opening is filtered by its ordering date like any event.
InEffect_ByDate(txn, day) == DayOf(txn.date) <= day

InEffect(txn, day) ==
    IF txn.type = "opening"
    THEN txn.openingDate = Undated \/ txn.openingDate <= day
    ELSE DayOf(txn.date) <= day

AsOfLedger(ledger, day) ==
    [i \in DOMAIN ledger |->
        IF ledger[i] # NoEvent /\ InEffect(ledger[i], day) THEN ledger[i] ELSE NoEvent]

\* The quantity and average cost of the holding's line in a snapshot row.
LineAsOf(ledger, day) ==
    LET position == RecomputePosition(AsOfLedger(ledger, day))
    IN  [quantity |-> position.stocksOwned, avgCost |-> position.avgCostPrice]
==============================================================================
