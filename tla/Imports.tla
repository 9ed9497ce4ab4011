------------------------------- MODULE Imports -------------------------------
(***************************************************************************)
(* The imports of one owner at work on the portfolio: TradeImportService.  *)
(* Import, DividendsService.Import and DeleteAll, each inside a MongoDB    *)
(* transaction, beside HoldingsService.Delete, which has none.             *)
(*                                                                         *)
(* A transaction reads one snapshot and its writes stay pending until it   *)
(* commits.  It commits only if nothing it writes was written by another   *)
(* since the snapshot; otherwise the driver runs the whole callback again, *)
(* evaluation included, until 120 seconds have passed.                     *)
(***************************************************************************)
EXTENDS ImportPlan, LedgerPages

CONSTANTS
    Clients,        \* requests in flight at once, at most one each
    Holdings,       \* holding ids, the ones not yet created included
    Inputs,         \* the requests the clients may send
    InitialBooks,   \* portfolios the modelled period may start from
    Rows,           \* past days with a stored, line-backed snapshot row
    Today

VARIABLES
    status,    \* per holding: "unborn", "held" or "dropped"
    doc,       \* its symbol, script, currency and aliases
    position,  \* its derived fields
    ledger,    \* its events in order of creation
    lines,     \* its line in each stored snapshot row
    pc,        \* per client: "idle", "work" (in a transaction) or "cascade"
    input,     \* the request it runs
    plan,      \* the pending writes of its transaction
    missed,    \* documents others have written since its snapshot
    late       \* the driver's time for retries has passed

stored == <<status, doc, position, ledger, lines>>
vars == <<status, doc, position, ledger, lines, pc, input, plan, missed, late>>

Idle(c) == pc[c] = "idle"
Held == {h \in Holdings : status[h] = "held"}
Unborn == {h \in Holdings : status[h] = "unborn"}
NoLine == [quantity |-> Zero, avgCost |-> Zero]
Books == [status |-> status, doc |-> doc, ledger |-> ledger]

\* A holding or a snapshot row is one document, a ledger one per event; only
\* their deletion can conflict, an insert never does.
HoldingDoc(h) == <<"holding", h>>
EventsOf(h)   == <<"events", h>>
RowDoc(row)   == <<"row", row>>

NoPlan ==
    [refused |-> FALSE, born |-> {}, events |-> <<>>, cleared |-> {},
     docs |-> <<>>, positions |-> <<>>, lines |-> <<>>, writes |-> {}]
NoInput == [kind |-> "none"]

ASSUME HoldingsAreFinite == IsFiniteSet(Holdings)
ASSUME InitialBooksAreAccepted ==
    \A books \in InitialBooks :
        /\ books.status \in [Holdings -> {"unborn", "held", "dropped"}]
        /\ DOMAIN books.ledger = Holdings /\ DOMAIN books.doc = Holdings
        /\ \A h \in Holdings :
               /\ books.ledger[h] \in Seq(Transaction) /\ ~Oversells(books.ledger[h])
               /\ books.status[h] = "unborn" => books.ledger[h] = <<>>
               /\ {"symbol", "script", "currency", "aliases"} \subseteq DOMAIN books.doc[h]
ASSUME KnownRequests ==
    \A in \in Inputs :
        /\ in.kind \in {"trades", "dividends", "clear", "drop"}
        /\ in.kind = "drop" => in.holding \in Holdings
ASSUME SheetsAreRows ==
    \A in \in Inputs :
        in.kind \in {"trades", "dividends"} =>
            /\ in.rows \in Seq(ToSet(in.rows))
            /\ \A row \in ToSet(in.rows) :
                   row.txn \in Transaction /\ (in.kind = "dividends" => row.txn.type = "dividend")
ASSUME RowsArePast == Today \in Nat /\ Rows \subseteq 0..(Today - 1)

Init ==
    /\ \E books \in InitialBooks :
        status = books.status /\ doc = books.doc /\ ledger = books.ledger
    /\ position = [h \in Holdings |-> RecomputePosition(ledger[h])]
    /\ lines = [row \in Rows |-> [h \in Holdings |->
                   IF status[h] = "held" THEN LineAsOf(ledger[h], row) ELSE NoLine]]
    /\ pc = [c \in Clients |-> "idle"]
    /\ input = [c \in Clients |-> NoInput]
    /\ plan = [c \in Clients |-> NoPlan]
    /\ missed = [c \in Clients |-> {}]
    /\ late = [c \in Clients |-> FALSE]

------------------------------------------------------------------------------
(***************************************************************************)
(* The callback of a transaction, run on its snapshot: what it would write *)
(* and whether it refuses.                                                 *)
(***************************************************************************)
NotDividends(events) ==
    FoldLeft(LAMBDA kept, txn : IF txn.type = "dividend" THEN kept ELSE Append(kept, txn),
             <<>>, events)

\* MoveAliases: the names go to their holding and away from every other.
WithAliases(db, names, h) ==
    [db.doc[h] EXCEPT
        !.aliases = (@ \ UNION {names[other] : other \in DOMAIN names \ {h}}) \cup names[h]]

NewHolding(in, name) ==
    LET first == CHOOSE i \in DOMAIN in.rows :
                    /\ in.rows[i].name = name
                    /\ \A j \in DOMAIN in.rows : in.rows[j].name = name => i <= j
    IN  [symbol |-> name, script |-> in.rows[first].label,
         currency |-> in.currency, aliases |-> {}]

Born(births) == {births[name] : name \in DOMAIN births}

\* The documents inserted or changed; an update that changes nothing is no write.
Docs(db, in, births, names) ==
    LET changed == {h \in Holdings : /\ db.status[h] = "held"
                                     /\ WithAliases(db, names, h) # db.doc[h]}
    IN  [h \in changed \cup Born(births) |->
            IF h \in changed THEN WithAliases(db, names, h)
            ELSE NewHolding(in, CHOOSE name \in DOMAIN births : births[name] = h)]

\* Faulty variant: only the rows of the days traded on are healed.
RowsToHeal_TradedDays(in, events) ==
    {row \in Rows : /\ in.kind = "trades"
                    /\ \E h \in DOMAIN events : \E txn \in ToSet(events[h]) : DayOf(txn.date) = row}

\* A trades import heals the rows from its earliest trade on, unless that is
\* today's; dividends never move a line.
RowsToHeal(in, events) ==
    {row \in Rows : /\ in.kind = "trades" /\ row <= Today
                    /\ \E h \in DOMAIN events : \E txn \in ToSet(events[h]) :
                           DayOf(txn.date) < Today /\ DayOf(txn.date) <= row}

Invested(held, after, row) ==
    [h \in Holdings |-> IF h \in held THEN LineAsOf(after[h], row) ELSE NoLine]

\* What an import writes, found being the evaluation of its rows.
ImportWrites(db, in, births, found) ==
    LET held     == {h \in Holdings : db.status[h] = "held"} \cup Born(births)
        affected == {h \in Holdings : found.events[h] # <<>>}
        after    == [h \in Holdings |-> db.ledger[h] \o found.events[h]]
        rows     == RowsToHeal(in, found.events)
        docs     == Docs(db, in, births, found.names)
    IN  [refused   |-> found.invalid \/ \E h \in affected : Oversells(after[h]),
         born      |-> Born(births),
         events    |-> [h \in affected |-> found.events[h]],
         cleared   |-> {},
         docs      |-> docs,
         positions |-> [h \in affected |-> RecomputePosition(after[h])],
         lines     |-> [row \in rows |-> Invested(held, after, row)],
         writes    |-> {HoldingDoc(h) : h \in affected \cup DOMAIN docs}
                          \cup {RowDoc(row) : row \in rows}]

\* DeleteAll: the dividends of a currency go, and their holdings are derived
\* again, except that an orphan's holding is not there to be written.
ClearWrites(db, in) ==
    LET cleared == {h \in Holdings :
                       /\ db.status[h] # "unborn"
                       /\ db.doc[h].currency = in.currency
                       /\ NotDividends(db.ledger[h]) # db.ledger[h]}
        held    == {h \in cleared : db.status[h] = "held"}
    IN  [refused   |-> \E h \in held : Oversells(NotDividends(db.ledger[h])),
         born      |-> {},
         events    |-> <<>>,
         cleared   |-> cleared,
         docs      |-> <<>>,
         positions |-> [h \in held |-> RecomputePosition(NotDividends(db.ledger[h]))],
         lines     |-> <<>>,
         writes    |-> {HoldingDoc(h) : h \in held} \cup {EventsOf(h) : h \in cleared}]

------------------------------------------------------------------------------
(***************************************************************************)
(* A transaction.                                                          *)
(***************************************************************************)
\* The ids a new holding may get.  An import that needs more than are left of
\* the finite Holdings is not started.
FreshIds(c) == Unborn \ UNION {plan[other].born : other \in Clients \ {c}}

Attempt(c, in) ==
    /\ \/ /\ in.kind = "clear"
          /\ plan' = [plan EXCEPT ![c] = ClearWrites(Books, in)]
       \/ /\ in.kind # "clear"
          /\ \E births \in Births(Books, in, FreshIds(c)) :
                plan' = [plan EXCEPT ![c] =
                    ImportWrites(Books, in, births, Evaluate(Books, in, Today, births))]
    /\ missed' = [missed EXCEPT ![c] = {}]

Begin(c) ==
    /\ Idle(c)
    /\ \E in \in Inputs :
        /\ in.kind # "drop"
        /\ Attempt(c, in)
        /\ input' = [input EXCEPT ![c] = in]
    /\ pc' = [pc EXCEPT ![c] = "work"]
    /\ UNCHANGED <<stored, late>>

\* The request is answered: what it kept goes.
End(c) ==
    /\ pc' = [pc EXCEPT ![c] = "idle"]
    /\ input' = [input EXCEPT ![c] = NoInput]
    /\ plan' = [plan EXCEPT ![c] = NoPlan]
    /\ late' = [late EXCEPT ![c] = FALSE]

\* Documents written at once by c: every open transaction of another misses them.
Written(c, docs) ==
    missed' = [o \in Clients |->
                  IF o # c /\ pc[o] = "work" THEN missed[o] \cup docs ELSE {}]

\* An invalid row, or sells that exceed what is held: nothing is written.
Refuse(c) ==
    /\ pc[c] = "work"
    /\ plan[c].refused
    /\ End(c)
    /\ missed' = [missed EXCEPT ![c] = {}]
    /\ UNCHANGED stored

Clean(c) == plan[c].writes \cap missed[c] = {}

\* Writes of another transaction that are still pending conflict as well.
Contended(c) ==
    \/ ~Clean(c)
    \/ \E o \in Clients \ {c} : pc[o] = "work" /\ plan[c].writes \cap plan[o].writes # {}

\* A ledger once the events of a plan are inserted, or its dividends deleted.
After(p, h, events) ==
    IF h \in p.cleared THEN NotDividends(events)
    ELSE IF h \in DOMAIN p.events THEN events \o p.events[h] ELSE events

Apply(p) ==
    /\ status' = [h \in Holdings |-> IF h \in p.born THEN "held" ELSE status[h]]
    /\ doc' = [h \in Holdings |-> IF h \in DOMAIN p.docs THEN p.docs[h] ELSE doc[h]]
    /\ ledger' = [h \in Holdings |-> After(p, h, ledger[h])]
    /\ position' = [h \in Holdings |->
                       IF h \in DOMAIN p.positions THEN p.positions[h] ELSE position[h]]
    /\ lines' = [row \in Rows |-> IF row \in DOMAIN p.lines THEN p.lines[row] ELSE lines[row]]

\* Faulty variant: the calls are made without a transaction around them.
Commit_Unguarded(c) ==
    /\ pc[c] = "work"
    /\ ~plan[c].refused
    /\ Apply(plan[c])
    /\ Written(c, plan[c].writes)
    /\ End(c)

Commit(c) ==
    /\ pc[c] = "work"
    /\ ~plan[c].refused
    /\ Clean(c)
    /\ Apply(plan[c])
    /\ Written(c, plan[c].writes)
    /\ End(c)

Retry(c) ==
    /\ pc[c] = "work"
    /\ ~plan[c].refused
    /\ Contended(c)
    /\ ~late[c]
    /\ Attempt(c, input[c])
    /\ UNCHANGED <<stored, pc, input, late>>

\* The transaction is rolled back: the retries took too long, or the process
\* stopped or the caller went away.
RollBack(c) ==
    /\ End(c)
    /\ missed' = [missed EXCEPT ![c] = {}]
    /\ UNCHANGED stored

\* Faulty variant: past the limit a transaction still waits to be clean.
GiveUp_WhenClean(c) ==
    /\ pc[c] = "work"
    /\ ~plan[c].refused
    /\ late[c] /\ Clean(c)
    /\ RollBack(c)

GiveUp(c) ==
    /\ pc[c] = "work"
    /\ ~plan[c].refused
    /\ late[c] /\ Contended(c)
    /\ RollBack(c)

Abort(c) == ~Idle(c) /\ RollBack(c)

Expire(c) ==
    /\ pc[c] = "work" /\ ~late[c]
    /\ late' = [late EXCEPT ![c] = TRUE]
    /\ UNCHANGED <<stored, pc, input, plan, missed>>

------------------------------------------------------------------------------
(***************************************************************************)
(* HoldingsService.Delete: the holding goes, then in another call its      *)
(* events.  In between the events are orphans, as they are for good if the *)
(* request ends there.                                                     *)
(***************************************************************************)
DropStart(c) ==
    /\ Idle(c)
    /\ \E in \in Inputs :
        /\ in.kind = "drop"
        /\ status[in.holding] = "held"
        /\ status' = [status EXCEPT ![in.holding] = "dropped"]
        /\ Written(c, {HoldingDoc(in.holding)})
        /\ input' = [input EXCEPT ![c] = in]
    /\ pc' = [pc EXCEPT ![c] = "cascade"]
    /\ UNCHANGED <<doc, position, ledger, lines, plan, late>>

Cascade(c) ==
    /\ pc[c] = "cascade"
    /\ ledger' = [ledger EXCEPT ![input[c].holding] = <<>>]
    /\ Written(c, {EventsOf(input[c].holding)})
    /\ End(c)
    /\ UNCHANGED <<status, doc, position, lines>>

------------------------------------------------------------------------------
Answer(c) == Refuse(c) \/ Commit(c) \/ GiveUp(c) \/ Cascade(c)

Next ==
    \E c \in Clients :
        Begin(c) \/ DropStart(c) \/ Retry(c) \/ Answer(c) \/ Abort(c) \/ Expire(c)

Spec == Init /\ [][Next]_vars

\* A handler that can finish its request does, and the driver's clock runs.
\* Nothing is assumed of the retries.
FairSpec == Spec /\ \A c \in Clients : WF_vars(Answer(c)) /\ WF_vars(Expire(c))

------------------------------------------------------------------------------
\* "The import then saves the trades, new holdings, positions and History
\* together, or nothing at all" (docs/portfolio-model.md:83-85): whatever imports,
\* deletions and aborts overlap, a holding's position is the one of its ledger,
\* which is never an oversold one.
PositionsCommitWithTheLedger ==
    \A h \in Held : position[h] = RecomputePosition(ledger[h]) /\ ~Oversells(ledger[h])

\* "History heals inside the same transaction, so ledger, holdings and snapshots
\* commit together" (trade_import.go:482-483): every stored row shows each holding
\* as its ledger of today has it at the end of that day.
HistoryCommitsWithTheLedger ==
    \A row \in Rows, h \in Held : lines[row][h] = LineAsOf(ledger[h], row)

Currencies == {doc[h].currency : h \in Held}
Of(currency) == {h \in Holdings : doc[h].currency = currency}

\* A page only reads what is stored, and every request may be abandoned where it
\* is (Abort): with nobody at work every stored portfolio is still met.
Quiet == \A c \in Clients : Idle(c)

\* Three pages show the same dividends: the tab, the holdings (totalDividends of
\* the replay) and the rows of the History page.  They agree on the total once
\* the dividends of holdings that have gone are added, and on each stock line, on
\* every day, except that twins each show what both received (StockKey).
DividendPagesAgree ==
    LET overlay == DividendOverlay(Books, Rows \cup {Today})
        received(h, day) == RecomputePosition(AsOfLedger(ledger[h], day)).totalDividends
        total(h) == IF h \in Held THEN position[h].totalDividends ELSE received(h, Today)
        sum(amount(_), hs) == SumOfFractions([h \in hs |-> amount(h)], hs)
        Twins(h) == {g \in Held : doc[g].symbol = doc[h].symbol /\ doc[g].currency = doc[h].currency}
    IN  Quiet =>
        /\ \A currency \in Currencies :
            LET tab == DividendView(Books, currency)
            IN  /\ Whole(tab.total) = sum(total, Of(currency))
                /\ tab.total = Noted(overlay[Today].toDate, currency)
                /\ tab.rows # <<>> => Last(tab.rows).total = tab.total
        /\ \A row \in Rows, h \in Held :
            lines[row][h].quantity # Zero =>
                Whole(LineDividends(Books, overlay, row, h)) =
                    sum(LAMBDA g : received(g, row), Twins(h))

\* "A month end reads what a healed History row on that day holds as invested"
\* (investment_delta.go:18-20), and today what the positions hold, unless an event
\* that only they count is dated ahead (validateTxnInput lets a trade be); a column
\* that the chart of the year leaves out held no money at any of its days, the day
\* before the year included (hasActivity).
ChartReadsHistory ==
    Quiet => \A currency \in Currencies, year \in 1..((MonthOf(Today) - 1) \div MonthsPerYear + 1) :
        LET days    == monthEnds(year, Today)
            figures == Figures(Books, currency, year, Today)
            held    == Held \cap Of(currency)
            ahead   == \E h \in held : AsOfLedger(ledger[h], Today) # ledger[h]
            shown(row) == [h \in held |-> Times(lines[row][h].quantity, lines[row][h].avgCost)]
            today   == [h \in held |-> CostBasis(position[h])]
        IN  /\ \A i \in DOMAIN days :
                /\ days[i] \in Rows => figures[i] = SumOfFractions(shown(days[i]), held)
                /\ days[i] = Today /\ ~ahead => figures[i] = SumOfFractions(today, held)
            /\ DOMAIN deltaColumns([column \in {currency} |-> figures]) = {}
                   => \A i \in DOMAIN figures : figures[i] = Zero

\* "Every transaction owned by userId" (transactions.go:143-146), those of holdings
\* that have gone unlabelled: what the ledger page lists of a holding is what the
\* holding's own page lists, the other way round, its buys less its sells are the shares held, and
\* its dividends add up to the tabs.  (No event of these portfolios is a split.)
LedgerPageAddsUp ==
    LET page == ListAll(Books)
        Listed(Test(_)) == SelectSeq(page, Test)
        Shares(row) == CASE row.event.type \in {"opening", "buy"} -> row.event.quantity
                         [] row.event.type = "sell" -> -row.event.quantity
                         [] OTHER -> 0
        Money(row) == IF row.event.type = "dividend" THEN row.event.amount ELSE 0
    IN  Quiet =>
        /\ \A h \in Held :
            LET mine == Listed(LAMBDA row : row.holding = h)
            IN  /\ Reverse([i \in DOMAIN mine |-> mine[i].event]) = List(Books, h)
                /\ position[h].stocksOwned = Whole(SumAll(Shares, mine))
        /\ \A currency \in Currencies :
            SumAll(Money, Listed(LAMBDA row : row.holding \in Of(currency)))
                = DividendView(Books, currency).total
        /\ \A i \in DOMAIN page : page[i].symbol = NoSymbol <=> page[i].holding \notin Held

\* The pages that derive the same money from the same ledgers show the same.
PagesAgree == DividendPagesAgree /\ ChartReadsHistory /\ LedgerPageAddsUp

\* A holding answers to a name as its symbol or as an alias.
Means(h, name, currency) ==
    doc[h].currency = currency /\ (name = doc[h].symbol \/ name \in doc[h].aliases)

\* "Nothing is duplicated ... uploading the same file twice changes nothing"
\* (docs/portfolio-model.md:77-79): a holding is created for a name that another of
\* the currency has only if that one was written since the import's snapshot, or a
\* third has the name as well, or had it before it was written since: a name of two
\* is ambiguous, and may be created.  No index keeps two overlapping uploads from
\* creating a holding each.
TwinsComeFromOverlap ==
    [][\A g \in Unborn, h \in Held :
          LET Twin(k) == Means(k, doc'[g].symbol, doc'[g].currency)
          IN  status'[g] = "held" /\ Twin(h) =>
                \E c \in Clients :
                    /\ g \in plan[c].born
                    /\ \/ HoldingDoc(h) \in missed[c]
                       \/ \E other \in Holdings \ (Unborn \cup {h}) :
                            \/ HoldingDoc(other) \in missed[c]
                            \/ other \in Held /\ Twin(other)]_vars

\* An import that keeps meeting others is repeated by the driver, but not for
\* ever (persistence.go:81-84 relies on WithTransaction's limit): every request
\* is answered.
EveryRequestIsAnswered == \A c \in Clients : ~Idle(c) ~> Idle(c)

\* What the imports promise as one-step operations.
Merged == INSTANCE MergedLedger WITH
    status   <- status,
    currency <- [h \in Holdings |-> doc[h].currency],
    saved    <- [h \in Holdings |-> IF status[h] = "held" THEN ledger[h] ELSE <<>>],
    changed  <- [c \in Clients |-> {h \in Holdings : HoldingDoc(h) \in missed[c]}]

\* Import, DeleteAll and Delete take effect in one step each, and an import only
\* ever adds, per trade, the copies that the ledger lacks.
ImplementsMergedLedger == Merged!Spec
==============================================================================
