----------------------------- MODULE ImportPlan -----------------------------
(***************************************************************************)
(* What a CSV import would do to the portfolio it reads: the evaluation    *)
(* shared by the preview and the confirm of the trades import              *)
(* (services/trade_import.go) and of the dividends import                  *)
(* (services/dividends.go, dividend_import.go), with the matching of sheet *)
(* names to holdings (services/dividend_match.go).  Pure operators.        *)
(*                                                                         *)
(* A name stands for the key it is compared by (exactKey, baseSymbol): the *)
(* symbol or share name of a sheet row, the symbol, script and aliases of  *)
(* a holding.  Suggestions only fill the popup and are left out.           *)
(*                                                                         *)
(* A portfolio db has, per holding, a status, a document (symbol, script,  *)
(* currency, aliases) and a ledger: a sequence of events by creation.      *)
(***************************************************************************)
EXTENDS Ledger, FiniteSets

(***************************************************************************)
(* An import: the kind of sheet, its currency, its rows (a name, the stock *)
(* name beside it and the event, dated at the bare day), the owner's       *)
(* answers and the names to create a holding for.  Nobody is the answer    *)
(* "leave it out".                                                         *)
(***************************************************************************)
Nobody == "nobody"

SheetNames(input) == {input.rows[i].name : i \in DOMAIN input.rows}

\* The sheet matches by symbol (trades) or by script (dividends).
OwnName(doc, kind) == IF kind = "trades" THEN doc.symbol ELSE doc.script

Candidates(db, currency) ==
    {h \in DOMAIN db.doc : db.status[h] = "held" /\ db.doc[h].currency = currency}

Matches(db, input, name) ==
    {h \in Candidates(db, input.currency) :
        name = OwnName(db.doc[h], input.kind) \/ name \in db.doc[h].aliases}

Answered(input, name) == name \in DOMAIN input.mappings

\* The holding of a name, as a set of at most one: an answer wins, otherwise a
\* single match is automatic; several are ambiguous and none is unknown.
Resolved(db, input, name) ==
    IF Answered(input, name)
    THEN {input.mappings[name]} \cap Candidates(db, input.currency)
    ELSE {h \in Matches(db, input, name) : Matches(db, input, name) = {h}}

\* Faulty variant: whatever the owner asked to create is created.
Newcomers_Unchecked(db, input) ==
    {name \in input.create \cap SheetNames(input) : input.kind = "trades"}

\* Names that become a new holding: nothing was resolved, and the owner asked.
Newcomers(db, input) ==
    {name \in input.create \cap SheetNames(input) :
        input.kind = "trades" /\ ~Answered(input, name) /\ Resolved(db, input, name) = {}}

\* Each newcomer gets an id of its own.
Births(db, input, ids) ==
    {births \in [Newcomers(db, input) -> ids] :
        \A m, n \in Newcomers(db, input) : births[m] = births[n] => m = n}

Targets(db, input, births) ==
    [name \in SheetNames(input) |->
        IF name \in DOMAIN births THEN {births[name]} ELSE Resolved(db, input, name)]

\* A confirmed name is remembered unless it already means just that holding.
Confirmed(db, input, h) ==
    {name \in SheetNames(input) :
        /\ Answered(input, name) /\ Resolved(db, input, name) = {h}
        /\ Matches(db, input, name) # {h}}

------------------------------------------------------------------------------
(***************************************************************************)
(* The rows.                                                               *)
(***************************************************************************)
ValidRow(input, txn, today) ==
    /\ txn.amount > 0
    /\ DayOf(txn.date) <= today
    /\ input.kind = "trades" => txn.type \in {"buy", "sell"} /\ txn.quantity > 0

\* The opening already holds the trades up to its date; without a date nothing
\* can be said of them.
OpeningsOf(db, h) ==
    {txn \in ToSet(db.ledger[h]) : IsOpening(txn) /\ txn.quantity > 0}

CoveredBy(db, h, txn) ==
    \E opening \in OpeningsOf(db, h) : DayOf(txn.date) <= opening.openingDate

UndatedOpening(db, h) == \E opening \in OpeningsOf(db, h) : opening.openingDate = Undated

Invalid(db, input, row, target, today) ==
    \/ ~ValidRow(input, row.txn, today)
    \/ target = {}
    \/ input.kind = "trades" /\ \E h \in target : UndatedOpening(db, h)

Kept(db, input, row, target) ==
    input.kind = "trades" => \A h \in target : ~CoveredBy(db, h, row.txn)

\* "The same trade", whatever its time of day.
Key(txn) == [txn EXCEPT !.date = DayOf(txn.date)]

Saved(db, h, txn) ==
    Cardinality({k \in DOMAIN db.ledger[h] : Key(db.ledger[h][k]) = Key(txn)})

\* Trades are taken by day, and in the order of the file within a day.
Earlier(input, i, j) ==
    LET day(k) == IF input.kind = "trades" THEN DayOf(input.rows[k].txn.date) ELSE 0
    IN  day(i) < day(j) \/ (day(i) = day(j) /\ i < j)

\* Faulty variant: a repeat in the sheet is held against the same saved trade.
Fresh_NoOccurrences(db, input, targets, kept, i) ==
    \A h \in targets[input.rows[i].name] : Saved(db, h, input.rows[i].txn) = 0

\* Of n equal rows against m saved events the last n - m are new.
Fresh(db, input, targets, kept, i) ==
    \A h \in targets[input.rows[i].name] :
        Cardinality({j \in kept : /\ Earlier(input, j, i)
                                  /\ targets[input.rows[j].name] = {h}
                                  /\ Key(input.rows[j].txn) = Key(input.rows[i].txn)})
        >= Saved(db, h, input.rows[i].txn)

\* Rows of a sheet in the order they are taken.
InOrder(input, rows) ==
    LET before(i) == {j \in rows : Earlier(input, j, i)}
    IN  [place \in 1..Cardinality(rows) |->
            CHOOSE i \in rows : Cardinality(before(i)) = place - 1]

(***************************************************************************)
(* The evaluation: whether a row is invalid, the new events of each        *)
(* holding in order of creation, and the names it is confirmed for.        *)
(***************************************************************************)
Evaluate(db, input, today, births) ==
    LET targets == Targets(db, input, births)
        target(i) == targets[input.rows[i].name]
        bad     == {i \in DOMAIN input.rows :
                       Invalid(db, input, input.rows[i], target(i), today)}
        kept    == {i \in DOMAIN input.rows \ bad :
                       Kept(db, input, input.rows[i], target(i))}
        new(h)  == {i \in kept : target(i) = {h} /\ Fresh(db, input, targets, kept, i)}
    IN  [invalid |-> bad # {},
         events  |-> [h \in DOMAIN db.ledger |->
                         LET mine == InOrder(input, new(h))
                         IN  [k \in DOMAIN mine |-> input.rows[mine[k]].txn]],
         names   |-> [h \in DOMAIN db.doc |-> Confirmed(db, input, h)]]
==============================================================================
