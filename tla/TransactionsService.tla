------------------------- MODULE TransactionsService -------------------------
(***************************************************************************)
(* The ledger of one holding, the position derived from it and the         *)
(* holding's line in the stored snapshots, under the requests that write   *)
(* them: TransactionsService.Create/Update/Delete and HoldingsService's    *)
(* Create, Delete and setOpeningDate.                                      *)
(*                                                                         *)
(* Each request runs as the code does, one MongoDB call per step, with its *)
(* compensation when the recompute refuses the write.  Nothing makes two   *)
(* calls of a request atomic, so steps of concurrent requests interleave.  *)
(* A call may fail, with or without having taken effect, and a request may *)
(* be abandoned between two calls (the server stops, or the caller goes    *)
(* away and cancels the request context, which every later call of the     *)
(* request, rollback included, inherits).                                  *)
(***************************************************************************)
EXTENDS Ledger

CONSTANTS
    Clients,         \* requests in flight at once, at most one each
    Ids,             \* event ids, in creation order
    Inputs,          \* the events a form may submit
    InitialLedgers,  \* ledgers the modelled period may start from
    Rows,            \* past days with a stored, line-backed snapshot row
    Today,
    OpeningDays,     \* the days an opening may be redated to
    Operations,      \* the operations offered to the clients
    Faults,          \* the kinds of failure that may happen
    MaxFaults        \* and how many of them

AllOperations == {"create", "update", "delete", "newHolding", "redate", "drop"}
AllFaults == {"transient", "answer", "rollback", "abort"}

EmptyLedger == [i \in Ids |-> NoEvent]
Ledgers == [Ids -> Transaction \cup {NoEvent}]
Flat == [stocksOwned |-> Zero, avgCostPrice |-> Zero,
         realizedPnL |-> Zero, totalDividends |-> Zero]

ASSUME IdsAreOrdered == Ids \subseteq Nat \ {0} /\ IsFiniteSet(Ids)
ASSUME InputsAreTransactions == Inputs \subseteq Transaction
ASSUME InitialLedgersAreAccepted ==
    \A ledger \in InitialLedgers : ledger \in Ledgers /\ ~Oversells(ledger)
ASSUME TodayIsADay == Today \in Nat
ASSUME RowsAreDays == Rows \subseteq Nat /\ OpeningDays \subseteq Nat
ASSUME KnownOperations == Operations \subseteq AllOperations
ASSUME KnownFaults == Faults \subseteq AllFaults /\ MaxFaults \in Nat

VARIABLES
    txns,        \* the transactions collection: the holding's ledger
    status,      \* the holding document: "absent", "held" or "deleted"
    position,    \* its four derived fields
    lines,       \* the holding's line in each stored snapshot row
    req,         \* the request each client has in flight
    unused,      \* event ids not handed out yet
    (* Observation only, read by no guard: *)
    faults,      \* failures so far (bounded by MaxFaults)
    derivedFrom, \* the ledger the stored position was computed from
    taint        \* what has been left out of step and not been repaired since

stored == <<txns, status, position, lines>>
vars == <<txns, status, position, lines, req, unused, faults, derivedFrom, taint>>

NoRequest ==
    [op |-> "none", pc |-> "idle", id |-> 0, prev |-> NoEvent, input |-> NoEvent,
     list |-> EmptyLedger, todo |-> {}, alone |-> FALSE]

Request ==
    [op : AllOperations \cup {"none"},
     pc : {"idle", "write", "list", "persist", "undo", "relist", "repersist",
           "heal", "rewrite"},
     id : Ids \cup {0},
     prev : Transaction \cup {NoEvent},   \* the event as read before the write
     input : Transaction \cup {NoEvent},  \* the event as submitted
     list : Ledgers,                      \* the ledger as listed for the recompute
     todo : SUBSET Rows,                  \* snapshot rows still to heal
     alone : BOOLEAN]                     \* no other request has overlapped it

\* Type correctness of the collections and of every request in flight.
TypeOK ==
    /\ txns \in Ledgers
    /\ status \in {"absent", "held", "deleted"}
    /\ req \in [Clients -> Request]
    /\ unused \in SUBSET Ids
    /\ faults \in Nat
    /\ derivedFrom \in Ledgers
    /\ DOMAIN lines = Rows
    /\ taint \in SUBSET {"ledger", "history"}

(***************************************************************************)
(* An opening counts from its declared day, but a heal starts at its date: *)
(* rows between the two are out of the heal's sight while they differ.     *)
(***************************************************************************)
OutOfStep(txn) == IsOpening(txn) /\ txn.openingDate # DayOf(txn.date)

Idle(c) == req[c].pc = "idle"
Quiet == \A c \in Clients : Idle(c)

Init ==
    /\ \/ txns = EmptyLedger /\ status = "absent"
       \/ txns \in InitialLedgers /\ status = "held"
    /\ derivedFrom = txns
    /\ position = RecomputePosition(txns)
    /\ lines = [day \in Rows |-> LineAsOf(txns, day)]
    /\ unused = Ids \ Events(txns)
    /\ req = [c \in Clients |-> NoRequest]
    /\ faults = 0
    /\ taint = IF \E i \in Events(txns) : OutOfStep(txns[i]) THEN {"history"} ELSE {}

------------------------------------------------------------------------------
(***************************************************************************)
(* Starting a request: the input checks and the reads before the write.  A *)
(* request that is refused here changes nothing and is not modelled.       *)
(***************************************************************************)
ValidTxnInput(input) ==
    CASE input.type \in {"buy", "sell"}    -> input.quantity > 0
      [] input.type = "dividend"           -> input.amount > 0 /\ DayOf(input.date) <= Today
      [] input.type \in {"split", "bonus"} -> Positive(input.ratio)
      [] input.type \in {"opening", "merger"} -> TRUE

Begin(c, request) ==
    /\ Idle(c)
    /\ request.op \in Operations
    /\ req' = [k \in Clients |->
                  IF k = c
                  THEN [request EXCEPT !.pc = "write",
                                       !.alone = \A o \in Clients \ {c} : Idle(o)]
                  ELSE [req[k] EXCEPT !.alone = FALSE]]

FreshId(id) == id \in unused /\ \A j \in unused : id <= j

\* Faulty variant: the holding is not looked up.
CreateStart_AnyHolding(c) ==
    /\ \E id \in unused, input \in Inputs :
        /\ FreshId(id)
        /\ ValidTxnInput(input)
        /\ unused' = unused \ {id}
        /\ Begin(c, [NoRequest EXCEPT !.op = "create", !.id = id, !.input = input])
    /\ UNCHANGED <<stored, faults, derivedFrom, taint>>

CreateStart(c) ==
    /\ status = "held"
    /\ \E id \in unused, input \in Inputs :
        /\ FreshId(id)
        /\ ValidTxnInput(input)
        /\ unused' = unused \ {id}
        /\ Begin(c, [NoRequest EXCEPT !.op = "create", !.id = id, !.input = input])
    /\ UNCHANGED <<stored, faults, derivedFrom, taint>>

UpdateStart(c) ==
    /\ \E id \in Events(txns), input \in Inputs :
        /\ ValidTxnInput(input)
        /\ Begin(c, [NoRequest EXCEPT !.op = "update", !.id = id,
                                      !.prev = txns[id], !.input = input])
    /\ UNCHANGED <<stored, unused, faults, derivedFrom, taint>>

DeleteStart(c) ==
    /\ \E id \in Events(txns) :
        Begin(c, [NoRequest EXCEPT !.op = "delete", !.id = id, !.prev = txns[id]])
    /\ UNCHANGED <<stored, unused, faults, derivedFrom, taint>>

\* HoldingsService.Create: the holding is inserted flat, then its opening, which
\* is dated now and has no opening date, is inserted if the form carries one.
InsertHolding ==
    /\ status = "absent"
    /\ status' = "held"
    /\ position' = Flat
    /\ derivedFrom' = EmptyLedger
    /\ UNCHANGED <<txns, lines, faults, taint>>

SeedsOpening(input) ==
    /\ IsOpening(input)
    /\ input.quantity # 0 \/ input.amount # 0 \/ input.seed # 0

NewHoldingStart(c) ==
    /\ InsertHolding
    /\ \E id \in unused, input \in Inputs :
        /\ FreshId(id)
        /\ SeedsOpening(input)
        /\ unused' = unused \ {id}
        /\ Begin(c, [NoRequest EXCEPT
                        !.op = "newHolding", !.id = id,
                        !.input = [input EXCEPT !.date = StartOf(Today) + 1,
                                                !.openingDate = Undated]])

NewHoldingBare(c) ==
    /\ Idle(c)
    /\ "newHolding" \in Operations
    /\ InsertHolding
    /\ UNCHANGED <<req, unused>>

\* HoldingsService.Update with an opening date: the holding is matched, then its
\* opening is looked up; of several the unsorted query keeps any.
RedateStart(c) ==
    /\ status = "held"
    /\ \E id \in Events(txns), day \in OpeningDays :
        /\ IsOpening(txns[id])
        /\ Begin(c, [NoRequest EXCEPT
                        !.op = "redate", !.id = id, !.prev = txns[id],
                        !.input = [txns[id] EXCEPT !.date = StartOf(day),
                                                   !.openingDate = day]])
    /\ UNCHANGED <<stored, unused, faults, derivedFrom, taint>>

\* HoldingsService.Delete removes the holding first, its ledger in the next call.
DropStart(c) ==
    /\ status = "held"
    /\ status' = "deleted"
    /\ Begin(c, [NoRequest EXCEPT !.op = "drop"])
    /\ UNCHANGED <<txns, position, lines, unused, faults, derivedFrom, taint>>

------------------------------------------------------------------------------
(***************************************************************************)
(* The write of each request.                                              *)
(***************************************************************************)
At(c, pc) == req[c].pc = pc
Doing(c, op, pc) == req[c].op = op /\ req[c].pc = pc
Move(c, pc) == req' = [req EXCEPT ![c].pc = pc]
Finish(c) == req' = [req EXCEPT ![c] = NoRequest]

\* Stores a new value of the request's event; the recompute comes next.
Store(c, txn) ==
    /\ txns' = [txns EXCEPT ![req[c].id] = txn]
    /\ taint' = IF txn # NoEvent /\ (OutOfStep(txn) \/ req[c].op = "redate")
                THEN taint \cup {"history"} ELSE taint
    /\ Move(c, "list")
    /\ UNCHANGED <<status, position, lines, unused, faults, derivedFrom>>

InsertTxn(c) ==
    /\ Doing(c, "create", "write") \/ Doing(c, "newHolding", "write")
    /\ Store(c, req[c].input)

\* Every field of the form is set.  The opening date is only set when the event
\* becomes or stays an opening and its day changes; otherwise the stored one,
\* which the form does not carry, is kept.
Rewritten(current, prev, input) ==
    [input EXCEPT !.openingDate =
        IF IsOpening(input) /\ DayOf(input.date) # DayOf(prev.date)
        THEN DayOf(input.date) ELSE current.openingDate]

RewriteTxn(c) ==
    LET r == req[c] IN
    /\ Doing(c, "update", "write")
    /\ txns[r.id] # NoEvent
    /\ Store(c, Rewritten(txns[r.id], r.prev, r.input))

RemoveTxn(c) ==
    /\ Doing(c, "delete", "write")
    /\ txns[req[c].id] # NoEvent
    /\ Store(c, NoEvent)

RedateOpening(c) ==
    LET r == req[c] IN
    /\ Doing(c, "redate", "write")
    /\ txns[r.id] # NoEvent
    /\ Store(c, [txns[r.id] EXCEPT !.date = r.input.date,
                                   !.openingDate = r.input.openingDate])

\* The event went away between the read and the write: answered 404.
WriteMisses(c) ==
    /\ At(c, "write")
    /\ req[c].op \in {"update", "delete", "redate"}
    /\ txns[req[c].id] = NoEvent
    /\ Finish(c)
    /\ UNCHANGED <<stored, unused, faults, derivedFrom, taint>>

CascadeDelete(c) ==
    /\ Doing(c, "drop", "write")
    /\ txns' = EmptyLedger
    /\ Finish(c)
    /\ UNCHANGED <<status, position, lines, unused, faults, derivedFrom, taint>>

------------------------------------------------------------------------------
(***************************************************************************)
(* recomputeAndPersist: list the ledger, replay it, store the position     *)
(* unless the ledger oversells or the holding is gone.                     *)
(***************************************************************************)
\* Faulty variant: the list misses the write it follows (a stale read).
ListLedger_BeforeWrite(c) ==
    /\ At(c, "list")
    /\ req' = [req EXCEPT ![c].list = [txns EXCEPT ![req[c].id] = req[c].prev],
                          ![c].pc = "persist"]
    /\ UNCHANGED <<stored, unused, faults, derivedFrom, taint>>

ListLedger(c) ==
    /\ \/ At(c, "list")   /\ req' = [req EXCEPT ![c].list = txns, ![c].pc = "persist"]
       \/ At(c, "relist") /\ req' = [req EXCEPT ![c].list = txns, ![c].pc = "repersist"]
    /\ UNCHANGED <<stored, unused, faults, derivedFrom, taint>>

Accepts(c) == ~Oversells(req[c].list) /\ status = "held"

StorePosition(c) ==
    /\ position' = RecomputePosition(req[c].list)
    /\ derivedFrom' = req[c].list
    /\ taint' = IF req[c].alone THEN taint \ {"ledger"} ELSE taint

Heals(op) == op \in {"create", "update", "delete"}
Compensates(op) == op \in {"create", "update", "delete"}

Persist(c) ==
    /\ At(c, "persist")
    /\ Accepts(c)
    /\ StorePosition(c)
    /\ IF Heals(req[c].op) THEN Move(c, "heal") ELSE Finish(c)
    /\ UNCHANGED <<txns, status, lines, unused, faults>>

\* HoldingsService.Create logs the error; setOpeningDate returns it.
Refuse(c) ==
    /\ At(c, "persist")
    /\ ~Accepts(c)
    /\ IF Compensates(req[c].op) THEN Move(c, "undo") ELSE Finish(c)
    /\ UNCHANGED <<stored, unused, faults, derivedFrom, taint>>

(***************************************************************************)
(* The compensation of a write whose recompute returned an error.  Only    *)
(* Update and Delete derive the position again; Create leaves it as it is. *)
(***************************************************************************)
Undo(c, txn) ==
    /\ txns' = [txns EXCEPT ![req[c].id] = txn]
    /\ UNCHANGED <<status, position, lines, unused, faults, derivedFrom, taint>>

\* Faulty variants: the refused event stays; a restored event keeps the opening
\* date the refused edit gave it; its position is not derived again.
RollbackCreate_Skipped(c) ==
    /\ Doing(c, "create", "undo")
    /\ Finish(c)
    /\ UNCHANGED <<stored, unused, faults, derivedFrom, taint>>

Restore_KeepsOpeningDate(c) ==
    LET r == req[c] IN
    /\ Doing(c, "update", "undo")
    /\ IF txns[r.id] # NoEvent
       THEN /\ Undo(c, [r.prev EXCEPT !.openingDate = txns[r.id].openingDate])
            /\ Move(c, "relist")
       ELSE Undo(c, NoEvent) /\ Finish(c)

Restore_Underived(c) ==
    /\ Doing(c, "update", "undo")
    /\ Undo(c, IF txns[req[c].id] # NoEvent THEN req[c].prev ELSE NoEvent)
    /\ Finish(c)

RollbackCreate(c) ==
    /\ Doing(c, "create", "undo")
    /\ Undo(c, NoEvent)
    /\ Finish(c)

Restore(c) ==
    /\ Doing(c, "update", "undo")
    /\ IF txns[req[c].id] # NoEvent
       THEN Undo(c, req[c].prev) /\ Move(c, "relist")
       ELSE Undo(c, NoEvent) /\ Finish(c)

Reinsert(c) ==
    /\ Doing(c, "delete", "undo")
    /\ Undo(c, req[c].prev)
    /\ Move(c, "relist")

Repersist(c) ==
    /\ At(c, "repersist")
    /\ IF Accepts(c) THEN StorePosition(c)
                     ELSE UNCHANGED <<position, derivedFrom, taint>>
    /\ Finish(c)
    /\ UNCHANGED <<txns, status, lines, unused, faults>>

------------------------------------------------------------------------------
(***************************************************************************)
(* healAfter and RecomputeFrom: the rows from the earliest day an event of *)
(* the request touched, newest first, each rewritten from the ledger as of *)
(* its day.  Dividends never move a line, and a change dated today or      *)
(* later has no stored row to heal.                                        *)
(***************************************************************************)
\* Faulty variants: only the new date is healed; every day of the range gets a
\* row, not just the days that have one.
TouchedDays_NewOnly(r) ==
    {DayOf(txn.date) : txn \in {e \in {r.input} : e # NoEvent /\ e.type # "dividend"}}

TouchedDays(r) ==
    {DayOf(txn.date) : txn \in {e \in {r.prev, r.input} :
                                   e # NoEvent /\ e.type # "dividend"}}

RowsToHeal(r) ==
    {row \in Rows : /\ row <= Today
                    /\ \E day \in TouchedDays(r) : day < Today /\ day <= row}

HealRead(c) ==
    LET todo == RowsToHeal(req[c]) IN
    /\ At(c, "heal")
    /\ IF todo = {}
       THEN Finish(c)
       ELSE req' = [req EXCEPT
                        ![c].pc = "rewrite",
                        ![c].todo = todo,
                        ![c].list = IF status = "held" THEN txns ELSE EmptyLedger]
    /\ UNCHANGED <<stored, unused, faults, derivedFrom, taint>>

HealRow(c) ==
    LET todo == req[c].todo IN
    /\ At(c, "rewrite")
    /\ \E row \in todo :
        /\ \A other \in todo : other <= row
        /\ lines' = [lines EXCEPT ![row] = LineAsOf(req[c].list, row)]
        /\ IF todo = {row} THEN Finish(c)
                           ELSE req' = [req EXCEPT ![c].todo = todo \ {row}]
    /\ UNCHANGED <<txns, status, position, unused, faults, derivedFrom, taint>>

------------------------------------------------------------------------------
(***************************************************************************)
(* Failures.  A call that fails takes the error path of the code.          *)
(***************************************************************************)
Fault(kind) ==
    /\ kind \in Faults
    /\ faults < MaxFaults
    /\ faults' = faults + 1

\* What is left out of step when a request ends here without its compensation:
\* nothing has happened before the write, except that a drop has already
\* removed the holding; from "relist" on the ledger is as it was before.
LeftBy(c) ==
    CASE Doing(c, "drop", "write")                -> {"ledger"}
      [] req[c].pc \in {"list", "persist", "undo"} -> {"ledger", "history"}
      [] req[c].pc \in {"heal", "rewrite"}         -> {"history"}
      [] OTHER                                    -> {}

Leave(c) ==
    /\ Finish(c)
    /\ taint' = taint \cup LeftBy(c)

\* A call before the compensation fails.  A failed recompute is compensated
\* like a refused one; a failed heal is logged and the request succeeds.
CallFails(c) ==
    /\ Fault("transient")
    /\ \/ (At(c, "write") \/ At(c, "heal") \/ At(c, "rewrite")) /\ Leave(c)
       \/ /\ At(c, "list") \/ At(c, "persist")
          /\ IF Compensates(req[c].op) THEN Move(c, "undo") /\ UNCHANGED taint
                                       ELSE Leave(c)
    /\ UNCHANGED <<stored, unused, derivedFrom>>

\* The position is stored, but the answer does not arrive and the caller is told
\* of an error: the write is compensated although its recompute took effect.
\* Any other call whose answer is lost leaves what the call and then Abandon or
\* the failure of the next call leave.
AnswerLost(c) ==
    /\ Fault("answer")
    /\ At(c, "persist")
    /\ Accepts(c)
    /\ Compensates(req[c].op)
    /\ position' = RecomputePosition(req[c].list)
    /\ derivedFrom' = req[c].list
    /\ taint' = taint \cup {"ledger"}
    /\ Move(c, "undo")
    /\ UNCHANGED <<txns, status, lines, unused>>

\* A call of the compensation fails: Create ignores it, the others log it.
RollbackFails(c) ==
    /\ Fault("rollback")
    /\ At(c, "undo") \/ At(c, "relist") \/ At(c, "repersist")
    /\ Leave(c)
    /\ UNCHANGED <<stored, unused, derivedFrom>>

\* The request is abandoned: the process stops or its context is cancelled.
Abandon(c) ==
    /\ Fault("abort")
    /\ ~Idle(c)
    /\ Leave(c)
    /\ UNCHANGED <<stored, unused, derivedFrom>>

------------------------------------------------------------------------------
Start(c) ==
    \/ CreateStart(c) \/ UpdateStart(c) \/ DeleteStart(c)
    \/ NewHoldingStart(c) \/ NewHoldingBare(c) \/ RedateStart(c) \/ DropStart(c)

Write(c) ==
    \/ InsertTxn(c) \/ RewriteTxn(c) \/ RemoveTxn(c) \/ RedateOpening(c)
    \/ WriteMisses(c) \/ CascadeDelete(c)

Recompute(c) ==
    \/ ListLedger(c) \/ Persist(c) \/ Refuse(c)
    \/ RollbackCreate(c) \/ Restore(c) \/ Reinsert(c) \/ Repersist(c)

Heal(c) == HealRead(c) \/ HealRow(c)

Fail(c) == CallFails(c) \/ AnswerLost(c) \/ RollbackFails(c) \/ Abandon(c)

Next == \E c \in Clients : Start(c) \/ Write(c) \/ Recompute(c) \/ Heal(c) \/ Fail(c)

Spec == Init /\ [][Next]_vars

------------------------------------------------------------------------------
(***************************************************************************)
(* Safety.                                                                 *)
(***************************************************************************)

\* Where the position comes from: recomputeAndPersist returns ErrOversell WITHOUT
\* persisting (position.go:18-21), so it is always the replay of one complete
\* ledger that did not oversell.
PositionFromAcceptedLedger ==
    /\ position = RecomputePosition(derivedFrom)
    /\ ~Oversells(derivedFrom)

\* "Not atomic ... acceptable for a single-user portfolio" (position.go:23-27): a
\* request that met no other leaves, when it succeeds, the position of the ledger
\* as it stands, whatever earlier races and failures had left behind.
Succeeded(c) == At(c, "heal") \/ At(c, "rewrite")

SoloSuccessIsExact ==
    \A c \in Clients :
        req[c].alone /\ Succeeded(c) =>
            /\ status = "held"
            /\ position = RecomputePosition(txns)
            /\ ~Oversells(txns)

\* "Restore the prior values and re-derive the holding" (transactions.go:274),
\* "Re-insert and re-derive so the ledger stays consistent" (transactions.go:311):
\* an Update or Delete that nothing overlapped, and whose compensation does not
\* fail, ends with the position of the ledger it put back, whatever its recompute
\* had stored before it returned the error and whatever it found stored.
SoloCompensationIsExact ==
    [][\A c \in Clients :
          /\ req[c].pc \in {"undo", "relist", "repersist"} /\ Idle(c)'
          /\ req[c].op \in {"update", "delete"}
          /\ req[c].alone /\ faults' = faults
          /\ status = "held" /\ ~Oversells(txns')
          => position' = RecomputePosition(txns')]_vars

\* "A holding's position is not edited directly -- it is a projection of that
\* holding's trade ledger, recomputed on every write" (docs/portfolio-model.md:20-22).
\* With one client, the four fields of the holding are the replay of its ledger
\* whenever no request is in flight, but for two kinds of failure, until a request
\* succeeds again: one that took a compensation with it, and a stored position
\* whose answer was lost to a Create, which deletes its event and, unlike Update
\* and Delete, does not recompute (transactions.go:209-216, 273-277, 311-323).
ProjectionIsExact ==
    Quiet /\ status = "held" /\ "ledger" \notin taint =>
        position = RecomputePosition(txns) /\ ~Oversells(txns)

\* "Backdated ledger edits heal the affected stored snapshots so history stays
\* consistent with the corrected ledger" (docs/history-and-snapshots.md:24-25):
\* healing from the earliest day touched (transactions.go:280-282) is enough for
\* every row of the past.
HistoryMatchesLedger ==
    Quiet /\ status = "held" /\ "history" \notin taint =>
        \A row \in Rows : lines[row] = LineAsOf(txns, row)

\* "A correct opening date keeps the historical snapshots valuing that holding
\* from the right day" (docs/portfolio-model.md:42-43), but setOpeningDate calls no
\* heal: the rows it leaves valued from the old day are those between the two
\* days, and no other.
RedatesMissOnlyRowsBetween ==
    [][\A c \in Clients, row \in Rows :
          /\ Doing(c, "redate", "write") /\ txns' # txns
          /\ lines[row] = LineAsOf(txns, row)
          /\ lines'[row] # LineAsOf(txns', row)
          => LET days == {txns[req[c].id].openingDate, txns'[req[c].id].openingDate}
             IN  (\E day \in days : day <= row) /\ (\E day \in days : row < day)]_vars

\* "On oversell the prior values are restored so the ledger never lands in a
\* rejected state" (transactions.go:224-225).  The values restored are those read
\* before the write: a compensation leaves a ledger that the replay refuses only
\* if another request overlapped it, if a call of it failed, or if the ledger was
\* already refused when the request came.
FoundBy(c) == [txns EXCEPT ![req[c].id] = req[c].prev]

RejectedLedgersComeFromOverlap ==
    [][\A c \in Clients :
          At(c, "undo") /\ req'[c].pc # "undo" /\ Oversells(txns') =>
              ~req[c].alone \/ faults' # faults \/ Oversells(FoundBy(c))]_vars

\* "Cascade: remove the holding's ledger so no orphan transactions linger"
\* (holdings.go:285).  Create asks for the holding before it inserts; Delete puts
\* its event back without asking.  So an event joins the ledger of a deleted
\* holding only under a request that another overlapped, or is put back where a
\* cascade cut short had left it already.
OrphansComeFromOverlap ==
    [][\A id \in Ids :
          status = "deleted" /\ txns[id] = NoEvent /\ txns'[id] # NoEvent =>
              \E c \in Clients : req[c].id = id /\ (~req[c].alone \/ req[c].prev = txns'[id])]_vars

\* What compensations leave behind they leave behind under overlaps and failures.
DamageComesFromOverlap == RejectedLedgersComeFromOverlap /\ OrphansComeFromOverlap

(***************************************************************************)
(* Refinement: with one client a request is atomic, up to the failures that*)
(* defeat its compensation.  The committed ledger is the stored one with   *)
(* the event of an undecided request as it was.                            *)
(***************************************************************************)
Undecided(c) == req[c].pc \in {"list", "persist", "undo"}

Committed ==
    IF \E c \in Clients : Doing(c, "drop", "write")
    THEN EmptyLedger
    ELSE [i \in Ids |->
             IF \E c \in Clients : Undecided(c) /\ req[c].id = i
             THEN req[CHOOSE c \in Clients : Undecided(c) /\ req[c].id = i].prev
             ELSE txns[i]]

Atomic == INSTANCE AtomicLedger WITH
    ledger <- Committed, derived <- derivedFrom, damaged <- "ledger" \in taint,
    Opening <- {<<EmptyLedger, "absent">>} \cup (InitialLedgers \X {"held"})

\* Create, Update, Delete, the opening of a new holding and a redate change one
\* event and the position together or nothing at all; a drop removes the holding
\* with its whole ledger.
ImplementsAtomicLedger == Atomic!Spec
==============================================================================
