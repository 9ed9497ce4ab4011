---------------------- MODULE TransactionsServiceProofs ----------------------
(***************************************************************************)
(* Theorems about TransactionsService, for every set of clients, events,   *)
(* rows, operations and faults.  Most depend only on which ledger was      *)
(* replayed and when; what a few need to know of the replay itself is      *)
(* proved in LedgerProofs and brought here first.                          *)
(***************************************************************************)
EXTENDS TransactionsService, LedgerProofs

------------------------------------------------------------------------------
(***************************************************************************)
(* The replay of the holding's ledgers.                                    *)
(***************************************************************************)
LEMMA LedgersAreLedgers ==
  ASSUME NEW ledger \in Ledgers
  PROVE  IsLedger(ledger)
BY IdsAreOrdered DEF IsLedger, Ledgers, Events

LEMMA EmptyLedgerIsFlat ==
  RecomputePosition(EmptyLedger) = Flat /\ ~Oversells(EmptyLedger)
<1>1. EmptyLedger \in Ledgers /\ Events(EmptyLedger) = {}
  BY DEF EmptyLedger, Ledgers, Events
<1>2. Replay(EmptyLedger) = EmptyReplay
  BY <1>1, LedgersAreLedgers, ReplayOfNothing
<1>3. ~Positive(Zero)
  BY DEF Positive, Zero, Whole
<1>4. QED
  BY <1>2, <1>3 DEF RecomputePosition, Derived, EmptyReplay, Oversells, Flat

Redated(txn, day) == [txn EXCEPT !.date = StartOf(day), !.openingDate = day]

\* An opening alone does not oversell, and a new date for one changes nothing.
LEMMA OpeningsAreNeutral ==
  /\ \A i \in Ids, txn \in Transaction :
        IsOpening(txn) => ~Oversells([EmptyLedger EXCEPT ![i] = txn])
  /\ \A ledger \in Ledgers, i \in Ids, day \in OpeningDays :
        ledger[i] # NoEvent /\ IsOpening(ledger[i]) =>
            LET redated == [ledger EXCEPT ![i] = Redated(ledger[i], day)]
            IN  /\ RecomputePosition(redated) = RecomputePosition(ledger)
                /\ Oversells(redated) = Oversells(ledger)
<1>1. ASSUME NEW i \in Ids, NEW txn \in Transaction, IsOpening(txn)
      PROVE  ~Oversells([EmptyLedger EXCEPT ![i] = txn])
  <2> DEFINE ledger == [EmptyLedger EXCEPT ![i] = txn]
  <2>1. ledger \in Ledgers /\ \A j \in Events(ledger) : ledger[j].type # "sell"
    BY <1>1 DEF EmptyLedger, Ledgers, Events, IsOpening
  <2> HIDE DEF ledger
  <2>2. IsLedger(ledger)
    BY <2>1, LedgersAreLedgers
  <2>3. ~Oversells(ledger)
    BY <2>1, <2>2, NoSellNoOversell
  <2>4. QED
    BY <2>3 DEF ledger
<1>2. ASSUME NEW ledger \in Ledgers, NEW i \in Ids, NEW day \in OpeningDays,
             ledger[i] # NoEvent, IsOpening(ledger[i])
      PROVE  LET redated == [ledger EXCEPT ![i] = Redated(ledger[i], day)]
             IN  /\ RecomputePosition(redated) = RecomputePosition(ledger)
                 /\ Oversells(redated) = Oversells(ledger)
  <2> DEFINE txn == Redated(ledger[i], day)
             redated == [ledger EXCEPT ![i] = txn]
  <2>1. ledger[i] \in Transaction /\ ledger[i].type = "opening"
    BY <1>2 DEF Ledgers, IsOpening
  <2>2. day \in Nat /\ StartOf(day) \in Nat
    BY RowsAreDays DEF StartOf, SlotsPerDay
  <2>3. /\ txn \in Transaction /\ txn.type = "opening" /\ txn.quantity = ledger[i].quantity
        /\ txn.amount = ledger[i].amount /\ txn.seed = ledger[i].seed
    BY <2>1, <2>2 DEF Redated, Transaction
  <2>4. txn # NoEvent
    BY <2>3 DEF NoEvent
  <2> HIDE DEF txn
  <2>5. /\ redated \in Ledgers /\ redated[i] = txn
        /\ \A j \in Ids : j # i => redated[j] = ledger[j]
    BY <2>3 DEF Ledgers
  <2>6. DOMAIN ledger = Ids /\ DOMAIN redated = Ids
    BY <2>5 DEF Ledgers
  <2> HIDE DEF redated
  <2>7. Events(redated) = Events(ledger)
    BY <1>2, <2>4, <2>5, <2>6 DEF Events
  <2>8. IsLedger(ledger) /\ IsLedger(redated)
    BY <2>5, LedgersAreLedgers
  <2>9. SameButOpenings(ledger, redated)
    BY <2>1, <2>3, <2>5, <2>6, <2>7, <2>8 DEF SameButOpenings, IsOpening, Events
  <2>10. SamePosition(Replay(redated), Replay(ledger))
    BY <2>9, OpeningDatesDoNotMatter
  <2>11. QED
    BY <2>10 DEF SamePosition, RecomputePosition, Derived, Oversells, redated, txn
<1>3. QED
  BY <1>1, <1>2

\* A dividend shows in no line of a snapshot.
LEMMA DividendsMoveNoLine ==
  \A ledger \in Ledgers, i \in Ids, txn \in Transaction, row \in Rows :
      txn.type = "dividend" =>
          LineAsOf([ledger EXCEPT ![i] = txn], row) = LineAsOf([ledger EXCEPT ![i] = NoEvent], row)
<1> SUFFICES ASSUME NEW ledger \in Ledgers, NEW i \in Ids, NEW txn \in Transaction,
                    NEW row \in Rows, txn.type = "dividend"
             PROVE  LineAsOf([ledger EXCEPT ![i] = txn], row) = LineAsOf([ledger EXCEPT ![i] = NoEvent], row)
  OBVIOUS
<1> DEFINE with == AsOfLedger([ledger EXCEPT ![i] = txn], row)
           less == AsOfLedger([ledger EXCEPT ![i] = NoEvent], row)
<1>0. txn # NoEvent
  BY DEF NoEvent
<1>1. /\ with \in Ledgers /\ less \in Ledgers /\ less[i] = NoEvent
      /\ with[i] = IF InEffect(txn, row) THEN txn ELSE NoEvent
      /\ \A j \in Ids : j # i => with[j] = less[j]
  BY <1>0 DEF AsOfLedger, Ledgers
<1> HIDE DEF with, less
<1>2. CASE ~InEffect(txn, row)
  <2>1. with = less
    BY <1>1, <1>2 DEF Ledgers
  <2>2. QED
    BY <2>1 DEF LineAsOf, with, less
<1>3. CASE InEffect(txn, row)
  <2>1. IsLedger(with) /\ IsLedger(less)
    BY <1>1, LedgersAreLedgers
  <2>2. DOMAIN with = Ids /\ DOMAIN less = Ids
    BY <1>1 DEF Ledgers
  <2>3. OneEventLess(less, with, i) /\ with[i] = txn
    BY <1>0, <1>1, <1>3, <2>1, <2>2 DEF OneEventLess, Events
  <2>4. Alike(Replay(with), Replay(less))
    BY <2>3, DividendsMoveNothing
  <2>5. QED
    BY <2>4 DEF Alike, LineAsOf, RecomputePosition, Derived, with, less
<1>4. QED
  BY <1>2, <1>3

------------------------------------------------------------------------------
(***************************************************************************)
(* The stored position always comes from one accepted ledger.              *)
(***************************************************************************)

\* The stored position is the replay of one complete ledger that did not
\* oversell, with any number of overlapping requests and failures: only
\* recomputeAndPersist and the insertion of a flat holding write it.
LEMMA PositionIsAlwaysAccepted == Spec => []PositionFromAcceptedLedger
<1>1. Init => PositionFromAcceptedLedger
  BY InitialLedgersAreAccepted, EmptyLedgerIsFlat DEF Init, PositionFromAcceptedLedger
<1>2. PositionFromAcceptedLedger /\ [Next]_vars => PositionFromAcceptedLedger'
  <2> SUFFICES ASSUME PositionFromAcceptedLedger, [Next]_vars
               PROVE  PositionFromAcceptedLedger'
    OBVIOUS
  <2> USE DEF PositionFromAcceptedLedger
  <2>1. CASE UNCHANGED <<position, derivedFrom>>
    BY <2>1
  <2>2. CASE \E c \in Clients : Persist(c) \/ Repersist(c) \/ AnswerLost(c)
    BY <2>2 DEF Persist, Repersist, AnswerLost, StorePosition, Accepts, stored
  <2>3. CASE InsertHolding
    BY <2>3, EmptyLedgerIsFlat DEF InsertHolding
  <2>4. ASSUME NEW c \in Clients, Start(c)
        PROVE  UNCHANGED <<position, derivedFrom>> \/ InsertHolding
    BY <2>4 DEF Start, CreateStart, UpdateStart, DeleteStart, NewHoldingStart,
                NewHoldingBare, RedateStart, DropStart, stored
  <2>5. ASSUME NEW c \in Clients, Write(c)
        PROVE  UNCHANGED <<position, derivedFrom>>
    BY <2>5 DEF Write, InsertTxn, RewriteTxn, RemoveTxn, RedateOpening,
                WriteMisses, CascadeDelete, Store, stored
  <2>6. ASSUME NEW c \in Clients, Recompute(c), ~Persist(c), ~Repersist(c)
        PROVE  UNCHANGED <<position, derivedFrom>>
    BY <2>6 DEF Recompute, ListLedger, Refuse, RollbackCreate, Restore, Reinsert,
                Undo, stored
  <2>7. ASSUME NEW c \in Clients, Heal(c) \/ Fail(c), ~AnswerLost(c)
        PROVE  UNCHANGED <<position, derivedFrom>>
    BY <2>7 DEF Heal, HealRead, HealRow, Fail, CallFails, RollbackFails, Abandon, stored
  <2>8. QED
    BY <2>1, <2>2, <2>3, <2>4, <2>5, <2>6, <2>7 DEF Next, vars
<1>3. QED
  BY <1>1, <1>2, PTL DEF Spec

------------------------------------------------------------------------------
(***************************************************************************)
(* Type correctness.  A request past its start names an event, and carries *)
(* one to store if its write needs one.                                    *)
(***************************************************************************)
WellFormed(r) ==
    /\ r.pc # "idle" /\ r.op # "drop" => r.id \in Ids
    /\ r.pc = "write" /\ r.op \in {"create", "newHolding", "update", "redate"}
         => r.input \in Transaction
    /\ r.op = "drop" => r.pc = "write"

RequestsOK == req \in [Clients -> Request] /\ \A c \in Clients : WellFormed(req[c])

TypeInv == TypeOK /\ RequestsOK

LEMMA DaysAreNaturals == ASSUME NEW date \in Nat PROVE DayOf(date) \in Nat
  BY DEF DayOf, SlotsPerDay

LEMMA StartsAreNaturals == ASSUME NEW day \in Nat PROVE StartOf(day) \in Nat
  BY DEF StartOf, SlotsPerDay

LEMMA TransactionsAreEvents == ASSUME NEW txn \in Transaction PROVE txn # NoEvent
  BY DEF Transaction, NoEvent, TxnType

\* An edit stores a transaction whatever the three it is made of.
LEMMA RewrittenIsTransaction ==
  ASSUME NEW current \in Transaction, NEW prev, NEW input \in Transaction
  PROVE  Rewritten(current, prev, input) \in Transaction
  BY DaysAreNaturals DEF Rewritten, Transaction

LEMMA NoRequestIsARequest == NoRequest \in Request /\ WellFormed(NoRequest)
  BY DEF NoRequest, Request, EmptyLedger, Ledgers, WellFormed

\* Starting, moving and finishing a request keep every request well formed.
LEMMA BeginKeepsRequests ==
  ASSUME RequestsOK, NEW c \in Clients, NEW request \in Request, Begin(c, request),
         request.op # "drop" => request.id \in Ids,
         request.op \in {"create", "newHolding", "update", "redate"}
             => request.input \in Transaction
  PROVE  RequestsOK'
  <1> DEFINE started == [request EXCEPT !.pc = "write",
                                        !.alone = \A o \in Clients \ {c} : Idle(o)]
             met(k) == [req[k] EXCEPT !.alone = FALSE]
  <1>1. started \in Request /\ WellFormed(started)
    BY DEF Request, WellFormed
  <1>2. ASSUME NEW k \in Clients PROVE met(k) \in Request /\ WellFormed(met(k))
    BY <1>2 DEF RequestsOK, Request, WellFormed
  <1>3. req' = [k \in Clients |-> IF k = c THEN started ELSE met(k)]
    BY DEF Begin
  <1>4. QED
    BY <1>1, <1>2, <1>3 DEF RequestsOK

LEMMA MoveKeepsRequests ==
  ASSUME RequestsOK, NEW c \in Clients, NEW pc, Move(c, pc), ~Idle(c), req[c].op # "drop",
         pc \in {"list", "persist", "undo", "relist", "repersist", "heal", "rewrite"}
  PROVE  RequestsOK'
  BY DEF RequestsOK, Request, WellFormed, Move, Idle

LEMMA FinishKeepsRequests ==
  ASSUME RequestsOK, NEW c \in Clients, Finish(c)
  PROVE  RequestsOK'
  BY NoRequestIsARequest DEF RequestsOK, Finish

\* The event a request names, the rows it heals and the ledger it lists.
LEMMA HealedRowsExist == ASSUME NEW r PROVE RowsToHeal(r) \subseteq Rows
  BY DEF RowsToHeal

LEMMA EmptyLedgerIsALedger == EmptyLedger \in Ledgers
  BY DEF EmptyLedger, Ledgers

LEMMA InitTypes == Init => TypeInv
<1> SUFFICES ASSUME Init PROVE TypeInv
  OBVIOUS
<1>1. txns \in Ledgers /\ status \in {"absent", "held", "deleted"}
  BY EmptyLedgerIsALedger, InitialLedgersAreAccepted DEF Init
<1>2. RequestsOK
  BY NoRequestIsARequest DEF Init, RequestsOK
<1>3. QED
  BY <1>1, <1>2 DEF Init, TypeInv, TypeOK, RequestsOK, Events

LEMMA StartKeepsTypes ==
  ASSUME TypeInv, NEW c \in Clients, Start(c)
  PROVE  TypeInv'
<1> USE DEF stored, TypeInv
<1>1. TypeOK /\ RequestsOK /\ Operations \subseteq AllOperations
  BY KnownOperations
<1>2. ASSUME NEW id \in Events(txns) PROVE id \in Ids /\ txns[id] \in Transaction
  BY <1>1, <1>2 DEF TypeOK, Ledgers, Events
<1>3. CASE CreateStart(c)
  <2> DEFINE request(id, input) == [NoRequest EXCEPT !.op = "create", !.id = id, !.input = input]
  <2>1. PICK id \in unused, input \in Inputs : Begin(c, request(id, input))
    BY <1>3 DEF CreateStart
  <2>2. id \in Ids /\ input \in Transaction
    BY <1>1, <2>1, InputsAreTransactions DEF TypeOK
  <2>request. /\ request(id, input) \in Request /\ request(id, input).op = "create"
        /\ request(id, input).id = id /\ request(id, input).input = input
    BY <2>2, NoRequestIsARequest DEF Request, AllOperations, NoRequest
  <2>3. RequestsOK'
    <3> HIDE DEF request
    <3> QED
      BY <1>1, <2>1, <2>2, <2>request, BeginKeepsRequests
  <2>4. QED
    BY <1>1, <1>3, <2>3 DEF CreateStart, TypeOK, RequestsOK
<1>4. CASE UpdateStart(c)
  <2> DEFINE request(id, input) == [NoRequest EXCEPT !.op = "update", !.id = id,
                                                     !.prev = txns[id], !.input = input]
  <2>1. PICK id \in Events(txns), input \in Inputs : Begin(c, request(id, input))
    BY <1>4 DEF UpdateStart
  <2>2. id \in Ids /\ txns[id] \in Transaction /\ input \in Transaction
    BY <1>2, <2>1, InputsAreTransactions
  <2>request. /\ request(id, input) \in Request /\ request(id, input).op = "update"
        /\ request(id, input).id = id /\ request(id, input).input = input
    BY <2>2, NoRequestIsARequest DEF Request, AllOperations, NoRequest
  <2>3. RequestsOK'
    <3> HIDE DEF request
    <3> QED
      BY <1>1, <2>1, <2>2, <2>request, BeginKeepsRequests
  <2>4. QED
    BY <1>1, <1>4, <2>3 DEF UpdateStart, TypeOK, RequestsOK
<1>5. CASE DeleteStart(c)
  <2> DEFINE request(id) == [NoRequest EXCEPT !.op = "delete", !.id = id, !.prev = txns[id]]
  <2>1. PICK id \in Events(txns) : Begin(c, request(id))
    BY <1>5 DEF DeleteStart
  <2>event. id \in Ids /\ txns[id] \in Transaction
    BY <1>2, <2>1
  <2>request. /\ request(id) \in Request /\ request(id).op = "delete" /\ request(id).id = id
    BY <2>event, NoRequestIsARequest DEF Request, AllOperations, NoRequest
  <2>2. RequestsOK'
    <3> HIDE DEF request
    <3> QED
      BY <1>1, <2>1, <2>event, <2>request, BeginKeepsRequests
  <2>3. QED
    BY <1>1, <1>5, <2>2 DEF DeleteStart, TypeOK, RequestsOK
<1>6. CASE NewHoldingStart(c)
  <2> DEFINE opening(input) == [input EXCEPT !.date = StartOf(Today) + 1,
                                             !.openingDate = Undated]
             request(id, input) == [NoRequest EXCEPT !.op = "newHolding", !.id = id,
                                                     !.input = opening(input)]
  <2>1. PICK id \in unused, input \in Inputs : Begin(c, request(id, input))
    BY <1>6 DEF NewHoldingStart
  <2>2. id \in Ids /\ input \in Transaction
    BY <1>1, <2>1, InputsAreTransactions DEF TypeOK
  <2>3. opening(input) \in Transaction
    <3>1. StartOf(Today) + 1 \in Nat
      BY TodayIsADay, StartsAreNaturals
    <3>2. QED
      BY <2>2, <3>1 DEF Transaction
  <2> HIDE DEF opening
  <2>request. /\ request(id, input) \in Request /\ request(id, input).op = "newHolding"
        /\ request(id, input).id = id /\ request(id, input).input = opening(input)
    BY <2>2, <2>3, NoRequestIsARequest DEF Request, AllOperations, NoRequest
  <2>4. RequestsOK'
    <3> HIDE DEF request
    <3> QED
      BY <1>1, <2>1, <2>2, <2>3, <2>request, BeginKeepsRequests
  <2>5. QED
    BY <1>1, <1>6, <2>4, EmptyLedgerIsALedger
    DEF NewHoldingStart, InsertHolding, TypeOK, RequestsOK
<1>7. CASE NewHoldingBare(c)
  BY <1>1, <1>7, EmptyLedgerIsALedger DEF NewHoldingBare, InsertHolding, TypeOK, RequestsOK
<1>8. CASE RedateStart(c)
  <2> DEFINE redated(id, day) == [txns[id] EXCEPT !.date = StartOf(day),
                                                  !.openingDate = day]
             request(id, day) == [NoRequest EXCEPT !.op = "redate", !.id = id, !.prev = txns[id],
                                                   !.input = redated(id, day)]
  <2>1. PICK id \in Events(txns), day \in OpeningDays : Begin(c, request(id, day))
    BY <1>8 DEF RedateStart
  <2>2. id \in Ids /\ txns[id] \in Transaction
    BY <1>2, <2>1
  <2>3. redated(id, day) \in Transaction
    BY <2>2, RowsAreDays, StartsAreNaturals DEF Transaction
  <2> HIDE DEF redated
  <2>request. /\ request(id, day) \in Request /\ request(id, day).op = "redate"
        /\ request(id, day).id = id /\ request(id, day).input = redated(id, day)
    BY <2>2, <2>3, NoRequestIsARequest DEF Request, AllOperations, NoRequest
  <2>4. RequestsOK'
    <3> HIDE DEF request
    <3> QED
      BY <1>1, <2>1, <2>2, <2>3, <2>request, BeginKeepsRequests
  <2>5. QED
    BY <1>1, <1>8, <2>4 DEF RedateStart, TypeOK, RequestsOK
<1>9. CASE DropStart(c)
  <2> DEFINE request == [NoRequest EXCEPT !.op = "drop"]
  <2>1. Begin(c, request)
    BY <1>9 DEF DropStart
  <2>request. request \in Request /\ request.op = "drop"
    BY NoRequestIsARequest DEF Request, AllOperations, NoRequest
  <2>2. RequestsOK'
    <3> HIDE DEF request
    <3> QED
      BY <1>1, <2>1, <2>request, BeginKeepsRequests
  <2>3. QED
    BY <1>1, <1>9, <2>2 DEF DropStart, TypeOK, RequestsOK
<1>10. QED
  BY <1>3, <1>4, <1>5, <1>6, <1>7, <1>8, <1>9 DEF Start

\* A request that has started names an event of the ledger.
LEMMA StartedRequestsNameAnEvent ==
  ASSUME TypeInv, NEW c \in Clients, ~Idle(c), req[c].op # "drop"
  PROVE  req[c].id \in Ids /\ txns[req[c].id] \in Transaction \cup {NoEvent}
  BY DEF TypeInv, TypeOK, RequestsOK, WellFormed, Idle, Ledgers

\* Replacing one event of a ledger.
LEMMA StoredEventKeepsLedger ==
  ASSUME TypeInv, NEW i \in Ids, NEW txn \in Transaction \cup {NoEvent}
  PROVE  [txns EXCEPT ![i] = txn] \in Ledgers
  BY DEF TypeInv, TypeOK, Ledgers

LEMMA StoreKeepsTypes ==
  ASSUME TypeInv, NEW c \in Clients, NEW txn \in Transaction \cup {NoEvent},
         Store(c, txn), ~Idle(c), req[c].op # "drop", faults' = faults
  PROVE  TypeInv'
<1>1. txns' \in Ledgers
  BY StartedRequestsNameAnEvent, StoredEventKeepsLedger DEF Store
<1>2. RequestsOK'
  BY MoveKeepsRequests DEF Store, TypeInv
<1>3. QED
  BY <1>1, <1>2 DEF Store, TypeInv, TypeOK, RequestsOK

LEMMA WriteKeepsTypes ==
  ASSUME TypeInv, NEW c \in Clients, Write(c)
  PROVE  TypeInv'
<1>1. req[c] \in Request /\ WellFormed(req[c])
  BY DEF TypeInv, RequestsOK
<1>2. CASE InsertTxn(c)
  BY <1>1, <1>2, StoreKeepsTypes DEF InsertTxn, Doing, Idle, WellFormed, Store
<1>3. CASE RewriteTxn(c)
  <2>1. txns[req[c].id] \in Transaction /\ req[c].input \in Transaction
    BY <1>1, <1>3, StartedRequestsNameAnEvent DEF RewriteTxn, Doing, Idle, WellFormed
  <2>2. Rewritten(txns[req[c].id], req[c].prev, req[c].input) \in Transaction
    BY <2>1, RewrittenIsTransaction
  <2>3. QED
    BY <1>3, <2>2, StoreKeepsTypes DEF RewriteTxn, Doing, Idle, Store
<1>4. CASE RemoveTxn(c)
  BY <1>4, StoreKeepsTypes DEF RemoveTxn, Doing, Idle, Store
<1>5. CASE RedateOpening(c)
  <2> DEFINE redated == [txns[req[c].id] EXCEPT !.date = req[c].input.date,
                                                !.openingDate = req[c].input.openingDate]
  <2>1. txns[req[c].id] \in Transaction /\ req[c].input \in Transaction
    BY <1>1, <1>5, StartedRequestsNameAnEvent DEF RedateOpening, Doing, Idle, WellFormed
  <2>2. redated \in Transaction
    BY <2>1 DEF Transaction
  <2>3. Store(c, redated) /\ ~Idle(c) /\ req[c].op # "drop"
    BY <1>5 DEF RedateOpening, Doing, Idle
  <2> HIDE DEF redated
  <2>4. QED
    BY <2>2, <2>3, StoreKeepsTypes DEF Store
<1>6. CASE WriteMisses(c)
  BY <1>6, FinishKeepsRequests DEF WriteMisses, TypeInv, TypeOK, RequestsOK, stored
<1>7. CASE CascadeDelete(c)
  BY <1>7, FinishKeepsRequests, EmptyLedgerIsALedger
  DEF CascadeDelete, TypeInv, TypeOK, RequestsOK
<1>8. QED
  BY <1>2, <1>3, <1>4, <1>5, <1>6, <1>7 DEF Write

\* Listing and storing keep every ledger involved a ledger.
LEMMA RecomputeKeepsTypes ==
  ASSUME TypeInv, NEW c \in Clients, Recompute(c)
  PROVE  TypeInv'
<1> USE DEF TypeInv, stored
<1>1. req[c] \in Request /\ WellFormed(req[c]) /\ req[c].list \in Ledgers
      /\ req[c].prev \in Transaction \cup {NoEvent}
  BY DEF RequestsOK, Request
<1>2. CASE ListLedger(c)
  <2>1. RequestsOK'
    BY <1>1, <1>2 DEF ListLedger, At, RequestsOK, Request, WellFormed, TypeOK
  <2>2. QED
    BY <1>2, <2>1 DEF ListLedger, TypeOK, RequestsOK
<1>3. CASE Persist(c)
  <2>1. RequestsOK'
    BY <1>1, <1>3, MoveKeepsRequests, FinishKeepsRequests DEF Persist, At, Idle, WellFormed
  <2>2. QED
    BY <1>1, <1>3, <2>1 DEF Persist, StorePosition, TypeOK, RequestsOK
<1>4. CASE Refuse(c)
  <2>1. RequestsOK'
    BY <1>1, <1>4, MoveKeepsRequests, FinishKeepsRequests DEF Refuse, At, Idle, WellFormed
  <2>2. QED
    BY <1>4, <2>1 DEF Refuse, TypeOK, RequestsOK
<1>5. ASSUME NEW txn \in Transaction \cup {NoEvent}, Undo(c, txn), ~Idle(c),
             req[c].op # "drop", RequestsOK'
      PROVE  TypeInv'
  <2>1. txns' \in Ledgers
    BY <1>5, StartedRequestsNameAnEvent, StoredEventKeepsLedger DEF Undo
  <2>2. QED
    BY <1>5, <2>1 DEF Undo, TypeOK, RequestsOK
<1>6. CASE RollbackCreate(c)
  BY <1>5, <1>6, FinishKeepsRequests DEF RollbackCreate, Doing, Idle
<1>7. CASE Restore(c)
  <2>1. ~Idle(c) /\ req[c].op # "drop"
    BY <1>7 DEF Restore, Doing, Idle
  <2>2. RequestsOK'
    BY <1>7, <2>1, MoveKeepsRequests, FinishKeepsRequests DEF Restore
  <2>3. QED
    BY <1>1, <1>5, <1>7, <2>1, <2>2 DEF Restore
<1>8. CASE Reinsert(c)
  BY <1>1, <1>5, <1>8, MoveKeepsRequests DEF Reinsert, Doing, Idle
<1>9. CASE Repersist(c)
  <2>1. RequestsOK'
    BY <1>9, FinishKeepsRequests DEF Repersist
  <2>2. QED
    BY <1>1, <1>9, <2>1 DEF Repersist, StorePosition, TypeOK, RequestsOK
<1>10. QED
  BY <1>2, <1>3, <1>4, <1>6, <1>7, <1>8, <1>9 DEF Recompute

LEMMA HealKeepsTypes ==
  ASSUME TypeInv, NEW c \in Clients, Heal(c)
  PROVE  TypeInv'
<1> USE DEF TypeInv, stored
<1>1. req[c] \in Request /\ WellFormed(req[c]) /\ req[c].todo \subseteq Rows
  BY DEF RequestsOK, Request
<1>2. CASE HealRead(c)
  <2> DEFINE todo == RowsToHeal(req[c])
             read == IF status = "held" THEN txns ELSE EmptyLedger
  <2>1. todo \in SUBSET Rows /\ read \in Ledgers
    BY HealedRowsExist, EmptyLedgerIsALedger DEF TypeOK
  <2>2. \/ Finish(c)
        \/ req' = [req EXCEPT ![c].pc = "rewrite", ![c].todo = todo, ![c].list = read]
    BY <1>2 DEF HealRead
  <2>3. ~Idle(c) /\ req[c].op # "drop"
    BY <1>1, <1>2 DEF HealRead, At, Idle, WellFormed
  <2> HIDE DEF todo, read
  <2>4. RequestsOK'
    BY <1>1, <2>1, <2>2, <2>3, FinishKeepsRequests DEF RequestsOK, Request, WellFormed, Idle
  <2>5. QED
    BY <1>2, <2>4 DEF HealRead, TypeOK, RequestsOK
<1>3. CASE HealRow(c)
  <2>1. PICK row \in req[c].todo :
          /\ lines' = [lines EXCEPT ![row] = LineAsOf(req[c].list, row)]
          /\ IF req[c].todo = {row} THEN Finish(c)
             ELSE req' = [req EXCEPT ![c].todo = req[c].todo \ {row}]
    BY <1>3 DEF HealRow
  <2>2. RequestsOK'
    BY <1>1, <2>1, FinishKeepsRequests DEF RequestsOK, Request, WellFormed
  <2>3. QED
    BY <1>3, <2>1, <2>2 DEF HealRow, TypeOK, RequestsOK
<1>4. QED
  BY <1>2, <1>3 DEF Heal

LEMMA FailKeepsTypes ==
  ASSUME TypeInv, NEW c \in Clients, Fail(c)
  PROVE  TypeInv'
<1> USE DEF TypeInv, stored
<1>1. req[c] \in Request /\ WellFormed(req[c]) /\ LeftBy(c) \subseteq {"ledger", "history"}
  BY DEF RequestsOK, LeftBy
<1>2. ASSUME Leave(c) PROVE RequestsOK' /\ taint' \in SUBSET {"ledger", "history"}
  BY <1>1, <1>2, FinishKeepsRequests DEF Leave, TypeOK
<1>3. CASE CallFails(c)
  <2>1. RequestsOK' /\ taint' \in SUBSET {"ledger", "history"}
    BY <1>1, <1>2, <1>3, MoveKeepsRequests DEF CallFails, At, Idle, WellFormed, TypeOK
  <2>2. QED
    BY <1>3, <2>1 DEF CallFails, Fault, TypeOK, RequestsOK
<1>4. CASE RollbackFails(c)
  BY <1>2, <1>4 DEF RollbackFails, Fault, TypeOK, RequestsOK
<1>5. CASE Abandon(c)
  BY <1>2, <1>5 DEF Abandon, Fault, TypeOK, RequestsOK
<1>6. CASE AnswerLost(c)
  <2>1. RequestsOK' /\ taint' \in SUBSET {"ledger", "history"}
    BY <1>1, <1>6, MoveKeepsRequests DEF AnswerLost, At, Idle, WellFormed, TypeOK, Compensates
  <2>2. req[c].list \in Ledgers
    BY <1>1 DEF Request
  <2>3. QED
    BY <1>6, <2>1, <2>2 DEF AnswerLost, Fault, TypeOK, RequestsOK
<1>7. QED
  BY <1>3, <1>4, <1>5, <1>6 DEF Fail

\* Every request in flight and every collection keeps its type, for any number of
\* clients, events, rows and failures.
THEOREM TypeCorrectness == Spec => []TypeOK
<1>1. TypeInv /\ [Next]_vars => TypeInv'
  <2>1. ASSUME TypeInv, UNCHANGED vars PROVE TypeInv'
    BY <2>1 DEF vars, TypeInv, TypeOK, RequestsOK
  <2>2. QED
    BY <2>1, StartKeepsTypes, WriteKeepsTypes, RecomputeKeepsTypes, HealKeepsTypes,
       FailKeepsTypes DEF Next
<1>2. TypeInv => TypeOK
  BY DEF TypeInv
<1>3. QED
  BY InitTypes, <1>1, <1>2, PTL DEF Spec

------------------------------------------------------------------------------
(***************************************************************************)
(* A request that ran alone.  Nobody else writes the ledger between its    *)
(* listing and its storing, so what it lists is the ledger and what it     *)
(* stores is derived from it; a request that starts ends the solitude.     *)
(***************************************************************************)
Solitude(c) ==
    /\ \A o \in Clients \ {c} : Idle(o)
    /\ At(c, "persist") \/ At(c, "repersist") => req[c].list = txns
    /\ Succeeded(c) => status = "held" /\ derivedFrom = txns

SoloInv == TypeInv /\ \A c \in Clients : req[c].alone => Solitude(c)

\* A step of c moves or finishes c's own request and leaves the others alone.
LEMMA FinishedIsNotAlone ==
  ASSUME RequestsOK, NEW c \in Clients, Finish(c)
  PROVE  /\ ~req'[c].alone
         /\ \A k \in Clients \ {c} : req'[k] = req[k]
  BY DEF Finish, RequestsOK, NoRequest

\* The solitude of k survives a step of c: either c is k, or k was not alone, or
\* c was idle, and then c's step starts a request or inserts a bare holding.
LEMMA StartKeepsSolitude ==
  ASSUME SoloInv, NEW c \in Clients, Start(c), NEW k \in Clients, req'[k].alone
  PROVE  Solitude(k)'
<1> USE DEF SoloInv, TypeInv
<1>1. CASE NewHoldingBare(c)
  BY <1>1 DEF NewHoldingBare, InsertHolding, Solitude, Idle, At, Succeeded
<1>2. ASSUME NEW request, Begin(c, request), {"pc", "alone"} \subseteq DOMAIN request
      PROVE  /\ k = c /\ At(c, "write")'
             /\ \A o \in Clients \ {c} : Idle(o)'
  <2>1. \A o \in Clients \ {c} : req'[o].pc = req[o].pc /\ ~req'[o].alone
    <3> SUFFICES ASSUME NEW o \in Clients \ {c}
                 PROVE  req'[o].pc = req[o].pc /\ ~req'[o].alone
      OBVIOUS
    <3>1. req'[o] = [req[o] EXCEPT !.alone = FALSE]
      BY <1>2, Zenon DEF Begin
    <3>2. req[o] \in Request
      BY DEF RequestsOK
    <3>3. PICK r \in Request : r = req[o]
      BY <3>2
    <3>4. [r EXCEPT !.alone = FALSE].pc = r.pc /\ [r EXCEPT !.alone = FALSE].alone = FALSE
      BY DEF Request
    <3> QED
      BY <3>1, <3>3, <3>4
  <2>2. req'[c] = [request EXCEPT !.pc = "write",
                                  !.alone = \A o \in Clients \ {c} : Idle(o)]
    BY <1>2, Zenon DEF Begin
  <2>3. req'[c].pc = "write" /\ (req'[c].alone <=> \A o \in Clients \ {c} : Idle(o))
    BY <1>2, <2>2
  <2>4. k = c
    BY <1>2, <2>1, <2>3
  <2>5. \A o \in Clients \ {c} : Idle(o)
    BY <2>3, <2>4
  <2>6. QED
    BY <2>1, <2>3, <2>4, <2>5 DEF At, Idle
<1>3. CASE CreateStart(c) \/ UpdateStart(c) \/ DeleteStart(c) \/ NewHoldingStart(c)
           \/ RedateStart(c) \/ DropStart(c)
  <2> DEFINE fields == {"pc", "alone"}
  <2>1. ASSUME NEW op, NEW id, NEW prev, NEW input
        PROVE  /\ fields \subseteq DOMAIN [NoRequest EXCEPT !.op = op]
               /\ fields \subseteq DOMAIN [NoRequest EXCEPT !.op = op, !.id = id, !.input = input]
               /\ fields \subseteq DOMAIN [NoRequest EXCEPT !.op = op, !.id = id, !.prev = prev]
               /\ fields \subseteq DOMAIN [NoRequest EXCEPT !.op = op, !.id = id, !.prev = prev,
                                                            !.input = input]
    BY DEF NoRequest
  <2>2. ASSUME CreateStart(c) \/ NewHoldingStart(c)
        PROVE  \E op, id, input : Begin(c, [NoRequest EXCEPT !.op = op, !.id = id, !.input = input])
    BY <2>2, Zenon DEF CreateStart, NewHoldingStart
  <2>3. ASSUME UpdateStart(c) \/ RedateStart(c)
        PROVE  \E op, id, prev, input : Begin(c, [NoRequest EXCEPT !.op = op, !.id = id,
                                                       !.prev = prev, !.input = input])
    BY <2>3, Zenon DEF UpdateStart, RedateStart
  <2>4. ASSUME DeleteStart(c)
        PROVE  \E op, id, prev : Begin(c, [NoRequest EXCEPT !.op = op, !.id = id, !.prev = prev])
    BY <2>4, Zenon DEF DeleteStart
  <2>5. ASSUME DropStart(c) PROVE \E op : Begin(c, [NoRequest EXCEPT !.op = op])
    BY <2>5, Zenon DEF DropStart
  <2> HIDE DEF fields
  <2>6. PICK request : Begin(c, request) /\ fields \subseteq DOMAIN request
    BY <1>3, <2>1, <2>2, <2>3, <2>4, <2>5
  <2>7. k = c /\ At(c, "write")' /\ \A o \in Clients \ {c} : Idle(o)'
    BY <1>2, <2>6 DEF fields
  <2>8. QED
    BY <2>7 DEF Solitude, Idle, At, Succeeded
<1>4. QED
  BY <1>1, <1>3 DEF Start

\* A busy client's step leaves no other client alone.
LEMMA OnlyTheActorIsAlone ==
  ASSUME SoloInv, NEW c \in Clients, ~Idle(c), NEW k \in Clients \ {c}
  PROVE  ~req[k].alone
  BY DEF SoloInv, Solitude

LEMMA WriteKeepsSolitude ==
  ASSUME SoloInv, NEW c \in Clients, Write(c)
  PROVE  \A k \in Clients : req'[k].alone => Solitude(k)'
<1> USE DEF SoloInv, TypeInv
<1>1. ~Idle(c)
  BY DEF Write, InsertTxn, RewriteTxn, RemoveTxn, RedateOpening, WriteMisses, CascadeDelete,
         Doing, At, Idle
<1>2. CASE Finish(c)
  BY <1>1, <1>2, FinishedIsNotAlone, OnlyTheActorIsAlone
<1>3. CASE Move(c, "list")
  <2>1. req' = [req EXCEPT ![c].pc = "list"] /\ RequestsOK
    BY <1>3 DEF Move
  <2>2. \A k \in Clients \ {c} : req'[k] = req[k]
    BY <2>1 DEF RequestsOK
  <2>3. req'[c].pc = "list" /\ req'[c].alone = req[c].alone
    BY <2>1 DEF RequestsOK, Request
  <2>4. QED
    BY <1>1, <2>2, <2>3, OnlyTheActorIsAlone DEF Solitude, Idle, At, Succeeded
<1>4. Finish(c) \/ Move(c, "list")
  BY DEF Write, InsertTxn, RewriteTxn, RemoveTxn, RedateOpening, WriteMisses,
         CascadeDelete, Store
<1>5. QED
  BY <1>2, <1>3, <1>4

LEMMA RecomputeKeepsSolitude ==
  ASSUME SoloInv, NEW c \in Clients, Recompute(c)
  PROVE  \A k \in Clients : req'[k].alone => Solitude(k)'
<1> USE DEF SoloInv, TypeInv, stored
<1>1. ~Idle(c)
  BY DEF Recompute, ListLedger, Persist, Refuse, RollbackCreate, Restore, Reinsert, Repersist,
         Doing, At, Idle
<1>2. CASE Finish(c)
  BY <1>1, <1>2, FinishedIsNotAlone, OnlyTheActorIsAlone
<1>3. ASSUME NEW pc, Move(c, pc)
      PROVE  /\ \A k \in Clients \ {c} : req'[k] = req[k]
             /\ req'[c].pc = pc /\ req'[c].alone = req[c].alone /\ req'[c].list = req[c].list
  BY <1>3 DEF Move, RequestsOK, Request
<1>4. CASE ListLedger(c)
  <2>1. /\ \A k \in Clients \ {c} : req'[k] = req[k]
        /\ req'[c].pc \in {"persist", "repersist"}
        /\ req'[c].alone = req[c].alone /\ req'[c].list = txns
    BY <1>4 DEF ListLedger, RequestsOK, Request
  <2>2. QED
    BY <1>1, <1>4, <2>1, OnlyTheActorIsAlone DEF ListLedger, Solitude, Idle, At, Succeeded
<1>5. CASE Persist(c) /\ Move(c, "heal")
  <2>1. /\ \A k \in Clients \ {c} : req'[k] = req[k]
        /\ req'[c].pc = "heal" /\ req'[c].alone = req[c].alone
    BY <1>3, <1>5
  <2>2. ASSUME req[c].alone
        PROVE  (status = "held" /\ derivedFrom = txns)' /\ \A o \in Clients \ {c} : Idle(o)
    BY <1>5, <2>2 DEF Persist, Accepts, StorePosition, Solitude, At
  <2>3. QED
    BY <1>1, <2>1, <2>2, OnlyTheActorIsAlone DEF Solitude, Idle, At, Succeeded
<1>6. ASSUME NEW pc \in {"undo", "relist"}, Move(c, pc)
      PROVE  \A k \in Clients : req'[k].alone => Solitude(k)'
  <2>1. /\ \A k \in Clients \ {c} : req'[k] = req[k]
        /\ req'[c].pc = pc /\ req'[c].alone = req[c].alone
    BY <1>3, <1>6
  <2>2. QED
    BY <1>1, <1>6, <2>1, OnlyTheActorIsAlone DEF Solitude, Idle, At, Succeeded
<1>7. \/ Finish(c) \/ ListLedger(c) \/ (Persist(c) /\ Move(c, "heal"))
      \/ Move(c, "undo") \/ Move(c, "relist")
  BY DEF Recompute, Persist, Refuse, RollbackCreate, Restore, Reinsert, Repersist
<1>8. QED
  BY <1>2, <1>4, <1>5, <1>6, <1>7

LEMMA HealKeepsSolitude ==
  ASSUME SoloInv, NEW c \in Clients, Heal(c)
  PROVE  \A k \in Clients : req'[k].alone => Solitude(k)'
<1> USE DEF SoloInv, TypeInv, stored
<1>1. ~Idle(c) /\ Succeeded(c) /\ UNCHANGED <<txns, status, derivedFrom>>
  BY DEF Heal, HealRead, HealRow, At, Idle, Succeeded
<1>2. CASE Finish(c)
  BY <1>1, <1>2, FinishedIsNotAlone, OnlyTheActorIsAlone
<1>3. CASE ~Finish(c)
  <2>1. /\ \A k \in Clients \ {c} : req'[k] = req[k]
        /\ req'[c].pc = "rewrite" /\ req'[c].alone = req[c].alone
    <3> DEFINE read == IF status = "held" THEN txns ELSE EmptyLedger
               todo == RowsToHeal(req[c])
    <3>1. \/ req' = [req EXCEPT ![c].pc = "rewrite", ![c].todo = todo, ![c].list = read]
          \/ At(c, "rewrite") /\ \E row \in req[c].todo :
                req' = [req EXCEPT ![c].todo = req[c].todo \ {row}]
      BY <1>3 DEF Heal, HealRead, HealRow
    <3> HIDE DEF read, todo
    <3>2. QED
      BY <3>1 DEF RequestsOK, Request, At
  <2>2. QED
    BY <1>1, <2>1, OnlyTheActorIsAlone DEF Solitude, Idle, At, Succeeded
<1>4. QED
  BY <1>2, <1>3

LEMMA FailKeepsSolitude ==
  ASSUME SoloInv, NEW c \in Clients, Fail(c)
  PROVE  \A k \in Clients : req'[k].alone => Solitude(k)'
<1> USE DEF SoloInv, TypeInv, stored
<1>1. ~Idle(c)
  BY DEF Fail, CallFails, AnswerLost, RollbackFails, Abandon, At, Idle
<1>2. CASE Finish(c)
  BY <1>1, <1>2, FinishedIsNotAlone, OnlyTheActorIsAlone
<1>3. CASE Move(c, "undo")
  <2>1. /\ \A k \in Clients \ {c} : req'[k] = req[k]
        /\ req'[c].pc = "undo" /\ req'[c].alone = req[c].alone
    BY <1>3 DEF Move, RequestsOK, Request
  <2>2. QED
    BY <1>1, <2>1, OnlyTheActorIsAlone DEF Solitude, Idle, At, Succeeded
<1>4. QED
  BY <1>2, <1>3 DEF Fail, CallFails, AnswerLost, RollbackFails, Abandon, Leave

LEMMA SoloInvHolds == Spec => []SoloInv
<1>1. Init => SoloInv
  BY InitTypes DEF Init, SoloInv, NoRequest
<1>2. SoloInv /\ [Next]_vars => SoloInv'
  <2> SUFFICES ASSUME SoloInv, [Next]_vars PROVE SoloInv'
    OBVIOUS
  <2>1. CASE UNCHANGED vars
    BY <2>1 DEF vars, SoloInv, TypeInv, TypeOK, RequestsOK, Solitude, Idle, At, Succeeded
  <2>2. ASSUME NEW c \in Clients, Start(c) \/ Write(c) \/ Recompute(c) \/ Heal(c) \/ Fail(c)
        PROVE  SoloInv'
    <3>1. TypeInv'
      BY <2>2, StartKeepsTypes, WriteKeepsTypes, RecomputeKeepsTypes, HealKeepsTypes,
         FailKeepsTypes DEF SoloInv
    <3>2. \A k \in Clients : req'[k].alone => Solitude(k)'
      BY <2>2, StartKeepsSolitude, WriteKeepsSolitude, RecomputeKeepsSolitude,
         HealKeepsSolitude, FailKeepsSolitude
    <3>3. QED
      BY <3>1, <3>2 DEF SoloInv
  <2>3. QED
    BY <2>1, <2>2 DEF Next
<1>3. QED
  BY <1>1, <1>2, PTL DEF Spec

\* A request that overlapped no other leaves, when it succeeds, the exact position
\* of the ledger as it stands, however many other clients and failures came before.
THEOREM SoloSuccessAlwaysExact == Spec => []SoloSuccessIsExact
<1>1. SoloInv /\ PositionFromAcceptedLedger => SoloSuccessIsExact
  BY DEF SoloInv, Solitude, PositionFromAcceptedLedger, SoloSuccessIsExact
<1>2. QED
  BY <1>1, SoloInvHolds, PositionIsAlwaysAccepted, PTL

------------------------------------------------------------------------------
(***************************************************************************)
(* One client.  Its requests run alone, so each is atomic: it leaves an    *)
(* accepted ledger with its position, or, refused, the ledger it found.    *)
(***************************************************************************)
SingleClient == \E c : Clients = {c}

\* What a request that has the holding to itself knows of it: the event it read
\* is the event it overwrites, and the event it has written is still there.
Known(c) ==
    LET r == req[c] IN
    \/ Idle(c)
    \/ /\ r.alone
       /\ r.op # "none"
       /\ r.op # "drop" => r.id \notin unused
       /\ r.pc = "write" /\ r.op # "drop" => txns[r.id] = r.prev
       /\ Undecided(c) /\ r.op # "delete" => txns[r.id] # NoEvent
       /\ r.pc = "undo" => Compensates(r.op)
       /\ r.op \in {"create", "newHolding"} => r.prev = NoEvent
       /\ r.op = "redate" =>
             /\ r.pc \in {"write", "list", "persist"}
             /\ r.prev \in Transaction /\ IsOpening(r.prev)
             /\ \E day \in OpeningDays : r.input = Redated(r.prev, day)
             /\ Undecided(c) => txns[r.id] = r.input
       /\ r.op = "newHolding" =>
             /\ r.pc \in {"write", "list", "persist"}
             /\ status = "held" /\ "ledger" \notin taint
             /\ r.input \in Transaction /\ IsOpening(r.input)
             /\ \A j \in Ids \ {r.id} : txns[j] = NoEvent
             /\ Undecided(c) => txns[r.id] = r.input

\* A holding that is not there yet has no events; one that is gone has no request
\* on it but its own drop, unless a failure left events behind.
Bounds ==
    /\ status = "absent" => txns = EmptyLedger /\ "ledger" \notin taint /\ Quiet
    /\ status = "deleted" /\ "ledger" \notin taint =>
           \A c \in Clients : Idle(c) \/ Doing(c, "drop", "write")

LoneInv ==
    /\ \A i \in unused : txns[i] = NoEvent
    /\ \A c \in Clients : Known(c)
    /\ Bounds

\* Unless a failure damaged it, the committed ledger is the one the position was
\* derived from, and that of a deleted holding is empty.
Agreement ==
    "ledger" \notin taint =>
        /\ status = "held" => derivedFrom = Committed
        /\ status # "held" => Committed = EmptyLedger

\* The committed ledger of any ledger and requests: Committed is that of txns and req.
CommittedOf(ledger, requests) ==
    LET undecided(c) == requests[c].pc \in {"list", "persist", "undo"}
    IN  IF \E c \in Clients : requests[c].op = "drop" /\ requests[c].pc = "write"
        THEN EmptyLedger
        ELSE [i \in Ids |->
                 IF \E c \in Clients : undecided(c) /\ requests[c].id = i
                 THEN requests[CHOOSE c \in Clients : undecided(c) /\ requests[c].id = i].prev
                 ELSE ledger[i]]

LEMMA CommittedIsOf == Committed = CommittedOf(txns, req) /\ Committed' = CommittedOf(txns', req')
  BY DEF Committed, CommittedOf, Undecided, Doing

\* With one client, it is the stored ledger, but for the event of an undecided
\* request and for the ledger of a holding being dropped.
LEMMA CommittedAlone ==
  ASSUME SingleClient, NEW c \in Clients, NEW ledger \in Ledgers, NEW requests
  PROVE  LET r == requests[c]
             dropping == r.op = "drop" /\ r.pc = "write"
             undecided == r.pc \in {"list", "persist", "undo"}
         IN  /\ dropping => CommittedOf(ledger, requests) = EmptyLedger
             /\ undecided => CommittedOf(ledger, requests) = [ledger EXCEPT ![r.id] = r.prev]
             /\ ~dropping /\ ~undecided => CommittedOf(ledger, requests) = ledger
<1> DEFINE r == requests[c]
           undecided == r.pc \in {"list", "persist", "undo"}
<1>1. Clients = {c}
  BY DEF SingleClient
<1>2. CommittedOf(ledger, requests) =
        IF r.op = "drop" /\ r.pc = "write" THEN EmptyLedger
        ELSE [i \in Ids |-> IF undecided /\ r.id = i THEN r.prev ELSE ledger[i]]
  <2>1. \A i : undecided /\ r.id = i =>
          (CHOOSE d \in Clients : requests[d].pc \in {"list", "persist", "undo"}
                                  /\ requests[d].id = i) = c
    BY <1>1
  <2>2. QED
    BY <1>1, <2>1 DEF CommittedOf
<1>3. QED
  BY <1>2 DEF Ledgers

LEMMA LoneClient ==
  ASSUME SingleClient, NEW c \in Clients
  PROVE  /\ LoneInv  <=> (\A i \in unused : txns[i] = NoEvent)
                          /\ Known(c)
                          /\ (status = "absent" => txns = EmptyLedger /\ "ledger" \notin taint /\ Idle(c))
                          /\ (status = "deleted" /\ "ledger" \notin taint
                                 => Idle(c) \/ Doing(c, "drop", "write"))
         /\ LoneInv' <=> (\A i \in unused' : txns'[i] = NoEvent)
                          /\ Known(c)'
                          /\ (status' = "absent" => txns' = EmptyLedger /\ "ledger" \notin taint' /\ Idle(c)')
                          /\ (status' = "deleted" /\ "ledger" \notin taint'
                                 => Idle(c)' \/ Doing(c, "drop", "write")')
<1>1. Clients = {c}
  BY DEF SingleClient
<1>2. QED
  BY <1>1 DEF LoneInv, Bounds, Quiet

\* What the abstract ledger does meanwhile: a step of it, or nothing.
Maps == Atomic!Next \/ UNCHANGED Atomic!vars

LEMMA Stutters ==
  ASSUME UNCHANGED <<status, position, derivedFrom>>, Committed' = Committed,
         "ledger" \in taint' <=> "ledger" \in taint
  PROVE  Maps
  BY DEF Maps, Atomic!vars

LEMMA Begun ==
  ASSUME SingleClient, NEW c \in Clients, NEW request, Begin(c, request),
         {"op", "pc", "id", "prev", "input", "alone"} \subseteq DOMAIN request
  PROVE  /\ Idle(c) /\ req'[c].pc = "write" /\ req'[c].alone
         /\ req'[c].op = request.op /\ req'[c].id = request.id
         /\ req'[c].prev = request.prev /\ req'[c].input = request.input
<1>1. \A o \in Clients \ {c} : Idle(o)
  BY DEF SingleClient
<1>2. req'[c] = [request EXCEPT !.pc = "write", !.alone = \A o \in Clients \ {c} : Idle(o)]
  BY Zenon DEF Begin
<1>3. QED
  BY <1>1, <1>2 DEF Begin

\* Before its write a request has committed nothing; a drop has committed all of it.
LEMMA CommittedAtEnds ==
  ASSUME SingleClient, TypeInv, TypeInv', NEW c \in Clients
  PROVE  /\ Doing(c, "drop", "write") => Committed = EmptyLedger
         /\ ~Doing(c, "drop", "write") /\ ~Undecided(c) => Committed = txns
         /\ Undecided(c) => Committed = [txns EXCEPT ![req[c].id] = req[c].prev]
         /\ Doing(c, "drop", "write")' => Committed' = EmptyLedger
         /\ ~Doing(c, "drop", "write")' /\ ~Undecided(c)' => Committed' = txns'
         /\ Undecided(c)' => Committed' = [txns' EXCEPT ![req'[c].id] = req'[c].prev]
  BY CommittedIsOf, CommittedAlone DEF Doing, Undecided, TypeInv, TypeOK

\* What a request asks for when it has started.
Asked(c, op, id, prev, input) ==
    /\ req'[c].pc = "write" /\ req'[c].alone /\ req'[c].op = op
    /\ op # "drop" => req'[c].id = id /\ req'[c].prev = prev /\ req'[c].input = input

LEMMA BegunAsks ==
  ASSUME SingleClient, NEW c \in Clients, NEW op, NEW id, NEW prev, NEW input
  PROVE  /\ Begin(c, [NoRequest EXCEPT !.op = op]) => Asked(c, op, 0, NoEvent, NoEvent)
         /\ Begin(c, [NoRequest EXCEPT !.op = op, !.id = id, !.input = input])
              => Asked(c, op, id, NoEvent, input)
         /\ Begin(c, [NoRequest EXCEPT !.op = op, !.id = id, !.prev = prev])
              => Asked(c, op, id, prev, NoEvent)
         /\ Begin(c, [NoRequest EXCEPT !.op = op, !.id = id, !.prev = prev, !.input = input])
              => Asked(c, op, id, prev, input)
<1> DEFINE r1 == [NoRequest EXCEPT !.op = op]
           r2 == [NoRequest EXCEPT !.op = op, !.id = id, !.input = input]
           r3 == [NoRequest EXCEPT !.op = op, !.id = id, !.prev = prev]
           r4 == [NoRequest EXCEPT !.op = op, !.id = id, !.prev = prev, !.input = input]
           fields == {"op", "pc", "id", "prev", "input", "alone"}
<1>1. /\ fields \subseteq DOMAIN r1 /\ r1.op = op /\ r1.id = 0 /\ r1.prev = NoEvent /\ r1.input = NoEvent
      /\ fields \subseteq DOMAIN r2 /\ r2.op = op /\ r2.id = id /\ r2.prev = NoEvent /\ r2.input = input
      /\ fields \subseteq DOMAIN r3 /\ r3.op = op /\ r3.id = id /\ r3.prev = prev /\ r3.input = NoEvent
      /\ fields \subseteq DOMAIN r4 /\ r4.op = op /\ r4.id = id /\ r4.prev = prev /\ r4.input = input
  BY DEF NoRequest
<1> HIDE DEF r1, r2, r3, r4
<1>2. /\ Begin(c, r1) => Asked(c, op, 0, NoEvent, NoEvent)
      /\ Begin(c, r2) => Asked(c, op, id, NoEvent, input)
      /\ Begin(c, r3) => Asked(c, op, id, prev, NoEvent)
      /\ Begin(c, r4) => Asked(c, op, id, prev, input)
  BY <1>1, Begun DEF Asked
<1>3. QED
  BY <1>2 DEF r1, r2, r3, r4

LEMMA StartMaps ==
  ASSUME SingleClient, TypeInv, TypeInv', PositionFromAcceptedLedger, LoneInv, Agreement,
         NEW c \in Clients, Start(c)
  PROVE  LoneInv' /\ Maps
<1>0. Idle(c) /\ Committed = txns
  BY CommittedAtEnds DEF Start, CreateStart, UpdateStart, DeleteStart, NewHoldingStart,
     NewHoldingBare, RedateStart, DropStart, Begin, Idle, Doing, Undecided
<1>1. LoneInv <=> /\ \A i \in unused : txns[i] = NoEvent
                  /\ status = "absent" => txns = EmptyLedger /\ "ledger" \notin taint
  BY <1>0, LoneClient DEF Known
<1>3. CASE CreateStart(c)
  <2>1. PICK id \in unused, input \in Inputs :
            Asked(c, "create", id, NoEvent, input) /\ unused' = unused \ {id}
    BY BegunAsks, <1>3, Zenon DEF CreateStart
  <2>2. UNCHANGED <<stored, derivedFrom, taint>> /\ status = "held"
    BY <1>3 DEF CreateStart
  <2>3. LoneInv'
    BY <1>1, <2>1, <2>2, LoneClient DEF Asked, Known, Undecided, stored
  <2>4. Committed' = Committed
    BY <1>0, <2>1, <2>2, CommittedAtEnds DEF Asked, Doing, Undecided, stored
  <2>5. QED
    BY <2>2, <2>3, <2>4, Stutters DEF stored
<1>4. ASSUME txns = EmptyLedger PROVE Events(txns) = {}
  BY <1>4 DEF Events, EmptyLedger
<1>5. ASSUME NEW op \in {"update", "delete", "redate"}, NEW id \in Events(txns), NEW input,
             Asked(c, op, id, txns[id], input), UNCHANGED <<stored, unused, derivedFrom, taint>>,
             op = "redate" => /\ IsOpening(txns[id])
                              /\ \E day \in OpeningDays : input = Redated(txns[id], day)
      PROVE  LoneInv' /\ Maps
  <2>1. id \in Ids /\ txns[id] \in Transaction /\ txns[id] # NoEvent
    BY <1>5 DEF Events, TypeInv, TypeOK, Ledgers
  <2>2. status # "absent"
    BY <1>1, <1>4, <1>5
  <2>3. status = "deleted" => "ledger" \in taint
    BY <1>0, <1>4, <1>5 DEF Agreement
  <2>4. id \notin unused
    BY <1>1, <2>1
  <2>5. Known(c)'
    BY <1>5, <2>1, <2>4 DEF Asked, Known, Undecided, stored
  <2>6. LoneInv'
    BY <1>1, <1>5, <2>2, <2>3, <2>5, LoneClient DEF stored
  <2>7. Committed' = Committed
    BY <1>0, <1>5, CommittedAtEnds DEF Asked, Doing, Undecided, stored
  <2>8. QED
    BY <1>5, <2>6, <2>7, Stutters DEF stored
<1>6. CASE UpdateStart(c)
  <2>1. PICK id \in Events(txns), input \in Inputs : Asked(c, "update", id, txns[id], input)
    BY BegunAsks, <1>6, Zenon DEF UpdateStart
  <2>2. QED
    BY <1>5, <1>6, <2>1 DEF UpdateStart
<1>7. CASE DeleteStart(c)
  <2>1. PICK id \in Events(txns) : Asked(c, "delete", id, txns[id], NoEvent)
    BY BegunAsks, <1>7, Zenon DEF DeleteStart
  <2>2. QED
    BY <1>5, <1>7, <2>1 DEF DeleteStart
<1>8. CASE RedateStart(c)
  <2>1. PICK id \in Events(txns), day \in OpeningDays :
            IsOpening(txns[id]) /\ Asked(c, "redate", id, txns[id], Redated(txns[id], day))
    BY BegunAsks, <1>8, Zenon DEF RedateStart, Redated
  <2>2. QED
    BY <1>5, <1>8, <2>1 DEF RedateStart
<1>9. ASSUME InsertHolding, ~Undecided(c)', ~Doing(c, "drop", "write")' PROVE Maps
  <2>1. Committed' = EmptyLedger
    BY <1>1, <1>9, CommittedAtEnds DEF InsertHolding
  <2>2. Atomic!Open
    BY <1>9, <2>1, EmptyLedgerIsFlat
    DEF Atomic!Open, Atomic!Accept, Atomic!NoEvents, InsertHolding, EmptyLedger
  <2>3. QED
    BY <2>2 DEF Maps, Atomic!Next
<1>10. CASE NewHoldingBare(c)
  <2>1. LoneInv'
    BY <1>0, <1>1, <1>10, LoneClient DEF NewHoldingBare, InsertHolding, Known, Idle
  <2>2. QED
    BY <1>0, <1>9, <1>10, <2>1 DEF NewHoldingBare, Undecided, Doing, Idle
<1>11. CASE NewHoldingStart(c)
  <2> DEFINE opening(input) == [input EXCEPT !.date = StartOf(Today) + 1,
                                             !.openingDate = Undated]
  <2>1. PICK id \in unused, input \in Inputs :
            /\ Asked(c, "newHolding", id, NoEvent, opening(input)) /\ unused' = unused \ {id}
            /\ SeedsOpening(input)
    BY BegunAsks, <1>11, Zenon DEF NewHoldingStart
  <2>2. opening(input) \in Transaction /\ IsOpening(opening(input))
    <3>1. StartOf(Today) + 1 \in Nat
      BY TodayIsADay, StartsAreNaturals
    <3>2. input \in Transaction /\ IsOpening(input)
      BY <2>1, InputsAreTransactions DEF SeedsOpening
    <3>3. QED
      BY <3>1, <3>2 DEF Transaction, IsOpening
  <2> HIDE DEF opening
  <2>3. InsertHolding
    BY <1>11 DEF NewHoldingStart
  <2>4. \A j \in Ids : txns[j] = NoEvent
    BY <1>1, <2>3 DEF InsertHolding, EmptyLedger
  <2>5. Known(c)'
    BY <1>1, <2>1, <2>2, <2>3, <2>4 DEF Asked, Known, Undecided, InsertHolding
  <2>6. LoneInv'
    BY <1>1, <2>1, <2>3, <2>5, LoneClient DEF InsertHolding
  <2>7. QED
    BY <1>9, <2>1, <2>3, <2>6 DEF Asked, Undecided, Doing
<1>12. CASE DropStart(c)
  <2>1. Asked(c, "drop", 0, NoEvent, NoEvent)
    BY BegunAsks, <1>12, Zenon DEF DropStart
  <2>2. status = "held" /\ status' = "deleted" /\ UNCHANGED <<txns, position, unused, derivedFrom, taint>>
    BY <1>12 DEF DropStart
  <2>3. LoneInv'
    BY <1>1, <2>1, <2>2, LoneClient DEF Asked, Known, Undecided, Doing
  <2>4. Committed' = EmptyLedger
    BY <2>1, CommittedAtEnds DEF Asked, Doing
  <2>5. Atomic!Drop
    BY <2>2, <2>4 DEF Atomic!Drop, Atomic!NoEvents, EmptyLedger
  <2>6. QED
    BY <2>3, <2>5 DEF Maps, Atomic!Next
<1>13. QED
  BY <1>3, <1>6, <1>7, <1>8, <1>10, <1>11, <1>12 DEF Start

LEMMA Moved ==
  ASSUME TypeInv, NEW c \in Clients, NEW pc, Move(c, pc)
  PROVE  /\ req'[c].pc = pc /\ req'[c].alone = req[c].alone /\ req'[c].op = req[c].op
         /\ req'[c].id = req[c].id /\ req'[c].prev = req[c].prev
         /\ req'[c].input = req[c].input /\ req'[c].list = req[c].list
  BY DEF Move, TypeInv, RequestsOK, Request

LEMMA Finished ==
  ASSUME TypeInv, NEW c \in Clients, Finish(c)
  PROVE  Idle(c)' /\ ~Undecided(c)' /\ ~Doing(c, "drop", "write")' /\ Known(c)'
  BY DEF Finish, TypeInv, RequestsOK, NoRequest, Idle, Undecided, Doing, Known

LEMMA StoreMaps ==
  ASSUME SingleClient, TypeInv, TypeInv', LoneInv, NEW c \in Clients, NEW txn, Store(c, txn),
         At(c, "write"), req[c].op # "drop", txn # NoEvent \/ req[c].op = "delete",
         req[c].op \in {"redate", "newHolding"} => txn = req[c].input
  PROVE  LoneInv' /\ Maps /\ Committed' = Committed
<1>1. Known(c) /\ ~Idle(c) /\ ~Undecided(c) /\ ~Doing(c, "drop", "write") /\ req[c].id \in Ids
  BY StartedRequestsNameAnEvent DEF LoneInv, At, Idle, Undecided, Doing
<1>2. /\ req[c].alone /\ req[c].op # "none" /\ req[c].id \notin unused
      /\ txns[req[c].id] = req[c].prev
      /\ req[c].op \in {"create", "newHolding"} => req[c].prev = NoEvent
  BY <1>1 DEF Known, At
<1>3. /\ req'[c].pc = "list" /\ req'[c].alone /\ req'[c].op = req[c].op
      /\ req'[c].id = req[c].id /\ req'[c].prev = req[c].prev
      /\ req'[c].input = req[c].input
  BY <1>2, Moved DEF Store
<1>4. /\ txns' = [txns EXCEPT ![req[c].id] = txn] /\ txns'[req[c].id] = txn
      /\ \A j \in Ids \ {req[c].id} : txns'[j] = txns[j]
      /\ "ledger" \in taint' <=> "ledger" \in taint
      /\ UNCHANGED <<status, position, unused, derivedFrom>>
  BY <1>1 DEF Store, TypeInv, TypeOK, Ledgers
<1>5. Known(c)'
  <2>1. req[c].op = "redate" =>
          /\ req[c].prev \in Transaction /\ IsOpening(req[c].prev)
          /\ \E day \in OpeningDays : req[c].input = Redated(req[c].prev, day)
    BY <1>1 DEF Known
  <2>2. req[c].op = "newHolding" =>
          /\ status = "held" /\ "ledger" \notin taint
          /\ req[c].input \in Transaction /\ IsOpening(req[c].input)
          /\ \A j \in Ids \ {req[c].id} : txns[j] = NoEvent
    BY <1>1 DEF Known
  <2>3. QED
    BY <1>2, <1>3, <1>4, <2>1, <2>2 DEF Known, Undecided
<1>6. LoneInv'
  <2>1. \A i \in unused : i \in Ids /\ txns'[i] = NoEvent
    BY <1>2, <1>4 DEF LoneInv, TypeInv, TypeOK
  <2>2. /\ status = "absent" => FALSE
        /\ status = "deleted" /\ "ledger" \notin taint => FALSE
    BY <1>1, LoneClient
  <2>3. QED
    BY <1>4, <1>5, <2>1, <2>2, LoneClient
<1>7. Committed' = Committed
  <2>1. Committed = txns /\ Committed' = [txns' EXCEPT ![req[c].id] = req[c].prev]
    BY <1>1, <1>3, CommittedAtEnds DEF Undecided
  <2>2. ASSUME NEW i \in Ids, NEW new, NEW old \in Ledgers
        PROVE  [[old EXCEPT ![i] = new] EXCEPT ![i] = old[i]] = old
    BY <2>2 DEF Ledgers
  <2>3. txns \in Ledgers
    BY DEF TypeInv, TypeOK
  <2>4. QED
    BY <1>1, <1>2, <1>4, <2>1, <2>2, <2>3
<1>8. QED
  BY <1>4, <1>6, <1>7, Stutters

LEMMA WriteMaps ==
  ASSUME SingleClient, TypeInv, TypeInv', LoneInv, NEW c \in Clients, Write(c)
  PROVE  LoneInv' /\ Maps /\ Committed' = Committed
<1>1. req[c] \in Request /\ WellFormed(req[c]) /\ Known(c)
  BY DEF TypeInv, RequestsOK, LoneInv
<1>2. CASE InsertTxn(c)
  <2>1. req[c].input \in Transaction
    BY <1>1, <1>2 DEF InsertTxn, Doing, WellFormed
  <2>2. QED
    BY <1>2, <2>1, TransactionsAreEvents, StoreMaps DEF InsertTxn, Doing, At
<1>3. CASE RewriteTxn(c)
  <2>1. txns[req[c].id] \in Transaction /\ req[c].input \in Transaction
    BY <1>1, <1>3, StartedRequestsNameAnEvent DEF RewriteTxn, Doing, Idle, WellFormed
  <2>2. Rewritten(txns[req[c].id], req[c].prev, req[c].input) # NoEvent
    BY <2>1, RewrittenIsTransaction, TransactionsAreEvents
  <2>3. QED
    BY <1>3, <2>2, StoreMaps DEF RewriteTxn, Doing, At
<1>4. CASE RemoveTxn(c)
  BY <1>4, StoreMaps DEF RemoveTxn, Doing, At
<1>5. CASE RedateOpening(c)
  <2> DEFINE redated == [txns[req[c].id] EXCEPT !.date = req[c].input.date,
                                                !.openingDate = req[c].input.openingDate]
  <2>1. PICK day \in OpeningDays : req[c].input = Redated(req[c].prev, day)
    BY <1>1, <1>5 DEF RedateOpening, Doing, Known, Idle
  <2>2. txns[req[c].id] = req[c].prev /\ req[c].prev \in Transaction
    BY <1>1, <1>5 DEF RedateOpening, Doing, Known, Idle
  <2>3. req[c].input.date = StartOf(day) /\ req[c].input.openingDate = day
    BY <2>1, <2>2 DEF Redated, Transaction
  <2>4. redated = req[c].input
    BY <2>1, <2>2, <2>3 DEF Redated
  <2>5. Store(c, redated)
    BY <1>5 DEF RedateOpening
  <2> HIDE DEF redated
  <2>6. req[c].input \in Transaction
    BY <1>1, <1>5 DEF RedateOpening, Doing, WellFormed
  <2>7. QED
    BY <1>5, <2>4, <2>5, <2>6, TransactionsAreEvents, StoreMaps DEF RedateOpening, Doing, At
<1>6. CASE WriteMisses(c)
  <2>1. Committed = txns /\ Committed' = txns
    BY <1>6, Finished, CommittedAtEnds DEF WriteMisses, At, Doing, Undecided, stored
  <2>2. LoneInv'
    BY <1>6, Finished, LoneClient DEF WriteMisses, At, Idle, Doing, stored
  <2>3. QED
    BY <1>6, <2>1, <2>2, Stutters DEF WriteMisses, stored
<1>7. CASE CascadeDelete(c)
  <2>1. Committed = EmptyLedger /\ Committed' = EmptyLedger
    BY <1>7, Finished, CommittedAtEnds DEF CascadeDelete
  <2>2. status # "absent"
    BY <1>7, LoneClient DEF CascadeDelete, Doing, Idle
  <2>3. LoneInv'
    BY <1>7, <2>2, Finished, LoneClient DEF CascadeDelete, TypeInv, TypeOK, EmptyLedger
  <2>4. QED
    BY <1>7, <2>1, <2>3, Stutters DEF CascadeDelete
<1>8. QED
  BY <1>2, <1>3, <1>4, <1>5, <1>6, <1>7 DEF Write

\* What a request knows stays true as it goes on, and is forgotten when it ends.
LEMMA FinishKeepsLone ==
  ASSUME SingleClient, TypeInv, TypeInv', LoneInv, NEW c \in Clients, ~Idle(c), Finish(c),
         UNCHANGED <<status, unused>>, \A i \in unused : txns'[i] = NoEvent
  PROVE  LoneInv' /\ Committed' = txns'
<1>1. status # "absent"
  BY LoneClient
<1>2. QED
  BY <1>1, Finished, LoneClient, CommittedAtEnds

LEMMA MoveKeepsLone ==
  ASSUME SingleClient, TypeInv, TypeInv', LoneInv, NEW c \in Clients, ~Idle(c),
         UNCHANGED <<status, unused>>, \A i \in unused : txns'[i] = NoEvent,
         req'[c].alone = req[c].alone, req'[c].op = req[c].op, req'[c].id = req[c].id,
         req'[c].prev = req[c].prev, req'[c].input = req[c].input,
         "ledger" \in taint' => "ledger" \in taint \/ Compensates(req[c].op),
         "ledger" \in taint => "ledger" \in taint' \/ status = "held",
         ~Doing(c, "drop", "write"),
         \/ /\ Undecided(c) /\ UNCHANGED txns
            /\ req'[c].pc \in {"persist", "undo"}
            /\ req'[c].pc = "undo" => Compensates(req[c].op)
         \/ /\ Compensates(req[c].op)
            /\ req'[c].pc \in {"relist", "repersist", "heal", "rewrite"}
  PROVE  LoneInv'
<1>1. Known(c) /\ status # "absent" /\ (status = "deleted" => "ledger" \in taint)
  BY LoneClient
<1>2. Known(c)'
  BY <1>1 DEF Known, Undecided, Compensates, Idle
<1>3. QED
  BY <1>1, <1>2, LoneClient

\* An accepted list is committed; a repersist of what is committed repairs it.
LEMMA StoringMaps ==
  ASSUME SingleClient, TypeInv, TypeInv', LoneInv, NEW c \in Clients, req[c].alone,
         req[c].id \in Ids, At(c, "persist") \/ At(c, "repersist"), req[c].list = txns,
         Accepts(c), StorePosition(c), UNCHANGED <<txns, status>>, Committed' = txns
  PROVE  Maps
<1>1. \E i \in Ids : \A j \in Ids \ {i} : Committed'[j] = Committed[j]
  <2>1. \/ Committed = txns
        \/ Committed = [txns EXCEPT ![req[c].id] = req[c].prev]
    BY CommittedAtEnds DEF Doing, Undecided, At
  <2>2. QED
    BY <2>1 DEF TypeInv, TypeOK, Ledgers
<1>2. /\ status = "held" /\ ~Oversells(Committed')
      /\ position' = RecomputePosition(Committed') /\ derivedFrom' = Committed'
      /\ "ledger" \notin taint'
  BY DEF Accepts, StorePosition
<1>3. CASE "ledger" \in taint
  BY <1>2, <1>3 DEF Maps, Atomic!Next, Atomic!Repair, Atomic!Accept
<1>4. CASE "ledger" \notin taint
  BY <1>1, <1>2, <1>4 DEF Maps, Atomic!Next, Atomic!Commit, Atomic!Accept
<1>5. QED
  BY <1>3, <1>4

\* The opening of a new holding and a redate are never refused, unless a failure
\* had already damaged the ledger.
LEMMA OpeningsAreAccepted ==
  ASSUME SingleClient, TypeInv, TypeInv', LoneInv,
         PositionFromAcceptedLedger, Agreement, NEW c \in Clients, At(c, "persist"),
         req[c].op \in {"newHolding", "redate"}, "ledger" \notin taint
  PROVE  status = "held" /\ ~Oversells(txns)
<1> DEFINE r == req[c]
<1>1. /\ Known(c) /\ ~Idle(c) /\ Undecided(c) /\ txns \in Ledgers /\ r.id \in Ids
      /\ r.prev \in Transaction \cup {NoEvent}
  <2>1. ~Idle(c) /\ Undecided(c) /\ r.op # "drop"
    BY DEF At, Idle, Undecided
  <2>2. r \in Request /\ txns \in Ledgers /\ Known(c)
    BY DEF LoneInv, TypeInv, TypeOK, RequestsOK
  <2>3. r.id \in Ids
    BY <2>1, StartedRequestsNameAnEvent
  <2>4. r.prev \in Transaction \cup {NoEvent}
    BY <2>2 DEF Request
  <2>5. QED
    BY <2>1, <2>2, <2>3, <2>4
<1>2. status = "held"
  <2>1. status \in {"absent", "held", "deleted"}
    BY DEF TypeInv, TypeOK
  <2>2. QED
    BY <1>1, <2>1, LoneClient DEF At, Doing
<1>3. CASE r.op = "newHolding"
  <2>1. /\ r.input \in Transaction /\ IsOpening(r.input) /\ txns[r.id] = r.input
        /\ \A j \in Ids \ {r.id} : txns[j] = NoEvent
    BY <1>1, <1>3 DEF Known
  <2>2. txns = [EmptyLedger EXCEPT ![r.id] = r.input]
    BY <1>1, <2>1 DEF EmptyLedger, Ledgers
  <2>3. QED
    BY <1>1, <1>2, <2>1, <2>2, OpeningsAreNeutral
<1>4. CASE r.op = "redate"
  <2>1. /\ r.prev \in Transaction /\ IsOpening(r.prev) /\ txns[r.id] = r.input
        /\ \E day \in OpeningDays : r.input = Redated(r.prev, day)
    BY <1>1, <1>4 DEF Known
  <2>2. PICK day \in OpeningDays : txns[r.id] = Redated(r.prev, day)
    BY <2>1
  <2>3. derivedFrom = [txns EXCEPT ![r.id] = r.prev] /\ ~Oversells(derivedFrom)
    BY <1>1, <1>2, CommittedAtEnds DEF Agreement, PositionFromAcceptedLedger
  <2>4. /\ derivedFrom \in Ledgers /\ derivedFrom[r.id] = r.prev
        /\ txns = [derivedFrom EXCEPT ![r.id] = Redated(r.prev, day)]
    BY <1>1, <2>2, <2>3 DEF Ledgers
  <2>5. r.prev # NoEvent
    BY <2>1, TransactionsAreEvents
  <2>6. ASSUME NEW ledger \in Ledgers, NEW i \in Ids, ledger[i] # NoEvent,
               IsOpening(ledger[i])
        PROVE  Oversells([ledger EXCEPT ![i] = Redated(ledger[i], day)]) = Oversells(ledger)
    BY <2>6, OpeningsAreNeutral, Zenon
  <2>7. ~Oversells([derivedFrom EXCEPT ![r.id] = Redated(derivedFrom[r.id], day)])
    BY <1>1, <2>1, <2>3, <2>4, <2>5, <2>6
  <2>8. QED
    BY <1>2, <2>4, <2>7
<1>5. QED
  BY <1>3, <1>4

LEMMA ListMaps ==
  ASSUME SingleClient, TypeInv, TypeInv', LoneInv, NEW c \in Clients, ListLedger(c)
  PROVE  LoneInv' /\ Maps
<1>1. /\ ~Idle(c) /\ ~Doing(c, "drop", "write") /\ UNCHANGED <<stored, unused, derivedFrom, taint>>
      /\ req'[c].alone = req[c].alone /\ req'[c].op = req[c].op /\ req'[c].id = req[c].id
      /\ req'[c].prev = req[c].prev /\ req'[c].input = req[c].input
      /\ \/ req[c].pc = "list" /\ req'[c].pc = "persist"
         \/ req[c].pc = "relist" /\ req'[c].pc = "repersist"
  BY DEF ListLedger, At, Idle, Doing, TypeInv, RequestsOK, Request
<1>2. req[c].pc = "relist" => Compensates(req[c].op)
  <2>1. Known(c) /\ WellFormed(req[c]) /\ req[c] \in Request
    BY DEF LoneInv, TypeInv, RequestsOK
  <2>2. QED
    BY <1>1, <2>1 DEF Known, WellFormed, Request, AllOperations, Compensates
<1>3. \A i \in unused : txns'[i] = NoEvent
  BY <1>1, LoneClient DEF stored
<1>4. LoneInv'
  <2>1. txns' = txns /\ status' = status /\ unused' = unused /\ taint' = taint
    BY <1>1 DEF stored
  <2>2. CASE req[c].pc = "list"
    <3>1. Undecided(c) /\ UNCHANGED txns /\ req'[c].pc = "persist"
      BY <1>1, <2>1, <2>2 DEF Undecided
    <3>2. QED
      BY <1>1, <1>3, <2>1, <3>1, MoveKeepsLone
  <2>3. CASE req[c].pc = "relist"
    BY <1>1, <1>2, <1>3, <2>1, <2>3, MoveKeepsLone
  <2>4. QED
    BY <1>1, <2>2, <2>3
<1>5. Committed' = Committed
  BY <1>1, CommittedAtEnds DEF Undecided, Doing, stored
<1>6. QED
  BY <1>1, <1>4, <1>5, Stutters DEF stored

LEMMA PersistMaps ==
  ASSUME SingleClient, TypeInv, TypeInv', SoloInv, LoneInv, NEW c \in Clients, Persist(c)
  PROVE  LoneInv' /\ Maps
<1>1. /\ ~Idle(c) /\ ~Doing(c, "drop", "write") /\ Undecided(c)
      /\ UNCHANGED <<txns, status, unused>> /\ status = "held"
      /\ "ledger" \in taint' => "ledger" \in taint
  BY DEF Persist, StorePosition, Accepts, At, Idle, Doing, Undecided
<1>2. Known(c) /\ req[c].alone /\ req[c].id \in Ids /\ req[c].list = txns
  <2>1. Known(c) /\ req[c].alone
    BY <1>1 DEF LoneInv, Known
  <2>2. req[c].list = txns
    BY <2>1 DEF SoloInv, Solitude, Persist
  <2>3. req[c].op # "drop"
    BY DEF TypeInv, RequestsOK, WellFormed, Persist, At
  <2>4. QED
    BY <1>1, <2>1, <2>2, <2>3, StartedRequestsNameAnEvent
<1>3. \A i \in unused : txns'[i] = NoEvent
  BY <1>1, LoneClient
<1>4. LoneInv' /\ Committed' = txns
  <2>1. CASE Finish(c)
    BY <1>1, <1>3, <2>1, FinishKeepsLone
  <2>2. CASE ~Finish(c)
    <3>1. Heals(req[c].op) /\ Move(c, "heal")
      BY <2>2 DEF Persist
    <3>2. LoneInv'
      BY <1>1, <1>3, <3>1, Moved, MoveKeepsLone DEF Heals, Compensates
    <3>3. ~Undecided(c)' /\ ~Doing(c, "drop", "write")'
      BY <3>1, Moved DEF Undecided, Doing
    <3>4. QED
      BY <1>1, <3>2, <3>3, CommittedAtEnds
  <2>3. QED
    BY <2>1, <2>2
<1>5. Maps
  BY <1>1, <1>2, <1>4, StoringMaps DEF Persist
<1>6. QED
  BY <1>4, <1>5

LEMMA RefuseMaps ==
  ASSUME SingleClient, TypeInv, TypeInv', SoloInv, LoneInv,
         PositionFromAcceptedLedger, Agreement, NEW c \in Clients, Refuse(c)
  PROVE  LoneInv' /\ Maps
<1>1. /\ ~Idle(c) /\ ~Doing(c, "drop", "write") /\ Undecided(c) /\ At(c, "persist")
      /\ UNCHANGED <<stored, unused, derivedFrom, taint>>
  BY DEF Refuse, At, Idle, Doing, Undecided
<1>2. \A i \in unused : txns'[i] = NoEvent
  BY <1>1, LoneClient DEF stored
<1>3. CASE Compensates(req[c].op)
  <2>1. Move(c, "undo")
    BY <1>3 DEF Refuse
  <2>2. LoneInv'
    BY <1>1, <1>2, <1>3, <2>1, Moved, MoveKeepsLone DEF stored
  <2>3. Committed' = Committed
    BY <1>1, <2>1, Moved, CommittedAtEnds DEF Undecided, Doing, stored
  <2>4. QED
    BY <1>1, <2>2, <2>3, Stutters DEF stored
<1>4. CASE ~Compensates(req[c].op)
  <2>1. Finish(c)
    BY <1>4 DEF Refuse
  <2>2. LoneInv'
    BY <1>1, <1>2, <2>1, FinishKeepsLone DEF stored
  <2>3. Known(c) /\ req[c].alone /\ req[c].op \in {"newHolding", "redate"}
    <3>1. Known(c) /\ WellFormed(req[c]) /\ req[c] \in Request
      BY DEF LoneInv, TypeInv, RequestsOK
    <3>2. QED
      BY <1>1, <1>4, <3>1 DEF Known, WellFormed, Request, AllOperations, Compensates, At
  <2>4. req[c].list = txns
    BY <1>1, <2>3 DEF SoloInv, Solitude
  <2>5. "ledger" \in taint
    BY <1>1, <2>3, <2>4, OpeningsAreAccepted DEF Refuse, Accepts
  <2>6. Maps
    BY <1>1, <2>5 DEF Maps, Atomic!Next, Atomic!Damage, stored
  <2>7. QED
    BY <2>2, <2>6
<1>5. QED
  BY <1>3, <1>4

\* A compensation puts the event back as it was read, which the committed ledger
\* has been showing all along.
LEMMA UndoMaps ==
  ASSUME SingleClient, TypeInv, TypeInv', LoneInv, NEW c \in Clients,
         RollbackCreate(c) \/ Restore(c) \/ Reinsert(c)
  PROVE  LoneInv' /\ Maps
<1>1. /\ ~Idle(c) /\ ~Doing(c, "drop", "write") /\ Undecided(c) /\ At(c, "undo")
      /\ req[c].op \in {"create", "update", "delete"}
  BY DEF RollbackCreate, Restore, Reinsert, At, Idle, Doing, Undecided
<1>2. /\ Known(c) /\ req[c].id \in Ids /\ req[c].id \notin unused /\ txns \in Ledgers
      /\ req[c].op = "create" => req[c].prev = NoEvent
      /\ req[c].op = "update" => txns[req[c].id] # NoEvent
  <2>1. Known(c) /\ txns \in Ledgers
    BY DEF LoneInv, TypeInv, TypeOK
  <2>2. QED
    BY <1>1, <2>1, StartedRequestsNameAnEvent DEF Known
<1>3. /\ Undo(c, req[c].prev)
      /\ Finish(c) \/ Move(c, "relist")
  BY <1>2 DEF RollbackCreate, Restore, Reinsert, Doing
<1>4. txns' = [txns EXCEPT ![req[c].id] = req[c].prev]
      /\ UNCHANGED <<status, position, lines, unused, derivedFrom, taint>>
  BY <1>3 DEF Undo
<1>5. \A i \in unused : txns'[i] = NoEvent
  BY <1>2, <1>4, LoneClient DEF Ledgers, TypeInv, TypeOK
<1>6. Committed = txns'
  BY <1>1, <1>4, CommittedAtEnds
<1>7. LoneInv' /\ Committed' = txns'
  <2>1. CASE Finish(c)
    BY <1>1, <1>4, <1>5, <2>1, FinishKeepsLone
  <2>2. CASE Move(c, "relist")
    <3>1. LoneInv'
      BY <1>1, <1>4, <1>5, <2>2, Moved, MoveKeepsLone DEF Compensates
    <3>2. ~Undecided(c)' /\ ~Doing(c, "drop", "write")'
      BY <2>2, Moved DEF Undecided, Doing
    <3>3. QED
      BY <3>1, <3>2, CommittedAtEnds
  <2>3. QED
    BY <1>3, <2>1, <2>2
<1>8. QED
  BY <1>4, <1>6, <1>7, Stutters

LEMMA RepersistMaps ==
  ASSUME SingleClient, TypeInv, TypeInv', SoloInv, LoneInv, NEW c \in Clients, Repersist(c)
  PROVE  LoneInv' /\ Maps
<1>1. /\ ~Idle(c) /\ ~Doing(c, "drop", "write") /\ ~Undecided(c) /\ Finish(c)
      /\ UNCHANGED <<txns, status, unused>>
  BY DEF Repersist, At, Idle, Doing, Undecided
<1>2. \A i \in unused : txns'[i] = NoEvent
  BY <1>1, LoneClient
<1>3. LoneInv' /\ Committed' = txns /\ Committed = txns
  BY <1>1, <1>2, FinishKeepsLone, CommittedAtEnds
<1>4. Known(c) /\ req[c].alone /\ req[c].list = txns /\ req[c].id \in Ids
  <2>1. Known(c) /\ req[c].alone
    BY <1>1 DEF LoneInv, Known
  <2>2. req[c].list = txns
    BY <2>1 DEF SoloInv, Solitude, Repersist
  <2>3. req[c].op # "drop"
    BY DEF TypeInv, RequestsOK, WellFormed, Repersist, At
  <2>4. QED
    BY <1>1, <2>1, <2>2, <2>3, StartedRequestsNameAnEvent
<1>5. CASE Accepts(c)
  BY <1>1, <1>3, <1>4, <1>5, StoringMaps DEF Repersist
<1>6. CASE ~Accepts(c)
  BY <1>1, <1>3, <1>6, Stutters DEF Repersist
<1>7. QED
  BY <1>3, <1>5, <1>6

LEMMA HealMaps ==
  ASSUME SingleClient, TypeInv, TypeInv', LoneInv, NEW c \in Clients, Heal(c)
  PROVE  LoneInv' /\ Maps
<1>1. /\ ~Idle(c) /\ ~Doing(c, "drop", "write") /\ ~Undecided(c)
      /\ req[c].pc \in {"heal", "rewrite"}
      /\ UNCHANGED <<txns, status, position, unused, derivedFrom, taint>>
  BY DEF Heal, HealRead, HealRow, At, Idle, Doing, Undecided, stored
<1>2. \A i \in unused : txns'[i] = NoEvent
  BY <1>1, LoneClient
<1>3. CASE Finish(c)
  BY <1>1, <1>2, <1>3, FinishKeepsLone, CommittedAtEnds, Stutters
<1>4. CASE ~Finish(c)
  <2>1. /\ req'[c].pc = "rewrite" /\ req'[c].alone = req[c].alone /\ req'[c].op = req[c].op
        /\ req'[c].id = req[c].id /\ req'[c].prev = req[c].prev
        /\ req'[c].input = req[c].input
    <3> DEFINE read == IF status = "held" THEN txns ELSE EmptyLedger
               todo == RowsToHeal(req[c])
    <3>1. \/ req' = [req EXCEPT ![c].pc = "rewrite", ![c].todo = todo, ![c].list = read]
          \/ At(c, "rewrite") /\ \E row \in req[c].todo :
                req' = [req EXCEPT ![c].todo = req[c].todo \ {row}]
      BY <1>4 DEF Heal, HealRead, HealRow
    <3> HIDE DEF read, todo
    <3>2. QED
      BY <3>1 DEF TypeInv, RequestsOK, Request, At
  <2>2. Compensates(req[c].op)
    <3>1. Known(c) /\ WellFormed(req[c]) /\ req[c] \in Request
      BY DEF LoneInv, TypeInv, RequestsOK
    <3>2. QED
      BY <1>1, <3>1 DEF Known, WellFormed, Request, AllOperations, Compensates
  <2>3. LoneInv'
    BY <1>1, <1>2, <2>1, <2>2, MoveKeepsLone
  <2>4. Committed' = Committed
    BY <1>1, <2>1, CommittedAtEnds DEF Undecided, Doing
  <2>5. QED
    BY <1>1, <2>3, <2>4, Stutters
<1>5. QED
  BY <1>3, <1>4

\* A stored position whose answer is lost is that of the write about to be undone.
LEMMA LostAnswerMaps ==
  ASSUME SingleClient, TypeInv, TypeInv', SoloInv, LoneInv, NEW c \in Clients, AnswerLost(c)
  PROVE  LoneInv' /\ Maps
<1>1. /\ ~Idle(c) /\ ~Doing(c, "drop", "write") /\ Undecided(c) /\ At(c, "persist")
      /\ Compensates(req[c].op) /\ Move(c, "undo") /\ taint' = taint \cup {"ledger"}
      /\ UNCHANGED <<txns, status, unused>> /\ status = "held"
      /\ ~Oversells(req[c].list) /\ derivedFrom' = req[c].list
      /\ position' = RecomputePosition(req[c].list)
  BY DEF AnswerLost, Accepts, At, Idle, Doing, Undecided
<1>2. req[c].id \in Ids /\ req[c].list = txns
  <2>1. req[c].alone
    BY <1>1 DEF LoneInv, Known
  <2>2. QED
    BY <1>1, <2>1, StartedRequestsNameAnEvent DEF SoloInv, Solitude, Compensates
<1>3. LoneInv'
  <2>1. \A i \in unused : txns'[i] = NoEvent
    BY <1>1, LoneClient
  <2>2. QED
    BY <1>1, <2>1, Moved, MoveKeepsLone
<1>4. Committed' = Committed /\ Committed = [txns EXCEPT ![req[c].id] = req[c].prev]
  BY <1>1, Moved, CommittedAtEnds DEF Undecided
<1>5. \A j \in Ids \ {req[c].id} : derivedFrom'[j] = Committed[j]
  BY <1>1, <1>2, <1>4 DEF TypeInv, TypeOK, Ledgers
<1>6. Atomic!LoseAnswer
  BY <1>1, <1>2, <1>4, <1>5 DEF Atomic!LoseAnswer, Atomic!Accept
<1>7. QED
  BY <1>3, <1>6 DEF Maps, Atomic!Next

\* A request that leaves something undone damages the ledger, or had done nothing.
LEMMA FailMaps ==
  ASSUME SingleClient, TypeInv, TypeInv', LoneInv, NEW c \in Clients, Fail(c), ~AnswerLost(c)
  PROVE  LoneInv' /\ Maps
<1>1. ~Idle(c) /\ UNCHANGED <<txns, status, position, unused, derivedFrom>>
  BY DEF Fail, CallFails, RollbackFails, Abandon, At, Idle, stored
<1>2. \A i \in unused : txns'[i] = NoEvent
  BY <1>1, LoneClient
<1>3. CASE Leave(c)
  <2>1. LoneInv' /\ Committed' = txns
    BY <1>1, <1>2, <1>3, FinishKeepsLone DEF Leave
  <2>2. CASE Doing(c, "drop", "write") \/ Undecided(c)
    <3>1. "ledger" \in taint'
      BY <1>3, <2>2 DEF Leave, LeftBy, Doing, Undecided
    <3>2. QED
      BY <1>1, <2>1, <3>1 DEF Maps, Atomic!Next, Atomic!Damage
  <2>3. CASE ~Doing(c, "drop", "write") /\ ~Undecided(c)
    <3>1. "ledger" \notin LeftBy(c)
      BY <2>3 DEF LeftBy, Undecided
    <3>2. Committed = txns
      BY <2>3, CommittedAtEnds
    <3>3. QED
      BY <1>1, <1>3, <2>1, <3>1, <3>2, Stutters DEF Leave
  <2>4. QED
    BY <2>2, <2>3
<1>4. CASE ~Leave(c)
  <2>1. /\ At(c, "list") \/ At(c, "persist")
        /\ Compensates(req[c].op) /\ Move(c, "undo") /\ UNCHANGED taint
    BY <1>4 DEF Fail, CallFails, RollbackFails, Abandon
  <2>2. Undecided(c) /\ ~Doing(c, "drop", "write")
    BY <2>1 DEF Undecided, Doing, At
  <2>3. LoneInv'
    BY <1>1, <1>2, <2>1, <2>2, Moved, MoveKeepsLone
  <2>4. Committed' = Committed
    BY <1>1, <2>1, <2>2, Moved, CommittedAtEnds DEF Undecided, Doing
  <2>5. QED
    BY <1>1, <2>1, <2>3, <2>4, Stutters
<1>5. QED
  BY <1>3, <1>4

\* What the abstract ledger keeps: undamaged, its position is that of the ledger.
LEMMA MappedStepsAgree ==
  ASSUME TypeInv, TypeInv', Agreement, Maps
  PROVE  Agreement'
<1>1. EmptyLedger = Atomic!NoEvents
  BY DEF EmptyLedger, Atomic!NoEvents
<1>2. CASE UNCHANGED Atomic!vars
  BY <1>2 DEF Agreement, Atomic!vars
<1>3. CASE \/ Atomic!Open \/ Atomic!Commit \/ Atomic!Drop \/ Atomic!Damage
           \/ Atomic!LoseAnswer \/ Atomic!Repair
  BY <1>1, <1>3 DEF Agreement, Atomic!Open, Atomic!Commit, Atomic!Drop, Atomic!Damage,
                    Atomic!LoseAnswer, Atomic!Repair, Atomic!Accept
<1>4. QED
  BY <1>2, <1>3 DEF Maps, Atomic!Next

LEMMA LoneStep ==
  ASSUME SingleClient, SoloInv, SoloInv', PositionFromAcceptedLedger,
         LoneInv, Agreement, [Next]_vars
  PROVE  LoneInv' /\ Agreement' /\ Maps
<1>1. TypeInv /\ TypeInv'
  BY DEF SoloInv
<1>2. CASE UNCHANGED vars
  <2>1. LoneInv'
    BY <1>2 DEF vars, LoneInv, Bounds, Known, Quiet, Idle, Doing, Undecided
  <2>2. Committed' = Committed
    BY <1>2, CommittedIsOf DEF vars
  <2>3. QED
    BY <1>1, <1>2, <2>1, <2>2, Stutters, MappedStepsAgree DEF vars
<1>3. ASSUME NEW c \in Clients, Start(c) \/ Write(c) \/ Recompute(c) \/ Heal(c) \/ Fail(c)
      PROVE  LoneInv' /\ Maps
  <2>1. CASE Recompute(c)
    BY <1>1, <2>1, ListMaps, PersistMaps, RefuseMaps, UndoMaps, RepersistMaps DEF Recompute
  <2>2. QED
    BY <1>1, <1>3, <2>1, StartMaps, WriteMaps, HealMaps, FailMaps,
       LostAnswerMaps
<1>4. QED
  BY <1>1, <1>2, <1>3, MappedStepsAgree DEF Next

LEMMA LoneInit ==
  ASSUME Init
  PROVE  LoneInv /\ Agreement /\ Atomic!Init
<1>1. \A c \in Clients : Idle(c) /\ ~Undecided(c) /\ ~Doing(c, "drop", "write")
  BY DEF Init, NoRequest, Idle, Undecided, Doing
<1>2. txns \in Ledgers /\ status \in {"absent", "held"}
  BY InitTypes DEF Init, TypeInv, TypeOK
<1>3. Committed = txns
  BY <1>1, <1>2 DEF Committed, Ledgers
<1>4. "ledger" \notin taint
  BY DEF Init
<1>5. LoneInv
  BY <1>1, <1>2, <1>4 DEF Init, LoneInv, Bounds, Known, Quiet, Events, Ledgers
<1>6. Agreement
  BY <1>3 DEF Init, Agreement
<1>7. ~Oversells(txns)
  BY InitialLedgersAreAccepted, EmptyLedgerIsFlat DEF Init
<1>8. <<Committed, status>> \in {<<EmptyLedger, "absent">>} \cup (InitialLedgers \X {"held"})
  BY <1>3 DEF Init
<1>9. QED
  BY <1>3, <1>4, <1>5, <1>6, <1>7, <1>8 DEF Init, Atomic!Init

LEMMA LoneInvHolds ==
  ASSUME SingleClient
  PROVE  Spec => [](SoloInv /\ PositionFromAcceptedLedger /\ LoneInv /\ Agreement)
<1>1. /\ SoloInv /\ SoloInv' /\ PositionFromAcceptedLedger /\ LoneInv /\ Agreement /\ [Next]_vars
      => LoneInv' /\ Agreement'
  BY LoneStep
<1>2. Init => LoneInv /\ Agreement
  BY LoneInit
<1>3. QED
  BY <1>1, <1>2, SoloInvHolds, PositionIsAlwaysAccepted, PTL DEF Spec

\* With one client, whatever operations it calls and whatever fails, the position
\* at rest is the replay of the ledger at rest, unless a failure took a
\* compensation with it, or a Create lost the answer of the position it stored,
\* and no request has succeeded since.
THEOREM ProjectionIsExactHolds ==
  ASSUME SingleClient
  PROVE  Spec => []ProjectionIsExact
<1>1. SoloInv /\ PositionFromAcceptedLedger /\ LoneInv /\ Agreement => ProjectionIsExact
  <2> SUFFICES ASSUME SoloInv, PositionFromAcceptedLedger, Agreement, Quiet, status = "held",
                      "ledger" \notin taint
               PROVE  position = RecomputePosition(txns) /\ ~Oversells(txns)
    BY DEF ProjectionIsExact
  <2>1. \A c \in Clients : ~Undecided(c) /\ ~Doing(c, "drop", "write")
    BY DEF Quiet, Idle, Undecided, Doing
  <2>2. Committed = txns
    BY <2>1 DEF Committed, SoloInv, TypeInv, TypeOK, Ledgers
  <2>3. QED
    BY <2>2 DEF Agreement, PositionFromAcceptedLedger
<1>2. QED
  BY <1>1, LoneInvHolds, PTL

\* With one client, each request of the service is one step of the atomic ledger:
\* one event and the position change together, or nothing does, and a drop takes
\* the whole ledger; only a failed compensation, or a lost answer until the
\* compensation has recomputed the position, damages it.
THEOREM RequestsImplementAtomicLedger ==
  ASSUME SingleClient
  PROVE  Spec => ImplementsAtomicLedger
<1>1. Init => Atomic!Init
  BY LoneInit
<1>2. /\ SoloInv /\ PositionFromAcceptedLedger /\ LoneInv /\ Agreement
      /\ SoloInv' /\ [Next]_vars
      => [Atomic!Next]_(Atomic!vars)
  BY LoneStep DEF Maps
<1>3. QED
  BY <1>1, <1>2, LoneInvHolds, PTL DEF Spec, ImplementsAtomicLedger, Atomic!Spec

\* The ledger as of a day at which both dates of an opening, or neither, are in
\* effect does not show which of them it has.
LEMMA RedatesShowOnlyBetween ==
  ASSUME NEW ledger \in Ledgers, NEW i \in Ids, ledger[i] \in Transaction,
         IsOpening(ledger[i]), NEW day \in OpeningDays, NEW row \in Rows,
         ledger[i].openingDate <= row <=> day <= row
  PROVE  LineAsOf([ledger EXCEPT ![i] = Redated(ledger[i], day)], row) = LineAsOf(ledger, row)
<1> DEFINE redated == [ledger EXCEPT ![i] = Redated(ledger[i], day)]
<1>1. /\ Redated(ledger[i], day) \in Transaction /\ IsOpening(Redated(ledger[i], day))
      /\ Redated(ledger[i], day).openingDate = day
  BY RowsAreDays, StartsAreNaturals DEF Redated, Transaction, IsOpening
<1>2. /\ InEffect(ledger[i], row) <=> ledger[i].openingDate <= row
      /\ InEffect(Redated(ledger[i], day), row) <=> day <= row
  BY <1>1, RowsAreDays DEF InEffect, IsOpening, Transaction, Undated
<1>3. ledger[i] # NoEvent /\ Redated(ledger[i], day) # NoEvent
  BY <1>1, TransactionsAreEvents
<1>4. AsOfLedger(ledger, row) \in Ledgers
  BY DEF AsOfLedger, Ledgers
<1>5. CASE day <= row
  <2>1. AsOfLedger(ledger, row)[i] = ledger[i]
    BY <1>2, <1>3, <1>5 DEF AsOfLedger, Ledgers
  <2>2. AsOfLedger(redated, row) = [AsOfLedger(ledger, row) EXCEPT ![i] = Redated(ledger[i], day)]
    BY <1>2, <1>3, <1>5 DEF AsOfLedger, Ledgers
  <2>3. ASSUME NEW l \in Ledgers, l[i] # NoEvent, IsOpening(l[i])
        PROVE  RecomputePosition([l EXCEPT ![i] = Redated(l[i], day)]) = RecomputePosition(l)
    BY <2>3, OpeningsAreNeutral, Zenon
  <2>4. RecomputePosition([AsOfLedger(ledger, row) EXCEPT ![i] = Redated(AsOfLedger(ledger, row)[i], day)])
          = RecomputePosition(AsOfLedger(ledger, row))
    BY <1>3, <1>4, <2>1, <2>3
  <2>5. QED
    BY <2>1, <2>2, <2>4 DEF LineAsOf
<1>6. CASE ~(day <= row)
  <2>1. AsOfLedger(redated, row) = AsOfLedger(ledger, row)
    BY <1>2, <1>3, <1>6 DEF AsOfLedger, Ledgers
  <2>2. QED
    BY <2>1 DEF LineAsOf
<1>7. QED
  BY <1>5, <1>6

\* With one client, a redate leaves out of step only rows between the day the
\* opening had and the day it gets: setOpeningDate heals none, and these are all
\* it would have had to heal.
THEOREM RedatesMissOnlyRowsBetweenHolds ==
  ASSUME SingleClient
  PROVE  Spec => RedatesMissOnlyRowsBetween
<1> DEFINE Missed ==
             \A c \in Clients, row \in Rows :
                /\ Doing(c, "redate", "write") /\ txns' # txns
                /\ lines[row] = LineAsOf(txns, row)
                /\ lines'[row] # LineAsOf(txns', row)
                => LET days == {txns[req[c].id].openingDate, txns'[req[c].id].openingDate}
                   IN  (\E day \in days : day <= row) /\ (\E day \in days : row < day)
<1>1. ASSUME SoloInv, LoneInv, [Next]_vars PROVE [Missed]_vars
  <2> SUFFICES ASSUME NEW c \in Clients, NEW row \in Rows, Doing(c, "redate", "write"),
                      txns' # txns, lines[row] = LineAsOf(txns, row),
                      lines'[row] # LineAsOf(txns', row)
               PROVE  LET days == {txns[req[c].id].openingDate, txns'[req[c].id].openingDate}
                      IN  (\E day \in days : day <= row) /\ (\E day \in days : row < day)
    OBVIOUS
  <2> DEFINE id == req[c].id
  <2>1. /\ TypeInv /\ Known(c) /\ ~Idle(c) /\ txns \in Ledgers /\ id \in Ids
        /\ req[c].pc = "write" /\ req[c].op = "redate"
    <3>1. TypeInv /\ Known(c) /\ ~Idle(c) /\ txns \in Ledgers /\ req[c].op = "redate"
      BY <1>1 DEF SoloInv, LoneInv, TypeInv, TypeOK, Doing, Idle
    <3>2. QED
      BY <3>1, StartedRequestsNameAnEvent DEF Doing
  <2>2. Start(c) \/ Write(c) \/ Recompute(c) \/ Heal(c) \/ Fail(c)
    BY <1>1 DEF Next, vars, SingleClient
  <2>3. RedateOpening(c)
    <3>1. ~Start(c)
      BY <2>1 DEF Start, CreateStart, UpdateStart, DeleteStart, NewHoldingStart,
         NewHoldingBare, RedateStart, DropStart, Begin, Idle
    <3>2. ~Recompute(c) /\ ~Heal(c)
      BY <2>1 DEF Recompute, ListLedger, Persist, Refuse, RollbackCreate, Restore, Reinsert,
         Repersist, Heal, HealRead, HealRow, Doing, At
    <3>3. ~Fail(c)
      BY DEF Fail, CallFails, AnswerLost, RollbackFails, Abandon, stored
    <3>4. Write(c)
      BY <2>2, <3>1, <3>2, <3>3
    <3>5. QED
      BY <2>1, <3>4 DEF Write, InsertTxn, RewriteTxn, RemoveTxn, WriteMisses, CascadeDelete,
         Doing, stored
  <2>4. PICK day \in OpeningDays : req[c].input = Redated(req[c].prev, day)
    BY <2>1 DEF Known
  <2>5. txns[id] = req[c].prev /\ txns[id] \in Transaction /\ IsOpening(txns[id])
    BY <2>1 DEF Known
  <2>6. req[c].input.date = StartOf(day) /\ req[c].input.openingDate = day
    BY <2>4, <2>5 DEF Redated, Transaction
  <2>7. txns' = [txns EXCEPT ![id] = Redated(txns[id], day)] /\ lines' = lines
    BY <2>3, <2>6 DEF RedateOpening, Store, Redated
  <2>8. ~(txns[id].openingDate <= row <=> day <= row)
    BY <2>1, <2>5, <2>7, RedatesShowOnlyBetween
  <2>9. txns'[id].openingDate = day
    BY <2>1, <2>5, <2>7 DEF Redated, Transaction, Ledgers
  <2>10. txns[id].openingDate \in Int /\ day \in Int /\ row \in Int
    BY <2>5, RowsAreDays DEF Transaction, Undated
  <2>11. QED
    BY <2>8, <2>9, <2>10
<1>2. QED
  BY <1>1, LoneInvHolds, PTL DEF Spec, RedatesMissOnlyRowsBetween

------------------------------------------------------------------------------
(***************************************************************************)
(* Any number of clients.  What compensations leave behind: a request that *)
(* nobody overlapped still has its holding, and the event it edited is     *)
(* still there when its compensation runs.                                 *)
(***************************************************************************)
Undisturbed(c) ==
    LET r == req[c] IN
    /\ r.op = "create" => r.prev = NoEvent
    /\ r.alone => /\ r.op \in {"create", "newHolding"} => status = "held"
                  /\ Undecided(c) /\ r.op = "update" => txns[r.id] # NoEvent

AloneInv == \A c \in Clients : Undisturbed(c)

LEMMA FinishedIsUndisturbed ==
  ASSUME TypeInv, NEW c \in Clients, Finish(c)
  PROVE  Undisturbed(c)'
  BY DEF Finish, TypeInv, RequestsOK, NoRequest, Undisturbed

\* A step of a client with a request disturbs no other: none of them is alone.
LEMMA BusyStepsKeepOthers ==
  ASSUME SoloInv, AloneInv, NEW c \in Clients, ~Idle(c), Undisturbed(c)',
         \A k \in Clients \ {c} : req'[k] = req[k]
  PROVE  AloneInv'
<1>1. ASSUME NEW k \in Clients \ {c} PROVE Undisturbed(k)'
  BY OnlyTheActorIsAlone DEF AloneInv, Undisturbed
<1>2. QED
  BY <1>1 DEF AloneInv

LEMMA OnlyItsOwnRequest ==
  ASSUME TypeInv, NEW c \in Clients, NEW r, req' = [req EXCEPT ![c] = r]
  PROVE  \A k \in Clients \ {c} : req'[k] = req[k]
  BY DEF TypeInv, RequestsOK

\* A request that moves on keeps what it knows.
LEMMA MovingOnIsUndisturbed ==
  ASSUME SoloInv, AloneInv, NEW c \in Clients, UNCHANGED status,
         req'[c].op = req[c].op, req'[c].prev = req[c].prev, req'[c].id = req[c].id,
         req'[c].alone = req[c].alone,
         \/ Undecided(c) /\ UNCHANGED txns
         \/ ~Undecided(c)'
         \/ req[c].op = "update" => txns'[req[c].id] # NoEvent
  PROVE  Undisturbed(c)'
  BY DEF AloneInv, Undisturbed, Undecided

LEMMA StartIsUndisturbed ==
  ASSUME SoloInv, AloneInv, NEW c \in Clients, Start(c)
  PROVE  AloneInv'
<1> USE DEF SoloInv
<1>1. CASE NewHoldingBare(c)
  BY <1>1 DEF NewHoldingBare, InsertHolding, AloneInv, Undisturbed, Undecided
<1>2. ASSUME NEW request, Begin(c, request),
             {"op", "pc", "prev", "alone"} \subseteq DOMAIN request,
             request.op = "create" => request.prev = NoEvent,
             request.op \in {"create", "newHolding"} => status' = "held"
      PROVE  AloneInv'
  <2>1. req'[c] = [request EXCEPT !.pc = "write",
                                  !.alone = \A o \in Clients \ {c} : Idle(o)]
    BY <1>2, Zenon DEF Begin
  <2>2. req'[c].pc = "write" /\ req'[c].op = request.op /\ req'[c].prev = request.prev
    BY <1>2, <2>1
  <2>3. \A k \in Clients \ {c} :
          /\ ~req'[k].alone /\ req'[k].op = req[k].op /\ req'[k].prev = req[k].prev
    BY <1>2 DEF Begin, TypeInv, RequestsOK, Request
  <2>4. Undisturbed(c)'
    BY <1>2, <2>2 DEF Undisturbed, Undecided
  <2>5. \A k \in Clients \ {c} : Undisturbed(k)'
    BY <2>3 DEF Undisturbed, AloneInv
  <2>6. QED
    BY <2>4, <2>5 DEF AloneInv
<1>3. ASSUME NEW op, NEW id, NEW prev, NEW input
      PROVE  /\ Begin(c, [NoRequest EXCEPT !.op = op]) /\ op = "drop" => AloneInv'
             /\ /\ Begin(c, [NoRequest EXCEPT !.op = op, !.id = id, !.input = input])
                /\ status' = "held"
                => AloneInv'
             /\ Begin(c, [NoRequest EXCEPT !.op = op, !.id = id, !.prev = prev])
                /\ op = "delete" => AloneInv'
             /\ Begin(c, [NoRequest EXCEPT !.op = op, !.id = id, !.prev = prev, !.input = input])
                /\ op \in {"update", "redate"} => AloneInv'
  <2> DEFINE r1 == [NoRequest EXCEPT !.op = op]
             r2 == [NoRequest EXCEPT !.op = op, !.id = id, !.input = input]
             r3 == [NoRequest EXCEPT !.op = op, !.id = id, !.prev = prev]
             r4 == [NoRequest EXCEPT !.op = op, !.id = id, !.prev = prev, !.input = input]
             fields == {"op", "pc", "prev", "alone"}
  <2>1. /\ fields \subseteq DOMAIN r1 /\ r1.op = op
        /\ fields \subseteq DOMAIN r2 /\ r2.op = op /\ r2.prev = NoEvent
        /\ fields \subseteq DOMAIN r3 /\ r3.op = op
        /\ fields \subseteq DOMAIN r4 /\ r4.op = op
    BY DEF NoRequest
  <2> HIDE DEF r1, r2, r3, r4
  <2>2. /\ Begin(c, r1) /\ op = "drop" => AloneInv'
        /\ Begin(c, r2) /\ status' = "held" => AloneInv'
        /\ Begin(c, r3) /\ op = "delete" => AloneInv'
        /\ Begin(c, r4) /\ op \in {"update", "redate"} => AloneInv'
    BY <1>2, <2>1
  <2>3. QED
    BY <2>2 DEF r1, r2, r3, r4
<1>4. CASE CreateStart(c)
  <2>1. status' = "held"
    BY <1>4 DEF CreateStart, stored
  <2>2. QED
    BY <1>3, <1>4, <2>1, Zenon DEF CreateStart
<1>5. CASE NewHoldingStart(c)
  <2>1. status' = "held"
    BY <1>5 DEF NewHoldingStart, InsertHolding
  <2>2. QED
    BY <1>3, <1>5, <2>1, Zenon DEF NewHoldingStart
<1>6. CASE UpdateStart(c)
  BY <1>3, <1>6, Zenon DEF UpdateStart
<1>7. CASE DeleteStart(c)
  BY <1>3, <1>7, Zenon DEF DeleteStart
<1>8. CASE RedateStart(c)
  BY <1>3, <1>8, Zenon DEF RedateStart
<1>9. CASE DropStart(c)
  BY <1>3, <1>9, Zenon DEF DropStart
<1>10. QED
  BY <1>1, <1>4, <1>5, <1>6, <1>7, <1>8, <1>9 DEF Start

LEMMA WriteIsUndisturbed ==
  ASSUME SoloInv, AloneInv, NEW c \in Clients, Write(c)
  PROVE  AloneInv'
<1> USE DEF SoloInv
<1>1. ~Idle(c)
  BY DEF Write, InsertTxn, RewriteTxn, RemoveTxn, RedateOpening, WriteMisses, CascadeDelete,
         Doing, At, Idle
<1>2. CASE Finish(c)
  BY <1>1, <1>2, FinishedIsUndisturbed, FinishedIsNotAlone, BusyStepsKeepOthers
  DEF TypeInv
<1>3. ASSUME NEW txn, Store(c, txn), req[c].op = "update" => txn # NoEvent, req[c].op # "drop"
      PROVE  AloneInv'
  <2>1. req[c].id \in Ids /\ txns'[req[c].id] = txn
    BY <1>1, <1>3, StartedRequestsNameAnEvent DEF Store, TypeInv, TypeOK, Ledgers
  <2>2. Undisturbed(c)'
    BY <1>3, <2>1, Moved, MovingOnIsUndisturbed DEF Store
  <2>3. \A k \in Clients \ {c} : req'[k] = req[k]
    BY <1>3 DEF Store, Move, TypeInv, RequestsOK
  <2>4. QED
    BY <1>1, <2>2, <2>3, BusyStepsKeepOthers
<1>4. CASE RewriteTxn(c)
  <2>1. txns[req[c].id] \in Transaction /\ req[c].input \in Transaction
    BY <1>1, <1>4, StartedRequestsNameAnEvent
    DEF RewriteTxn, Doing, Idle, WellFormed, TypeInv, RequestsOK
  <2>2. Rewritten(txns[req[c].id], req[c].prev, req[c].input) # NoEvent
    BY <2>1, RewrittenIsTransaction, TransactionsAreEvents
  <2>3. QED
    BY <1>3, <1>4, <2>2 DEF RewriteTxn, Doing
<1>5. CASE InsertTxn(c)
  BY <1>3, <1>5 DEF InsertTxn, Doing
<1>6. CASE RemoveTxn(c)
  BY <1>3, <1>6 DEF RemoveTxn, Doing
<1>7. CASE RedateOpening(c)
  <2>1. PICK txn : Store(c, txn)
    BY <1>7, Zenon DEF RedateOpening
  <2>2. QED
    BY <1>3, <1>7, <2>1 DEF RedateOpening, Doing
<1>8. QED
  BY <1>2, <1>4, <1>5, <1>6, <1>7 DEF Write, WriteMisses, CascadeDelete

LEMMA LaterStepsAreUndisturbed ==
  ASSUME SoloInv, AloneInv, NEW c \in Clients, Recompute(c) \/ Heal(c) \/ Fail(c)
  PROVE  AloneInv'
<1> USE DEF SoloInv
<1>1. ~Idle(c) /\ UNCHANGED status
  BY DEF Recompute, ListLedger, Persist, Refuse, RollbackCreate, Restore, Reinsert, Repersist,
         Undo, Heal, HealRead, HealRow, Fail, CallFails, AnswerLost, RollbackFails, Abandon, Doing, At, Idle,
         stored
<1>2. CASE Finish(c)
  BY <1>1, <1>2, FinishedIsUndisturbed, FinishedIsNotAlone, BusyStepsKeepOthers
  DEF TypeInv
<1>3. ASSUME ~Finish(c)
      PROVE  /\ \A k \in Clients \ {c} : req'[k] = req[k]
             /\ req'[c].op = req[c].op /\ req'[c].prev = req[c].prev
             /\ req'[c].id = req[c].id /\ req'[c].alone = req[c].alone
             /\ Undecided(c)' => Undecided(c) /\ UNCHANGED txns
  <2> DEFINE read == IF status = "held" THEN txns ELSE EmptyLedger
             todo == RowsToHeal(req[c])
  <2>1. \/ ListLedger(c)
        \/ Move(c, "heal")
        \/ Move(c, "undo") /\ Undecided(c) /\ UNCHANGED txns
        \/ Move(c, "relist")
        \/ req' = [req EXCEPT ![c].pc = "rewrite", ![c].todo = todo, ![c].list = read]
        \/ At(c, "rewrite") /\ \E row \in req[c].todo :
              req' = [req EXCEPT ![c].todo = req[c].todo \ {row}]
    BY <1>3 DEF Recompute, Persist, Refuse, RollbackCreate, Restore, Reinsert, Repersist, Heal,
                HealRead, HealRow, Fail, CallFails, AnswerLost, RollbackFails, Abandon, Leave, At,
                Undecided, stored
  <2> HIDE DEF read, todo
  <2>2. QED
    BY <2>1 DEF ListLedger, Move, TypeInv, RequestsOK, Request, At, Undecided, stored
<1>4. CASE ~Finish(c)
  <2>1. Undisturbed(c)'
    BY <1>1, <1>3, <1>4, MovingOnIsUndisturbed
  <2>2. QED
    BY <1>1, <1>3, <1>4, <2>1, BusyStepsKeepOthers
<1>5. QED
  BY <1>2, <1>4

LEMMA AloneInvHolds == Spec => []AloneInv
<1>1. Init => AloneInv
  BY DEF Init, NoRequest, AloneInv, Undisturbed
<1>2. SoloInv /\ AloneInv /\ [Next]_vars => AloneInv'
  <2>1. ASSUME AloneInv, UNCHANGED vars PROVE AloneInv'
    BY <2>1 DEF vars, AloneInv, Undisturbed, Undecided
  <2>2. QED
    BY <2>1, StartIsUndisturbed, WriteIsUndisturbed, LaterStepsAreUndisturbed DEF Next
<1>3. QED
  BY <1>1, <1>2, SoloInvHolds, PTL DEF Spec

\* What a step does to the ledger.
LEMMA LedgerSteps ==
  ASSUME TypeInv, NEW c \in Clients, Start(c) \/ Write(c) \/ Recompute(c) \/ Heal(c) \/ Fail(c)
  PROVE  \/ UNCHANGED txns
         \/ txns' = EmptyLedger
         \/ InsertTxn(c)
         \/ txns[req[c].id] # NoEvent /\ \E txn : txns' = [txns EXCEPT ![req[c].id] = txn]
         \/ txns' = [txns EXCEPT ![req[c].id] = NoEvent]
         \/ Reinsert(c)
<1>1. CASE Start(c)
  BY <1>1 DEF Start, CreateStart, UpdateStart, DeleteStart, NewHoldingStart, NewHoldingBare,
              InsertHolding, RedateStart, DropStart, stored
<1>2. CASE RedateOpening(c)
  <2>1. txns[req[c].id] # NoEvent /\ \E txn : Store(c, txn)
    BY <1>2, Zenon DEF RedateOpening
  <2>2. QED
    BY <2>1 DEF Store
<1>3. CASE Write(c) /\ ~RedateOpening(c)
  BY <1>3 DEF Write, RewriteTxn, RemoveTxn, WriteMisses, CascadeDelete, Store, stored
<1>4. CASE Recompute(c)
  BY <1>4 DEF Recompute, ListLedger, Persist, Refuse, RollbackCreate, Restore, Repersist, Undo,
              stored
<1>5. CASE Heal(c) \/ Fail(c)
  BY <1>5 DEF Heal, HealRead, HealRow, Fail, CallFails, AnswerLost, RollbackFails, Abandon, stored
<1>6. QED
  BY <1>1, <1>2, <1>3, <1>4, <1>5

\* The request of a client that nobody overlapped moves on by a step of its own.
LEMMA OnlyItsOwnStepMoves ==
  ASSUME SoloInv, NEW c \in Clients, ~Idle(c), req[c].alone, req'[c].pc # req[c].pc,
         NEW d \in Clients, Start(d) \/ Write(d) \/ Recompute(d) \/ Heal(d) \/ Fail(d)
  PROVE  d = c
<1>1. SUFFICES ASSUME d # c PROVE FALSE
  OBVIOUS
<1>2. Idle(d)
  BY <1>1 DEF SoloInv, Solitude
<1>3. Start(d)
  BY <1>2
  DEF Write, InsertTxn, RewriteTxn, RemoveTxn, RedateOpening, WriteMisses, CascadeDelete,
      Recompute, ListLedger, Persist, Refuse, RollbackCreate, Restore, Reinsert, Repersist,
      Heal, HealRead, HealRow, Fail, CallFails, AnswerLost, RollbackFails, Abandon, Doing, At, Idle
<1>4. UNCHANGED req \/ \E request : Begin(d, request)
  BY <1>3, Zenon DEF Start, CreateStart, UpdateStart, DeleteStart, NewHoldingStart,
              NewHoldingBare, RedateStart, DropStart
<1>5. req'[c].pc = req[c].pc
  <2>1. req[c] \in Request
    BY DEF SoloInv, TypeInv, RequestsOK
  <2>2. ASSUME NEW request, Begin(d, request) PROVE req'[c] = [req[c] EXCEPT !.alone = FALSE]
    BY <1>1, <2>2 DEF Begin
  <2>3. QED
    BY <1>4, <2>1, <2>2 DEF Request
<1>6. QED
  BY <1>5

\* An event joins the ledger of a deleted holding only under a request that another
\* overlapped, or is put back where a cascade cut short had left it; and a
\* compensation leaves a ledger the replay refuses only under an overlap, a failed
\* call, or where the request found it refused.
THEOREM DamageComesFromOverlapHolds == Spec => DamageComesFromOverlap
<1> DEFINE Orphans ==
             \A id \in Ids :
                status = "deleted" /\ txns[id] = NoEvent /\ txns'[id] # NoEvent =>
                    \E c \in Clients : req[c].id = id /\ (~req[c].alone \/ req[c].prev = txns'[id])
           Rejected ==
             \A c \in Clients :
                At(c, "undo") /\ req'[c].pc # "undo" /\ Oversells(txns') =>
                    ~req[c].alone \/ faults' # faults \/ Oversells(FoundBy(c))
<1>1. ASSUME SoloInv, AloneInv, [Next]_vars PROVE Orphans
  <2> SUFFICES ASSUME NEW id \in Ids, status = "deleted", txns[id] = NoEvent, txns'[id] # NoEvent
               PROVE  \E c \in Clients : req[c].id = id /\ (~req[c].alone \/ req[c].prev = txns'[id])
    OBVIOUS
  <2>1. PICK c \in Clients : Start(c) \/ Write(c) \/ Recompute(c) \/ Heal(c) \/ Fail(c)
    BY <1>1 DEF Next, vars
  <2>2. TypeInv /\ txns \in Ledgers
    BY <1>1 DEF SoloInv, TypeInv, TypeOK
  <2>3. CASE InsertTxn(c)
    <3>1. req[c].id = id /\ req[c].op \in {"create", "newHolding"}
      BY <2>2, <2>3 DEF InsertTxn, Doing, Store, Ledgers
    <3>2. ~req[c].alone
      BY <1>1, <3>1 DEF AloneInv, Undisturbed
    <3>3. QED
      BY <3>1, <3>2
  <2>4. CASE Reinsert(c)
    BY <2>2, <2>4 DEF Reinsert, Undo, Ledgers
  <2>5. CASE ~InsertTxn(c) /\ ~Reinsert(c)
    <3>1. \/ UNCHANGED txns \/ txns' = EmptyLedger
          \/ txns[req[c].id] # NoEvent /\ \E txn : txns' = [txns EXCEPT ![req[c].id] = txn]
          \/ txns' = [txns EXCEPT ![req[c].id] = NoEvent]
      BY <2>1, <2>2, <2>5, LedgerSteps
    <3>2. txns'[id] = NoEvent
      BY <2>2, <3>1 DEF EmptyLedger, Ledgers
    <3>3. QED
      BY <3>2
  <2>6. QED
    BY <2>3, <2>4, <2>5
<1>2. ASSUME SoloInv, AloneInv, [Next]_vars PROVE Rejected
  <2> SUFFICES ASSUME NEW c \in Clients, At(c, "undo"), req'[c].pc # "undo", Oversells(txns'),
                      req[c].alone, faults' = faults
               PROVE  Oversells(FoundBy(c))
    OBVIOUS
  <2>1. TypeInv /\ txns \in Ledgers /\ Undecided(c) /\ ~Idle(c)
    BY <1>2 DEF SoloInv, TypeInv, TypeOK, At, Undecided, Idle
  <2>2. PICK d \in Clients : Start(d) \/ Write(d) \/ Recompute(d) \/ Heal(d) \/ Fail(d)
    BY <1>2 DEF Next, vars, At
  <2>3. d = c
    BY <1>2, <2>1, <2>2, OnlyItsOwnStepMoves DEF At
  <2>4. RollbackCreate(c) \/ Restore(c) \/ Reinsert(c)
    <3>1. ~Start(c)
      BY <2>1 DEF Start, CreateStart, UpdateStart, DeleteStart, NewHoldingStart,
         NewHoldingBare, RedateStart, DropStart, Begin, Idle
    <3>2. ~Write(c) /\ ~Heal(c)
      BY DEF Write, InsertTxn, RewriteTxn, RemoveTxn, RedateOpening, WriteMisses,
             CascadeDelete, Heal, HealRead, HealRow, Doing, At
    <3>3. ~Fail(c)
      BY <2>1 DEF Fail, CallFails, AnswerLost, RollbackFails, Abandon, Fault, TypeInv, TypeOK
    <3>4. Recompute(c)
      BY <2>2, <2>3, <3>1, <3>2, <3>3
    <3>5. QED
      BY <3>4 DEF Recompute, ListLedger, Persist, Refuse, Repersist, At
  <2>5. /\ req[c].op = "create" => req[c].prev = NoEvent
        /\ req[c].op = "update" => txns[req[c].id] # NoEvent
    BY <1>2, <2>1 DEF AloneInv, Undisturbed
  <2>6. txns' = FoundBy(c)
    BY <2>4, <2>5 DEF RollbackCreate, Restore, Reinsert, Undo, Doing, FoundBy
  <2>7. QED
    BY <2>6
<1>3. ASSUME SoloInv, AloneInv, [Next]_vars PROVE [Orphans]_vars /\ [Rejected]_vars
  BY <1>1, <1>2, <1>3
<1>4. QED
  BY <1>3, SoloInvHolds, AloneInvHolds, PTL
  DEF Spec, DamageComesFromOverlap, OrphansComeFromOverlap, RejectedLedgersComeFromOverlap

\* An Update or Delete that overlapped no other and whose compensation does not
\* fail ends with the exact position of the ledger it put back.
THEOREM SoloCompensationIsExactHolds == Spec => SoloCompensationIsExact
<1> DEFINE Compensated(c) ==
             /\ req[c].pc \in {"undo", "relist", "repersist"} /\ Idle(c)'
             /\ req[c].op \in {"update", "delete"}
             /\ req[c].alone /\ faults' = faults
             /\ status = "held" /\ ~Oversells(txns')
<1>1. ASSUME SoloInv, AloneInv, [Next]_vars
      PROVE  [\A c \in Clients : Compensated(c) => position' = RecomputePosition(txns')]_vars
  <2> SUFFICES ASSUME NEW c \in Clients, Compensated(c)
               PROVE  position' = RecomputePosition(txns')
    OBVIOUS
  <2>1. TypeInv /\ ~Idle(c)
    BY <1>1 DEF SoloInv, Idle
  <2>2. PICK d \in Clients : Start(d) \/ Write(d) \/ Recompute(d) \/ Heal(d) \/ Fail(d)
    BY <1>1, <2>1 DEF Next, vars, Idle
  <2>3. d = c
    BY <1>1, <2>1, <2>2, OnlyItsOwnStepMoves DEF Idle
  <2>4. ~Start(c) /\ ~Write(c) /\ ~Heal(c)
    BY <2>1 DEF Start, CreateStart, UpdateStart, DeleteStart, NewHoldingStart,
       NewHoldingBare, RedateStart, DropStart, Begin, Idle, Write, InsertTxn, RewriteTxn,
       RemoveTxn, RedateOpening, WriteMisses, CascadeDelete, Heal, HealRead, HealRow, Doing, At
  <2>5. ~Fail(c)
    BY <2>1 DEF Fail, CallFails, AnswerLost, RollbackFails, Abandon, Fault, TypeInv, TypeOK
  <2>6. Recompute(c)
    BY <2>2, <2>3, <2>4, <2>5
  <2>7. Undecided(c) /\ req[c].op = "update" => txns[req[c].id] # NoEvent
    BY <1>1 DEF AloneInv, Undisturbed
  <2>8. Repersist(c)
    <3>1. ASSUME NEW pc, pc # "idle", Move(c, pc) PROVE ~Idle(c)'
      BY <2>1, <3>1, Moved DEF Idle
    <3>2. ~ListLedger(c)
      BY <2>1 DEF ListLedger, TypeInv, RequestsOK, Request, Idle
    <3>3. QED
      BY <2>6, <2>7, <3>1, <3>2 DEF Recompute, Persist, Refuse, RollbackCreate, Restore,
         Reinsert, Doing, At, Undecided
  <2>9. req[c].list = txns /\ txns' = txns
    BY <1>1, <2>8 DEF SoloInv, Solitude, Repersist, At
  <2>10. QED
    BY <2>8, <2>9 DEF Repersist, Accepts, StorePosition
<1>2. QED
  BY <1>1, SoloInvHolds, AloneInvHolds, PTL DEF Spec, SoloCompensationIsExact

-----------------------------------------------------------------------------
(***************************************************************************)
(* History, with one client.  A line depends on the events in effect on    *)
(* its day, so an edit moves none before the days it touches: what is left *)
(* to heal after a write is what RowsToHeal names.                         *)
(***************************************************************************)
RowsArePast == \A row \in Rows : row < Today

InStep(event) == event = NoEvent \/ ~OutOfStep(event)

\* The rows a request has still to heal.
Pending(c) ==
    CASE At(c, "heal")    -> RowsToHeal(req[c])
      [] At(c, "rewrite") -> req[c].todo
      [] OTHER            -> {}

\* What the days a request touched are read from: the event as it was, and the
\* one submitted, which has the day and the type of that in the ledger.
Traced(c) ==
    LET r == req[c] IN
    ~Idle(c) =>
        /\ r.op # "drop" /\ InStep(r.prev)
        /\ r.op = "newHolding" => r.pc = "write" /\ r.input.openingDate = Undated
        /\ r.op = "redate" => r.pc = "write"
        /\ r.op = "delete" => r.input = NoEvent
        /\ Undecided(c) /\ r.op = "delete" => txns[r.id] = NoEvent
        /\ Undecided(c) /\ r.op \in {"create", "update"} =>
               /\ r.input \in Transaction
               /\ txns[r.id].type = r.input.type /\ txns[r.id].date = r.input.date
        /\ At(c, "rewrite") => r.list = txns

History(c) ==
    /\ \A i \in Ids : InStep(txns[i])
    /\ Traced(c)
    /\ \A row \in Rows \ Pending(c) : lines[row] = LineAsOf(Committed, row)

HistoryInv ==
    status # "deleted" /\ "history" \notin taint => \A c \in Clients : History(c)

\* An event in step that is a dividend, or that is later than a row, does not show in it.
LEMMA LaterEventsDoNotShow ==
  ASSUME NEW ledger \in Ledgers, NEW i \in Ids,
         NEW event \in Transaction \cup {NoEvent}, InStep(event), NEW row \in Rows,
         event # NoEvent /\ event.type # "dividend" => row < DayOf(event.date)
  PROVE  LineAsOf([ledger EXCEPT ![i] = event], row) = LineAsOf([ledger EXCEPT ![i] = NoEvent], row)
<1>1. CASE event = NoEvent
  BY <1>1
<1>2. CASE event # NoEvent /\ event.type = "dividend"
  BY <1>2, DividendsMoveNoLine, Zenon
<1>3. CASE event # NoEvent /\ event.type # "dividend"
  <2>1. ~InEffect(event, row)
    <3>1. event \in Transaction /\ DayOf(event.date) \in Nat /\ row \in Nat
      BY <1>3, DaysAreNaturals, RowsAreDays DEF Transaction
    <3>2. event.type = "opening" => event.openingDate = DayOf(event.date)
      BY <1>3 DEF InStep, OutOfStep, IsOpening
    <3>3. QED
      BY <1>3, <3>1, <3>2 DEF InEffect, Undated
  <2>2. AsOfLedger([ledger EXCEPT ![i] = event], row) = AsOfLedger([ledger EXCEPT ![i] = NoEvent], row)
    BY <2>1 DEF AsOfLedger, Ledgers
  <2>3. QED
    BY <2>2 DEF LineAsOf
<1>4. QED
  BY <1>1, <1>2, <1>3

\* A request that ends, or that has not written, has nothing pending.
LEMMA FinishedHistory ==
  ASSUME SingleClient, TypeInv, TypeInv', NEW c \in Clients, Finish(c),
         \A i \in Ids : InStep(txns'[i]),
         \A row \in Rows : lines'[row] = LineAsOf(txns', row)
  PROVE  History(c)'
<1>1. Idle(c)' /\ Committed' = txns'
  BY Finished, CommittedAtEnds
<1>2. Pending(c)' = {}
  BY <1>1 DEF Pending, At, Idle
<1>3. QED
  BY <1>1, <1>2 DEF History, Traced, InStep, OutOfStep

LEMMA StartHistory ==
  ASSUME SingleClient, TypeInv, TypeInv', LoneInv, NEW c \in Clients, Start(c), History(c),
         status' # "deleted"
  PROVE  History(c)'
<1>0. /\ Idle(c) /\ Committed = txns /\ Pending(c) = {}
      /\ \A row \in Rows : lines[row] = LineAsOf(txns, row)
      /\ \A i \in Ids : InStep(txns[i])
  <2>1. Idle(c)
    BY DEF Start, CreateStart, UpdateStart, DeleteStart, NewHoldingStart,
           NewHoldingBare, RedateStart, DropStart, Begin
  <2>2. Committed = txns /\ Pending(c) = {}
    BY <2>1, CommittedAtEnds DEF Idle, Doing, Undecided, Pending, At
  <2>3. QED
    BY <2>1, <2>2 DEF History
<1>1. UNCHANGED <<txns, lines>>
  BY DEF Start, CreateStart, UpdateStart, DeleteStart, NewHoldingStart,
         NewHoldingBare, InsertHolding, RedateStart, DropStart, stored
<1>2. ASSUME NEW op \in {"create", "update", "delete", "redate", "newHolding"}, NEW id,
             NEW prev, InStep(prev), NEW input, Asked(c, op, id, prev, input),
             op = "delete" => input = NoEvent,
             op = "newHolding" => input.openingDate = Undated
      PROVE  History(c)'
  <2>1. Committed' = txns /\ Pending(c)' = {}
    BY <1>1, <1>2, CommittedAtEnds DEF Asked, Doing, Undecided, Pending, At
  <2>2. Traced(c)'
    BY <1>2 DEF Asked, Traced, Idle, Undecided, At, InStep, OutOfStep
  <2>3. QED
    BY <1>0, <1>1, <2>1, <2>2 DEF History, InStep, OutOfStep
<1>3. InStep(NoEvent) /\ \A id \in Events(txns) : InStep(txns[id])
  BY <1>0 DEF InStep, Events, TypeInv, TypeOK, Ledgers
<1>4. CASE NewHoldingBare(c)
  <2>1. req' = req /\ Idle(c)'
    BY <1>0, <1>4 DEF NewHoldingBare, Idle
  <2>2. Committed' = txns /\ Pending(c)' = {}
    BY <1>1, <2>1, CommittedAtEnds DEF Idle, Doing, Undecided, Pending, At
  <2>3. QED
    BY <1>0, <1>1, <2>1, <2>2 DEF History, Traced, InStep, OutOfStep
<1>5. CASE CreateStart(c)
  <2>1. \E id, input : Asked(c, "create", id, NoEvent, input)
    BY BegunAsks, <1>5, Zenon DEF CreateStart
  <2>2. QED
    BY <1>2, <1>3, <2>1
<1>6. CASE UpdateStart(c)
  <2>1. \E id \in Events(txns) : \E input : Asked(c, "update", id, txns[id], input)
    BY BegunAsks, <1>6, Zenon DEF UpdateStart
  <2>2. QED
    BY <1>2, <1>3, <2>1
<1>7. CASE DeleteStart(c)
  <2>1. \E id \in Events(txns) : Asked(c, "delete", id, txns[id], NoEvent)
    BY BegunAsks, <1>7, Zenon DEF DeleteStart
  <2>2. QED
    BY <1>2, <1>3, <2>1
<1>8. CASE RedateStart(c)
  <2>1. \E id \in Events(txns) : \E input : Asked(c, "redate", id, txns[id], input)
    BY BegunAsks, <1>8, Zenon DEF RedateStart
  <2>2. QED
    BY <1>2, <1>3, <2>1
<1>9. CASE NewHoldingStart(c)
  <2> DEFINE opening(input) == [input EXCEPT !.date = StartOf(Today) + 1,
                                             !.openingDate = Undated]
  <2>1. PICK id \in unused, input \in Inputs : Asked(c, "newHolding", id, NoEvent, opening(input))
    BY BegunAsks, <1>9, Zenon DEF NewHoldingStart
  <2>2. opening(input).openingDate = Undated
    BY <2>1, InputsAreTransactions DEF Transaction
  <2> HIDE DEF opening
  <2>3. QED
    BY <1>2, <1>3, <2>1, <2>2
<1>10. QED
  BY <1>4, <1>5, <1>6, <1>7, <1>8, <1>9 DEF Start, DropStart

\* A write that leaves no taint stores an event in step, of the day and the type
\* that were submitted.
LEMMA StoreHistory ==
  ASSUME SingleClient, TypeInv, TypeInv', LoneInv, NEW c \in Clients, History(c),
         NEW txn, Store(c, txn), At(c, "write"), "history" \notin taint', Committed' = Committed,
         req[c].op \in {"create", "update", "delete", "redate", "newHolding"},
         IF req[c].op = "delete" THEN txn = NoEvent
         ELSE /\ txn \in Transaction /\ req[c].input \in Transaction
              /\ txn.type = req[c].input.type /\ txn.date = req[c].input.date,
         req[c].op = "newHolding" => txn = req[c].input /\ IsOpening(txn)
  PROVE  History(c)'
<1>1. ~Idle(c) /\ req[c].id \in Ids /\ Traced(c) /\ Pending(c) = {}
  BY StartedRequestsNameAnEvent DEF At, Idle, History, Pending
<1>2. InStep(txn) /\ req[c].op # "redate"
  BY TransactionsAreEvents DEF Store, InStep
<1>3. req[c].op # "newHolding"
  <2>1. SUFFICES ASSUME req[c].op = "newHolding" PROVE FALSE
    OBVIOUS
  <2>2. txn \in Transaction /\ IsOpening(txn) /\ txn.openingDate = Undated
    BY <1>1, <2>1 DEF Traced
  <2>3. DayOf(txn.date) # Undated
    BY <2>2, DaysAreNaturals DEF Transaction, Undated
  <2>4. QED
    BY <1>2, <2>2, <2>3, TransactionsAreEvents DEF InStep, OutOfStep
<1>4. /\ req'[c].pc = "list" /\ req'[c].op = req[c].op /\ req'[c].id = req[c].id
      /\ req'[c].prev = req[c].prev /\ req'[c].input = req[c].input
  BY Moved DEF Store
<1>5. /\ txns' = [txns EXCEPT ![req[c].id] = txn] /\ txns'[req[c].id] = txn /\ UNCHANGED lines
  BY <1>1 DEF Store, TypeInv, TypeOK, Ledgers
<1>6. Traced(c)'
  BY <1>1, <1>2, <1>3, <1>4, <1>5 DEF Traced, Undecided, Idle, At, InStep, OutOfStep
<1>7. Pending(c)' = {}
  BY <1>4 DEF Pending, At
<1>8. \A i \in Ids : InStep(txns'[i])
  BY <1>1, <1>2, <1>5 DEF History, TypeInv, TypeOK, Ledgers
<1>9. QED
  BY <1>1, <1>5, <1>6, <1>7, <1>8 DEF History, InStep, OutOfStep

LEMMA WriteHistory ==
  ASSUME SingleClient, TypeInv, TypeInv', LoneInv, NEW c \in Clients, Write(c), History(c),
         "history" \notin taint'
  PROVE  History(c)'
<1>1. /\ WellFormed(req[c]) /\ Known(c) /\ ~Idle(c) /\ Traced(c) /\ At(c, "write")
      /\ req[c].op # "drop"
  <2>1. At(c, "write")
    BY DEF Write, InsertTxn, RewriteTxn, RemoveTxn, RedateOpening, WriteMisses, CascadeDelete,
           Doing, At
  <2>2. QED
    BY <2>1 DEF TypeInv, RequestsOK, LoneInv, History, At, Idle, Traced
<1>2. Committed' = Committed
  BY WriteMaps
<1>3. CASE InsertTxn(c)
  <2>1. req[c].input \in Transaction
    BY <1>1, <1>3 DEF InsertTxn, Doing, WellFormed
  <2>2. req[c].op = "newHolding" => IsOpening(req[c].input)
    BY <1>1 DEF Known
  <2>3. QED
    BY <1>1, <1>2, <1>3, <2>1, <2>2, StoreHistory DEF InsertTxn, Doing
<1>4. CASE RewriteTxn(c)
  <2> DEFINE new == Rewritten(txns[req[c].id], req[c].prev, req[c].input)
  <2>1. txns[req[c].id] \in Transaction /\ req[c].input \in Transaction
    BY <1>1, <1>4, StartedRequestsNameAnEvent DEF RewriteTxn, Doing, WellFormed
  <2>2. new \in Transaction
    BY <2>1, RewrittenIsTransaction
  <2>3. new.type = req[c].input.type /\ new.date = req[c].input.date
    BY <2>1 DEF Rewritten, Transaction
  <2>4. Store(c, new) /\ req[c].op = "update"
    BY <1>4 DEF RewriteTxn, Doing
  <2> HIDE DEF new
  <2>5. QED
    BY <1>1, <1>2, <2>1, <2>2, <2>3, <2>4, StoreHistory
<1>5. CASE RemoveTxn(c)
  BY <1>1, <1>2, <1>5, StoreHistory DEF RemoveTxn, Doing
<1>6. CASE RedateOpening(c)
  <2>1. \E txn : Store(c, txn) /\ txn # NoEvent
    <3>1. txns[req[c].id] \in Transaction /\ req[c].input \in Transaction
      BY <1>1, <1>6, StartedRequestsNameAnEvent DEF RedateOpening, Doing, WellFormed
    <3> DEFINE new == [txns[req[c].id] EXCEPT !.date = req[c].input.date,
                                              !.openingDate = req[c].input.openingDate]
    <3>2. new \in Transaction
      BY <3>1 DEF Transaction
    <3>3. Store(c, new)
      BY <1>6 DEF RedateOpening
    <3> HIDE DEF new
    <3>4. QED
      BY <3>2, <3>3, TransactionsAreEvents
  <2>2. "history" \in taint'
    BY <1>6, <2>1 DEF Store, RedateOpening, Doing
  <2>3. QED
    BY <2>2
<1>7. CASE WriteMisses(c)
  <2>1. Pending(c) = {} /\ Committed = txns
    BY <1>1, CommittedAtEnds DEF Pending, At, Doing, Undecided
  <2>2. Finish(c) /\ UNCHANGED <<txns, lines>>
    BY <1>7 DEF WriteMisses, stored
  <2>3. (\A i \in Ids : InStep(txns'[i])) /\ (\A row \in Rows : lines'[row] = LineAsOf(txns', row))
    BY <2>1, <2>2 DEF History
  <2>4. QED
    BY <2>2, <2>3, FinishedHistory
<1>8. QED
  BY <1>1, <1>3, <1>4, <1>5, <1>6, <1>7 DEF Write, CascadeDelete, Doing

\* The rows an accepted write can have moved are those the heal is going to name.
LEMMA PersistHistory ==
  ASSUME SingleClient, RowsArePast, TypeInv, TypeInv', LoneInv,
         NEW c \in Clients, Persist(c), History(c)
  PROVE  History(c)'
<1> DEFINE r == req[c]
<1>1. /\ r \in Request /\ Known(c) /\ ~Idle(c) /\ Traced(c) /\ Undecided(c) /\ At(c, "persist")
      /\ txns \in Ledgers
  BY DEF TypeInv, TypeOK, RequestsOK, LoneInv, History, Persist, At, Idle, Undecided
<1>2. r.op \in {"create", "update", "delete"}
  BY <1>1 DEF Known, Traced, Request, AllOperations, At
<1>3. r.id \in Ids
  BY <1>1, <1>2, StartedRequestsNameAnEvent
<1>4. /\ req'[c].pc = "heal" /\ req'[c].op = r.op /\ req'[c].id = r.id
      /\ req'[c].prev = r.prev /\ req'[c].input = r.input
      /\ UNCHANGED <<txns, lines>>
  BY <1>2, Moved DEF Persist, Heals
<1>5. Pending(c) = {} /\ Pending(c)' = RowsToHeal(r)
  BY <1>1, <1>4 DEF Pending, At, RowsToHeal, TouchedDays
<1>6. Committed = [txns EXCEPT ![r.id] = r.prev] /\ Committed' = txns
  BY <1>1, <1>4, CommittedAtEnds DEF Undecided, Doing
<1>7. ASSUME NEW row \in Rows \ RowsToHeal(r) PROVE lines[row] = LineAsOf(txns, row)
  <2>1. ASSUME NEW day \in TouchedDays(r), day \in Nat PROVE row < day
    BY <1>7, <2>1, RowsAreDays, TodayIsADay DEF RowsToHeal, RowsArePast
  <2>2. /\ r.prev \in Transaction \cup {NoEvent} /\ InStep(r.prev)
        /\ r.prev # NoEvent /\ r.prev.type # "dividend" => row < DayOf(r.prev.date)
    <3>1. r.prev \in Transaction \cup {NoEvent} /\ InStep(r.prev)
      BY <1>1 DEF Request, Traced
    <3>2. r.prev # NoEvent => DayOf(r.prev.date) \in Nat
      BY <3>1, DaysAreNaturals DEF Transaction
    <3>3. QED
      BY <2>1, <3>1, <3>2 DEF TouchedDays
  <2>3. /\ txns[r.id] \in Transaction \cup {NoEvent} /\ InStep(txns[r.id])
        /\ txns[r.id] # NoEvent /\ txns[r.id].type # "dividend"
             => row < DayOf(txns[r.id].date)
    <3>1. txns[r.id] \in Transaction \cup {NoEvent} /\ InStep(txns[r.id])
      BY <1>1, <1>3 DEF History, Ledgers
    <3>2. txns[r.id] # NoEvent => r.input \in Transaction /\ txns[r.id].type = r.input.type
                                  /\ txns[r.id].date = r.input.date
      BY <1>1, <1>2 DEF Traced
    <3>3. txns[r.id] # NoEvent => r.input # NoEvent /\ DayOf(r.input.date) \in Nat
      BY <3>2, DaysAreNaturals, TransactionsAreEvents DEF Transaction
    <3>4. QED
      BY <2>1, <3>1, <3>2, <3>3 DEF TouchedDays
  <2>4. lines[row] = LineAsOf([txns EXCEPT ![r.id] = r.prev], row)
    BY <1>5, <1>6, <1>7 DEF History
  <2>5. LineAsOf([txns EXCEPT ![r.id] = r.prev], row) = LineAsOf([txns EXCEPT ![r.id] = NoEvent], row)
    BY <1>1, <1>3, <1>7, <2>2, LaterEventsDoNotShow
  <2>6. LineAsOf([txns EXCEPT ![r.id] = txns[r.id]], row) = LineAsOf([txns EXCEPT ![r.id] = NoEvent], row)
    BY <1>1, <1>3, <1>7, <2>3, LaterEventsDoNotShow
  <2>7. [txns EXCEPT ![r.id] = txns[r.id]] = txns
    BY <1>1, <1>3 DEF Ledgers
  <2>8. QED
    BY <2>4, <2>5, <2>6, <2>7
<1>8. Traced(c)'
  BY <1>1, <1>2, <1>4 DEF Traced, Undecided, At, InStep, OutOfStep
<1>9. QED
  BY <1>4, <1>5, <1>6, <1>7, <1>8 DEF History, InStep, OutOfStep

\* The other steps of a recompute leave the committed ledger as it was.
LEMMA RecomputeHistory ==
  ASSUME SingleClient, TypeInv, TypeInv', LoneInv, NEW c \in Clients, Recompute(c), ~Persist(c),
         History(c)
  PROVE  History(c)'
<1> DEFINE r == req[c]
<1>1. /\ r \in Request /\ WellFormed(r) /\ Known(c) /\ ~Idle(c) /\ Traced(c) /\ Pending(c) = {}
      /\ ~Doing(c, "drop", "write") /\ UNCHANGED lines
      /\ txns \in Ledgers /\ r.pc \in {"list", "relist", "persist", "undo", "repersist"}
  BY DEF TypeInv, TypeOK, RequestsOK, LoneInv, History, Recompute, ListLedger, Refuse,
         RollbackCreate, Restore, Reinsert, Repersist, Undo, Doing, At, Idle, Pending, stored
<1>2. r.op \in {"create", "update", "delete"}
  BY <1>1 DEF Known, Traced, Request, AllOperations
<1>3. r.id \in Ids
  BY <1>1, <1>2, StartedRequestsNameAnEvent
<1>4. CASE RollbackCreate(c) \/ Restore(c) \/ Reinsert(c)
  <2>1. /\ r.op = "create" => r.prev = NoEvent
        /\ r.op = "update" => txns[r.id] # NoEvent
        /\ Undecided(c)
    BY <1>1, <1>4 DEF Known, RollbackCreate, Restore, Reinsert, Doing, Undecided
  <2>2. txns' = [txns EXCEPT ![r.id] = r.prev] /\ (Finish(c) \/ Move(c, "relist"))
    BY <1>4, <2>1 DEF RollbackCreate, Restore, Reinsert, Doing, Undo
  <2>3. Committed = txns'
    BY <2>1, <2>2, CommittedAtEnds
  <2>4. \A i \in Ids : InStep(txns'[i])
    BY <1>1, <1>3, <2>2 DEF History, Traced, Ledgers
  <2>5. \A row \in Rows : lines'[row] = LineAsOf(txns', row)
    BY <1>1, <2>3 DEF History
  <2>6. CASE Finish(c)
    BY <2>4, <2>5, <2>6, FinishedHistory
  <2>7. CASE Move(c, "relist")
    <3>1. /\ req'[c].pc = "relist" /\ req'[c].op = r.op /\ req'[c].id = r.id
          /\ req'[c].prev = r.prev /\ req'[c].input = r.input
      BY <2>7, Moved
    <3>2. Committed' = txns' /\ Pending(c)' = {}
      BY <3>1, CommittedAtEnds DEF Undecided, Doing, Pending, At
    <3>3. Traced(c)'
      BY <1>1, <1>2, <3>1 DEF Traced, Undecided, At, InStep, OutOfStep
    <3>4. QED
      BY <2>4, <2>5, <3>2, <3>3 DEF History, InStep, OutOfStep
  <2>8. QED
    BY <2>2, <2>6, <2>7
<1>5. CASE Repersist(c)
  <2>1. Finish(c) /\ UNCHANGED txns /\ Committed = txns
    BY <1>1, <1>5, CommittedAtEnds DEF Repersist, At, Undecided
  <2>2. QED
    BY <1>1, <2>1, FinishedHistory DEF History
<1>6. CASE ListLedger(c) \/ Refuse(c)
  <2>1. /\ req'[c].op = r.op /\ req'[c].id = r.id
        /\ req'[c].prev = r.prev /\ req'[c].input = r.input
        /\ \/ r.pc = "list" /\ req'[c].pc = "persist"
           \/ r.pc = "relist" /\ req'[c].pc = "repersist"
           \/ r.pc = "persist" /\ req'[c].pc = "undo"
        /\ UNCHANGED txns
    BY <1>2, <1>6, Moved
    DEF ListLedger, Refuse, Compensates, At, TypeInv, RequestsOK, Request, stored
  <2>2. Committed' = Committed
    BY <1>1, <2>1, CommittedAtEnds DEF Undecided, Doing
  <2>3. Traced(c)' /\ Pending(c)' = {}
    BY <1>1, <2>1 DEF Traced, Idle, Undecided, Pending, At, InStep, OutOfStep
  <2>4. QED
    BY <1>1, <2>1, <2>2, <2>3 DEF History, InStep, OutOfStep
<1>7. QED
  BY <1>4, <1>5, <1>6 DEF Recompute

LEMMA HealHistory ==
  ASSUME SingleClient, TypeInv, TypeInv', LoneInv, NEW c \in Clients, Heal(c), History(c),
         status = "held"
  PROVE  History(c)'
<1> DEFINE r == req[c]
<1>1. /\ r \in Request /\ ~Idle(c) /\ Traced(c) /\ UNCHANGED txns
      /\ r.pc \in {"heal", "rewrite"} /\ Committed = txns /\ ~Doing(c, "drop", "write")
      /\ \A i \in Ids : InStep(txns[i])
      /\ \A row \in Rows \ Pending(c) : lines[row] = LineAsOf(txns, row)
  <2>1. r.pc \in {"heal", "rewrite"} /\ UNCHANGED txns
    BY DEF Heal, HealRead, HealRow, At, stored
  <2>2. ~Idle(c) /\ Committed = txns /\ ~Doing(c, "drop", "write")
    BY <2>1, CommittedAtEnds DEF Idle, Undecided, Doing
  <2>3. QED
    BY <2>1, <2>2 DEF TypeInv, RequestsOK, History
<1>2. ASSUME Finish(c), \A row \in Rows : lines'[row] = LineAsOf(txns, row) PROVE History(c)'
  BY <1>1, <1>2, FinishedHistory
<1>3. ASSUME NEW todo, NEW list, req' = [req EXCEPT ![c].pc = "rewrite", ![c].todo = todo, ![c].list = list]
      PROVE  /\ req'[c].pc = "rewrite" /\ req'[c].op = r.op /\ req'[c].id = r.id
             /\ req'[c].prev = r.prev /\ req'[c].input = r.input
             /\ req'[c].todo = todo /\ req'[c].list = list
  BY <1>3 DEF TypeInv, RequestsOK, Request
<1>4. ASSUME req'[c].pc = "rewrite", req'[c].op = r.op, req'[c].id = r.id,
             req'[c].prev = r.prev, req'[c].input = r.input, req'[c].list = txns,
             \A row \in Rows \ req'[c].todo : lines'[row] = LineAsOf(txns, row)
      PROVE  History(c)'
  <2>1. Committed' = txns /\ Pending(c)' = req'[c].todo
    <3>1. ~Undecided(c)' /\ ~Doing(c, "drop", "write")'
      BY <1>4 DEF Undecided, Doing
    <3>2. Pending(c)' = req'[c].todo
      BY <1>4 DEF Pending, At
    <3>3. Committed' = txns'
      BY <3>1, CommittedAtEnds
    <3>4. QED
      BY <1>1, <3>2, <3>3
  <2>2. Traced(c)'
    BY <1>1, <1>4 DEF Traced, Idle, Undecided, At, InStep, OutOfStep
  <2>3. QED
    BY <1>1, <1>4, <2>1, <2>2 DEF History, InStep, OutOfStep
<1>5. CASE HealRead(c)
  <2>1. Pending(c) = RowsToHeal(r) /\ UNCHANGED lines
    BY <1>5 DEF HealRead, Pending, At, stored
  <2>2. CASE RowsToHeal(r) = {}
    BY <1>1, <1>2, <1>5, <2>1, <2>2 DEF HealRead
  <2>3. CASE RowsToHeal(r) # {}
    <3> DEFINE todo == RowsToHeal(r)
    <3>1. req' = [req EXCEPT ![c].pc = "rewrite", ![c].todo = todo, ![c].list = txns]
      BY <1>5, <2>3 DEF HealRead
    <3> HIDE DEF todo
    <3>2. req'[c].todo = todo
      BY <1>3, <3>1
    <3>3. QED
      BY <1>1, <1>3, <1>4, <2>1, <3>1, <3>2 DEF todo
  <2>4. QED
    BY <2>2, <2>3
<1>6. CASE HealRow(c)
  <2>1. PICK row \in r.todo :
          /\ lines' = [lines EXCEPT ![row] = LineAsOf(r.list, row)]
          /\ IF r.todo = {row} THEN Finish(c)
             ELSE req' = [req EXCEPT ![c].todo = r.todo \ {row}]
    BY <1>6 DEF HealRow
  <2>2. Pending(c) = r.todo /\ r.list = txns /\ r.pc = "rewrite"
    BY <1>1, <1>6 DEF HealRow, Pending, At, Traced
  <2>3. \A other \in Rows \ (r.todo \ {row}) : lines'[other] = LineAsOf(txns, other)
    BY <1>1, <2>1, <2>2 DEF TypeInv, TypeOK
  <2>4. CASE r.todo = {row}
    BY <1>2, <2>1, <2>3, <2>4
  <2>5. CASE r.todo # {row}
    <3>1. /\ req'[c].pc = "rewrite" /\ req'[c].op = r.op /\ req'[c].id = r.id
          /\ req'[c].prev = r.prev /\ req'[c].input = r.input
          /\ req'[c].todo = r.todo \ {row} /\ req'[c].list = txns
      BY <2>1, <2>2, <2>5 DEF TypeInv, RequestsOK, Request
    <3>2. QED
      BY <1>4, <2>3, <3>1
  <2>6. QED
    BY <2>4, <2>5
<1>7. QED
  BY <1>5, <1>6 DEF Heal

LEMMA FailHistory ==
  ASSUME SingleClient, TypeInv, TypeInv', LoneInv, NEW c \in Clients, Fail(c), History(c),
         "history" \notin taint'
  PROVE  History(c)'
<1> DEFINE r == req[c]
<1>1. /\ r \in Request /\ ~Idle(c) /\ Traced(c) /\ r.op # "drop"
      /\ UNCHANGED <<txns, lines>>
  BY DEF TypeInv, RequestsOK, History, Fail, CallFails, AnswerLost, RollbackFails, Abandon, At, Idle, stored,
         Traced
<1>2. CASE Leave(c)
  <2>1. "history" \notin LeftBy(c) /\ Finish(c)
    BY <1>2 DEF Leave
  <2>2. ~Undecided(c) /\ Pending(c) = {}
    BY <1>1, <2>1 DEF LeftBy, Undecided, Pending, At, Doing
  <2>3. Committed = txns
    BY <1>1, <2>2, CommittedAtEnds DEF Doing
  <2>4. QED
    BY <1>1, <2>1, <2>2, <2>3, FinishedHistory DEF History
<1>3. CASE ~Leave(c)
  <2>1. At(c, "list") \/ At(c, "persist")
    BY <1>3 DEF Fail, CallFails, AnswerLost, RollbackFails, Abandon
  <2>2. Move(c, "undo")
    BY <1>3 DEF Fail, CallFails, AnswerLost, RollbackFails, Abandon
  <2>3. /\ req'[c].pc = "undo" /\ req'[c].op = r.op /\ req'[c].id = r.id
        /\ req'[c].prev = r.prev /\ req'[c].input = r.input
    BY <2>2, Moved
  <2>4. Committed' = Committed /\ Pending(c) = {} /\ Pending(c)' = {}
    BY <1>1, <2>1, <2>3, CommittedAtEnds DEF Undecided, Doing, Pending, At
  <2>5. Compensates(r.op)
    BY <1>3 DEF Fail, CallFails, AnswerLost, RollbackFails, Abandon
  <2>6. Traced(c)'
    BY <1>1, <2>1, <2>3, <2>5 DEF Traced, Idle, Undecided, At, InStep, OutOfStep, Compensates
  <2>7. QED
    BY <1>1, <2>4, <2>6 DEF History, InStep, OutOfStep
<1>4. QED
  BY <1>2, <1>3

\* A holding never comes back, so a history in step now was in step before.
LEMMA HistoryStep ==
  ASSUME SingleClient, RowsArePast, TypeInv, TypeInv', LoneInv, HistoryInv,
         [Next]_vars
  PROVE  HistoryInv'
<1>1. CASE UNCHANGED vars
  BY <1>1, CommittedIsOf
  DEF vars, HistoryInv, History, Traced, Pending, RowsToHeal, TouchedDays, Idle, At, Undecided,
      InStep, OutOfStep
<1>2. ASSUME NEW c \in Clients, Start(c) \/ Write(c) \/ Recompute(c) \/ Heal(c) \/ Fail(c)
      PROVE  HistoryInv'
  <2>1. Clients = {c}
    BY DEF SingleClient
  <2>2. status' # "deleted" => status # "deleted"
    BY <1>2 DEF Start, CreateStart, UpdateStart, DeleteStart, NewHoldingStart, NewHoldingBare,
       InsertHolding, RedateStart, DropStart, Write, InsertTxn, RewriteTxn, RemoveTxn,
       RedateOpening, WriteMisses, CascadeDelete, Store, Recompute, ListLedger, Persist, Refuse,
       RollbackCreate, Restore, Reinsert, Repersist, Undo, Heal, HealRead, HealRow, Fail,
       CallFails, AnswerLost, RollbackFails, Abandon, stored
  <2>3. \/ taint \subseteq taint'
        \/ status = "held" /\ taint' = taint \ {"ledger"}
    BY <1>2 DEF Start, CreateStart, UpdateStart, DeleteStart, NewHoldingStart, NewHoldingBare,
       InsertHolding, RedateStart, DropStart, Write, InsertTxn, RewriteTxn, RemoveTxn,
       RedateOpening, WriteMisses, CascadeDelete, Store, Recompute, ListLedger, Persist, Refuse,
       StorePosition, Accepts, RollbackCreate, Restore, Reinsert, Repersist, Undo, Heal,
       HealRead, HealRow, Fail, CallFails, AnswerLost, RollbackFails, Abandon, Leave, stored
  <2>4. ASSUME status' # "deleted", "history" \notin taint' PROVE History(c)'
    <3>1. status # "deleted" /\ "history" \notin taint
      BY <2>2, <2>3, <2>4
    <3>2. History(c)
      BY <3>1 DEF HistoryInv
    <3>3. Heal(c) => status = "held"
      <4>1. status \in {"absent", "held", "deleted"}
        BY DEF TypeInv, TypeOK
      <4>2. Heal(c) => ~Idle(c)
        BY DEF Heal, HealRead, HealRow, At, Idle
      <4>3. QED
        BY <3>1, <4>1, <4>2, LoneClient
    <3>4. QED
      BY <1>2, <2>4, <3>2, <3>3, StartHistory, WriteHistory, PersistHistory, RecomputeHistory,
         HealHistory, FailHistory
  <2>5. QED
    BY <2>1, <2>4 DEF HistoryInv
<1>3. QED
  BY <1>1, <1>2 DEF Next

\* With one client, no failure and no redate, every stored row shows the holding
\* as its ledger has it on that day, once no request is in flight: healing from
\* the earliest day an edit touched is enough.
THEOREM HistoryMatchesLedgerHolds ==
  ASSUME SingleClient, RowsArePast
  PROVE  Spec => []HistoryMatchesLedger
<1>1. Init => HistoryInv
  <2> SUFFICES ASSUME Init PROVE HistoryInv
    OBVIOUS
  <2>1. \A c \in Clients : Idle(c) /\ ~Undecided(c) /\ ~Doing(c, "drop", "write") /\ Pending(c) = {}
    BY DEF Init, NoRequest, Idle, Undecided, Doing, Pending, At
  <2>2. txns \in Ledgers
    BY InitTypes DEF TypeInv, TypeOK
  <2>3. Committed = txns
    BY <2>1, <2>2 DEF Committed, Ledgers
  <2>4. "history" \notin taint => \A i \in Ids : InStep(txns[i])
    BY <2>2 DEF Init, InStep, Events, Ledgers
  <2>5. QED
    BY <2>1, <2>3, <2>4 DEF Init, HistoryInv, History, Traced
<1>2. SoloInv /\ SoloInv' /\ LoneInv /\ HistoryInv /\ [Next]_vars => HistoryInv'
  BY HistoryStep DEF SoloInv
<1>3. SoloInv /\ HistoryInv => HistoryMatchesLedger
  <2> SUFFICES ASSUME SoloInv, HistoryInv, Quiet, status = "held", "history" \notin taint
               PROVE  \A row \in Rows : lines[row] = LineAsOf(txns, row)
    BY DEF HistoryMatchesLedger
  <2>1. PICK c \in Clients : Clients = {c}
    BY DEF SingleClient
  <2>2. Pending(c) = {} /\ History(c)
    BY DEF Quiet, Idle, Pending, At, HistoryInv
  <2>3. Committed = txns
    <3>1. \A d \in Clients : ~Undecided(d) /\ ~Doing(d, "drop", "write")
      BY DEF Quiet, Idle, Undecided, Doing
    <3>2. QED
      BY <3>1 DEF Committed, SoloInv, TypeInv, TypeOK, Ledgers
  <2>4. QED
    BY <2>2, <2>3 DEF History
<1>4. QED
  BY <1>1, <1>2, <1>3, SoloInvHolds, LoneInvHolds, PTL DEF Spec
==============================================================================
