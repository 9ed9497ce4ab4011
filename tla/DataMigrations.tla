---------------------------- MODULE DataMigrations ----------------------------
(***************************************************************************)
(* The operator's commands over the document database: migrate users,      *)
(* currencies and transactions (cmd/migrate.go) and copy-holdings          *)
(* (cmd/copyholdings.go), one action per call, beside the trades of users. *)
(* The commands may be run again, at once, and stop anywhere.              *)
(*                                                                         *)
(* A legacy holding has a position and no ledger.  An unborn id is one the *)
(* database will mint.                                                     *)
(***************************************************************************)
EXTENDS Ledger, FiniteSets

CONSTANTS
    Ids,            \* holding ids, 1..n, the ones not yet minted included
    Users,          \* the accounts, in the order they are listed
    Admin,          \* the super admin of this database
    Source,         \* the super admin's holdings in the source database
    InitialHeld,    \* the holdings the modelled period starts from
    Runs,           \* commands in flight at once
    Commands,       \* the commands offered
    MaxBegins,      \* commands that may be run
    MaxStops,       \* commands that may stop half way
    MaxTrades       \* trades users may make

VARIABLES
    held,      \* per id its holding, NoHolding before it is minted, Gone after
    events,    \* per id the ledger, in order of creation
    rawEvents, \* ids some of whose events carry a currency as it was typed
    run,       \* the commands in flight
    begins, stops, trades,
    (* bookkeeping *)
    copied,    \* ids whose position a copy has replaced
    crossed,   \* ids seeded although their ledger had changed since the check
    doubled    \* scripts held twice by the hand of an assignment or of copies that overlapped

dataVars == <<held, events, rawEvents, run, begins, stops, trades, copied, crossed, doubled>>

AllCommands == {"users", "currencies", "transactions", "copy", "mirror"}
NoHolding == [owner |-> "none"]
Gone == [owner |-> "gone"]
Unowned == "nobody"

Flat == [stocksOwned |-> Zero, avgCostPrice |-> Zero, realizedPnL |-> Zero, totalDividends |-> Zero]
Idle == [op |-> "none", pc |-> "idle", users |-> <<>>, todo |-> {}, seen |-> <<>>,
         holding |-> 0, found |-> <<>>, left |-> <<>>, alone |-> FALSE]

ASSUME KnownCommands == Commands \subseteq AllCommands

\* Every owner has an account, the super admin included, and the destination of a
\* copy holds each script once: the script is the identity (copyholdings.go:31-33).
ASSUME OwnersHaveAccounts ==
    /\ Users \in Seq(ToSet(Users)) /\ Admin \in ToSet(Users) /\ Unowned \notin ToSet(Users)
    /\ \A h \in DOMAIN InitialHeld : InitialHeld[h].owner \in ToSet(Users) \cup {Unowned}
ASSUME ScriptsAreIdentities ==
    \A g, h \in DOMAIN InitialHeld :
        /\ InitialHeld[g].owner = Admin /\ InitialHeld[h].owner = Admin
        /\ InitialHeld[g].script = InitialHeld[h].script
        => g = h
ASSUME CommandBounds == MaxBegins \in Nat /\ MaxStops \in Nat /\ MaxTrades \in Nat

Present == {h \in Ids : held[h] \notin {NoHolding, Gone}}
ListByUser(user) == {h \in Present : held[h].owner = user}
Unminted == {h \in Ids : held[h] = NoHolding}
Mint == CHOOSE h \in Unminted : \A g \in Unminted : h <= g

DataInit ==
    /\ held = [h \in Ids |-> IF h \in DOMAIN InitialHeld THEN InitialHeld[h] ELSE NoHolding]
    /\ events = [h \in Ids |-> <<>>]
    /\ rawEvents = {}
    /\ run = [r \in Runs |-> Idle]
    /\ begins = 0 /\ stops = 0 /\ trades = 0
    /\ copied = {} /\ crossed = {} /\ doubled = {}

Doing(r, op, pc) == run[r].op \in op /\ run[r].pc = pc
Finish(r) == run' = [run EXCEPT ![r] = Idle]
kept == <<begins, stops, trades>>
marks == <<copied, crossed, doubled>>

\* A copy that needs more ids than are left of the finite Ids is not started.
RoomFor(op) ==
    op \in {"copy", "mirror"} =>
        Cardinality(Unminted) >=
            Len(Source) * (1 + Cardinality({r \in Runs : run[r].op \in {"copy", "mirror"}}))

\* The users are listed and the source is read when a command begins.
Begin(r) ==
    /\ run[r] = Idle
    /\ begins < MaxBegins /\ begins' = begins + 1
    /\ \E op \in Commands :
        /\ RoomFor(op)
        /\ LET others == {o \in Runs \ {r} : run[o] # Idle}
               fresh  == [Idle EXCEPT !.op = op, !.users = Users, !.left = Source,
                                      !.pc = IF op = "mirror" THEN "clear" ELSE "next",
                                      !.alone = others = {}]
           IN  run' = [o \in Runs |-> IF o = r THEN fresh
                                      ELSE IF o \in others THEN [run[o] EXCEPT !.alone = FALSE]
                                      ELSE run[o]]
    /\ UNCHANGED <<held, events, rawEvents, stops, trades, marks>>

------------------------------------------------------------------------------
(***************************************************************************)
(* migrate users; migrate currencies.                                      *)
(***************************************************************************)
\* The legacy holdings go to the owner named on the command line.
AssignUnownedTo(r) ==
    /\ Doing(r, {"users"}, "next")
    /\ \E user \in ToSet(Users) :
        /\ held' = [h \in Ids |-> IF h \in ListByUser(Unowned)
                                  THEN [held[h] EXCEPT !.owner = user] ELSE held[h]]
        /\ doubled' = IF user = Admin
                      THEN doubled \cup {held[h].script : h \in ListByUser(Unowned)} ELSE doubled
    /\ Finish(r)
    /\ UNCHANGED <<events, rawEvents, kept, copied, crossed>>

CanonicalizeHoldings(r) ==
    /\ Doing(r, {"currencies"}, "next")
    /\ held' = [h \in Ids |-> IF h \in Present THEN [held[h] EXCEPT !.raw = FALSE] ELSE held[h]]
    /\ run' = [run EXCEPT ![r].pc = "events"]
    /\ UNCHANGED <<events, rawEvents, kept, marks>>

CanonicalizeEvents(r) ==
    /\ Doing(r, {"currencies"}, "events")
    /\ rawEvents' = {}
    /\ Finish(r)
    /\ UNCHANGED <<held, events, kept, marks>>

------------------------------------------------------------------------------
(***************************************************************************)
(* migrate transactions: for each user, for each holding of theirs, an     *)
(* opening unless the ledger has an event.                                 *)
(***************************************************************************)
ListHoldings(r) ==
    /\ Doing(r, {"transactions"}, "next")
    /\ run[r].todo = {} /\ run[r].users # <<>>
    /\ LET mine == ListByUser(Head(run[r].users))
       IN  run' = [run EXCEPT ![r].users = Tail(@), ![r].todo = mine,
                              ![r].seen = [h \in mine |-> held[h]]]
    /\ UNCHANGED <<held, events, rawEvents, kept, marks>>

\* Faulty variant: a holding without shares has nothing to seed.
Empty_NoShares(position) == position.stocksOwned = Zero

Empty(position) ==
    /\ position.stocksOwned = Zero
    /\ position.avgCostPrice = Zero
    /\ position.realizedPnL = Zero

HasAny(h) == events[h] # <<>>

\* Faulty variant: what was seeded before is seeded again.
CheckLedger_Always(r) ==
    /\ Doing(r, {"transactions"}, "next")
    /\ \E h \in run[r].todo :
        run' = IF Empty(run[r].seen[h].position)
               THEN [run EXCEPT ![r].todo = @ \ {h}]
               ELSE [run EXCEPT ![r].pc = "insert", ![r].holding = h, ![r].found = events[h]]
    /\ UNCHANGED <<held, events, rawEvents, kept, marks>>

CheckLedger(r) ==
    /\ Doing(r, {"transactions"}, "next")
    /\ \E h \in run[r].todo :
        run' = IF Empty(run[r].seen[h].position) \/ HasAny(h)
               THEN [run EXCEPT ![r].todo = @ \ {h}]
               ELSE [run EXCEPT ![r].pc = "insert", ![r].holding = h, ![r].found = events[h]]
    /\ UNCHANGED <<held, events, rawEvents, kept, marks>>

\* The opening of a whole-numbered position, without a declared opening date.
Opening(position) ==
    [type |-> "opening", date |-> 0, quantity |-> position.stocksOwned[1],
     amount |-> Times(position.stocksOwned, position.avgCostPrice)[1],
     ratio |-> Zero, seed |-> position.realizedPnL[1], openingDate |-> Undated]

\* What a ledger says of a position.
Explains(ledger, position) ==
    LET replayed == RecomputePosition(ledger)
    IN  /\ position.stocksOwned = replayed.stocksOwned
        /\ position.realizedPnL = replayed.realizedPnL
        /\ Positive(replayed.stocksOwned) => position.avgCostPrice = replayed.avgCostPrice

\* The holdings the period starts from and those that are copied into it have
\* positions one opening can state: whole shares, none of them sold short.
ASSUME LegacyHoldings ==
    /\ Source \in Seq(ToSet(Source)) /\ DOMAIN InitialHeld \subseteq Ids
    /\ \A h \in DOMAIN InitialHeld : DOMAIN InitialHeld[h] = {"owner", "script", "raw", "position"}
ASSUME OpeningsExplain ==
    \A position \in {InitialHeld[h].position : h \in DOMAIN InitialHeld}
                      \cup {Source[i].position : i \in DOMAIN Source} :
        Explains(<<Opening(position)>>, position)

\* The position and the currency are those of the holding as it was listed.
InsertOpening(r) ==
    LET h == run[r].holding
        listed == run[r].seen[h]
    IN  /\ Doing(r, {"transactions"}, "insert")
        /\ events' = [events EXCEPT ![h] = Append(@, Opening(listed.position))]
        /\ rawEvents' = IF listed.raw THEN rawEvents \cup {h} ELSE rawEvents
        /\ crossed' = IF events[h] # run[r].found THEN crossed \cup {h} ELSE crossed
        /\ run' = [run EXCEPT ![r].pc = "next", ![r].todo = @ \ {h},
                                ![r].holding = 0, ![r].found = <<>>]
        /\ UNCHANGED <<held, kept, copied, doubled>>

TransactionsDone(r) ==
    /\ Doing(r, {"transactions"}, "next")
    /\ run[r].todo = {} /\ run[r].users = <<>>
    /\ Finish(r)
    /\ UNCHANGED <<held, events, rawEvents, kept, marks>>

------------------------------------------------------------------------------
(***************************************************************************)
(* migrate copy-holdings: the destination's holdings are matched by owner  *)
(* and script.  The ledgers are neither copied nor cleared.                *)
(***************************************************************************)
Clear(r) ==
    /\ Doing(r, {"mirror"}, "clear")
    /\ held' = [h \in Ids |-> IF h \in ListByUser(Admin) THEN Gone ELSE held[h]]
    /\ run' = [run EXCEPT ![r].pc = "next"]
    /\ UNCHANGED <<events, rawEvents, kept, marks>>

Matching(script) == {h \in ListByUser(Admin) : held[h].script = script}

Copied(h) == [owner |-> Admin, script |-> h.script, raw |-> h.raw, position |-> h.position]

\* Faulty variant: a copy is always a new holding.
UpsertMatches_Never(r) ==
    /\ Doing(r, {"copy", "mirror"}, "next")
    /\ run[r].left # <<>>
    /\ run' = [run EXCEPT ![r].pc = "insert"]
    /\ UNCHANGED <<held, events, rawEvents, kept, marks>>

\* ReplaceOne replaces one match in place, whichever it finds first, under its
\* own id.
UpsertMatches(r) ==
    /\ Doing(r, {"copy", "mirror"}, "next")
    /\ run[r].left # <<>>
    /\ LET from == Head(run[r].left)
       IN  IF Matching(from.script) = {}
           THEN /\ run' = [run EXCEPT ![r].pc = "insert"]
                /\ UNCHANGED <<held, copied>>
           ELSE /\ \E h \in Matching(from.script) :
                    /\ held' = [held EXCEPT ![h] = Copied(from)]
                    /\ copied' = copied \cup {h}
                /\ run' = [run EXCEPT ![r].left = Tail(@)]
    /\ UNCHANGED <<events, rawEvents, kept, crossed, doubled>>

\* Nothing matched: the upsert inserts, and no index refuses a second one.
UpsertInserts(r) ==
    /\ Doing(r, {"copy", "mirror"}, "insert")
    /\ Mint \in Unminted
    /\ LET from == Head(run[r].left)
       IN  /\ held' = [held EXCEPT ![Mint] = Copied(from)]
           /\ doubled' = IF Matching(from.script) # {} /\ ~run[r].alone
                         THEN doubled \cup {from.script} ELSE doubled
    /\ run' = [run EXCEPT ![r].pc = "next", ![r].left = Tail(@)]
    /\ UNCHANGED <<events, rawEvents, kept, copied, crossed>>

CopyDone(r) ==
    /\ Doing(r, {"copy", "mirror"}, "next")
    /\ run[r].left = <<>>
    /\ Finish(r)
    /\ UNCHANGED <<held, events, rawEvents, kept, marks>>

------------------------------------------------------------------------------
\* A user buys: the event is stored and the position derived from the ledger.
Trade(h) ==
    LET buy == [type |-> "buy", date |-> 0, quantity |-> 1, amount |-> 1,
                ratio |-> Zero, seed |-> 0, openingDate |-> Undated]
    IN  /\ h \in Present /\ held[h].owner # Unowned
        /\ trades < MaxTrades /\ trades' = trades + 1
        /\ events' = [events EXCEPT ![h] = Append(@, buy)]
        /\ held' = [held EXCEPT ![h].position = RecomputePosition(events'[h])]
        /\ UNCHANGED <<rawEvents, run, begins, stops, marks>>

\* A call fails, or the process or its time ends.
Stops(r) ==
    /\ run[r] # Idle
    /\ stops < MaxStops /\ stops' = stops + 1
    /\ Finish(r)
    /\ UNCHANGED <<held, events, rawEvents, begins, trades, marks>>

Command(r) ==
    \/ Begin(r) \/ AssignUnownedTo(r) \/ CanonicalizeHoldings(r) \/ CanonicalizeEvents(r)
    \/ ListHoldings(r) \/ CheckLedger(r) \/ InsertOpening(r) \/ TransactionsDone(r)
    \/ Clear(r) \/ UpsertMatches(r) \/ UpsertInserts(r) \/ CopyDone(r)

DataNext ==
    \/ \E r \in Runs : Command(r) \/ Stops(r)
    \/ \E h \in Ids : Trade(h)

------------------------------------------------------------------------------
\* "The holding's position becomes a projection of the new transactions ledger"
\* (migrate.go:40-43), however often the commands are run, together or half: the
\* position of a holding that has events is the one they replay to, save the
\* average cost of one without shares, unless a copy has replaced the position
\* over the ledger, or the ledger changed between the check and the seeding.
PositionsAreExplained ==
    \A h \in Present \ (copied \cup crossed) : HasAny(h) => Explains(events[h], held[h].position)

Ends(r) == run[r] # Idle /\ run'[r] = Idle /\ stops' = stops

\* What a command promises once it reports success and no other overlapped it,
\* whatever earlier ones left half done: no holding is unowned; no currency is as
\* it was typed; no owned position is without a ledger, one that has been sold out
\* included, but for one that has dividends and nothing else (migrate.go:173); and
\* the super admin holds each script of the source once, unless an assignment or
\* copies that overlapped have doubled it.  After --replace nothing else is held
\* ("an exact mirror", copyholdings.go:52-53), scripts being the identity.
Done(r) ==
    CASE run[r].op = "users" -> ListByUser(Unowned)' = {}
      [] run[r].op = "currencies" -> rawEvents' = {} /\ \A h \in Present : ~held[h].raw
      [] run[r].op = "transactions" ->
            \A h \in Present :
                LET has == held[h].position
                IN  /\ held[h].owner # Unowned
                    /\ <<has.stocksOwned, has.avgCostPrice, has.realizedPnL>> # <<Zero, Zero, Zero>>
                    => HasAny(h)
      [] OTHER ->
            LET scripts == {Source[i].script : i \in DOMAIN Source}
                mine    == {held[h].script : h \in ListByUser(Admin)}
            IN  /\ \A script \in scripts \ doubled : Cardinality(Matching(script)) = 1
                /\ scripts \subseteq mine
                /\ run[r].op = "mirror" => mine = scripts

SuccessfulCommandsAreDone == [][\A r \in Runs : Ends(r) /\ run[r].alone => Done(r)]_dataVars
==============================================================================
