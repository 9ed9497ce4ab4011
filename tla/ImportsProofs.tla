---------------------------- MODULE ImportsProofs ----------------------------
(***************************************************************************)
(* That an import commits the ledger, the positions and the rows of the    *)
(* History page together, for every set of clients, holdings and sheets.   *)
(*                                                                         *)
(* The argument: what a transaction is about to write for a holding is     *)
(* right for the ledger it read, and that ledger is still the current one  *)
(* as long as nobody has written the holding's document, because every     *)
(* request that touches a ledger writes the document too.                  *)
(*                                                                         *)
(* And that each request takes effect in one step, an upload as the merge  *)
(* of every ledger with its part of the sheet (MergedLedger).  The         *)
(* argument: a transaction that may still commit holds such a merge of     *)
(* every ledger it has not missed a write of, and leaves the others as     *)
(* they stand.                                                             *)
(***************************************************************************)
EXTENDS Imports, LedgerProofs

Exact(h) == position[h] = RecomputePosition(ledger[h]) /\ ~Oversells(ledger[h])

\* A plan touches a ledger only together with the holding's position, save
\* for the ledger of a holding that is gone.
Covers(p) ==
    /\ DOMAIN p.events \subseteq DOMAIN p.positions
    /\ \A h \in p.cleared :
           h \in Holdings /\ (h \in DOMAIN p.positions \/ status[h] = "dropped")
    /\ \A h \in DOMAIN p.positions : HoldingDoc(h) \in p.writes

\* What it writes for h is right for the ledger as it stands.
Right(p, h) ==
    /\ p.positions[h] = RecomputePosition(After(p, h, ledger[h]))
    /\ ~Oversells(After(p, h, ledger[h]))

Fits(c) ==
    \A h \in Holdings :
        h \in DOMAIN plan[c].positions /\ status[h] # "dropped"
            /\ HoldingDoc(h) \notin missed[c] => Right(plan[c], h)

Working(c) == pc[c] = "work"

\* The inductive invariant.
IInv ==
    /\ \A h \in Holdings : status[h] # "dropped" => Exact(h)
    /\ pc \in [Clients -> {"idle", "work", "cascade"}]
    /\ DOMAIN plan = Clients
    /\ DOMAIN missed = Clients
    /\ DOMAIN input = Clients
    /\ status \in [Holdings -> {"unborn", "held", "dropped"}]
    /\ DOMAIN ledger = Holdings
    /\ \A c \in Clients : ~Working(c) => plan[c].born = {}
    /\ \A c \in Clients : plan[c].born \subseteq Unborn
    /\ \A c, o \in Clients : c # o => plan[c].born \cap plan[o].born = {}
    /\ \A c \in Clients : Working(c) => Covers(plan[c])
    /\ \A c \in Clients : Working(c) /\ ~plan[c].refused => Fits(c)
    /\ \A c \in Clients : pc[c] = "cascade" =>
           input[c].holding \in Holdings /\ status[input[c].holding] = "dropped"

------------------------------------------------------------------------------
(***************************************************************************)
(* The writes of a callback.                                               *)
(***************************************************************************)
\* The fields of what an import writes.
LEMMA ImportFields ==
    ASSUME NEW in, NEW births, NEW found, NEW p,
           p = ImportWrites(Books, in, births, found)
    PROVE  /\ p.born = Born(births)
           /\ p.cleared = {}
           /\ DOMAIN p.events = {h \in Holdings : found.events[h] # <<>>}
           /\ DOMAIN p.positions = DOMAIN p.events
           /\ \A h \in DOMAIN p.events :
                 /\ p.events[h] = found.events[h]
                 /\ p.positions[h] = RecomputePosition(ledger[h] \o found.events[h])
                 /\ HoldingDoc(h) \in p.writes
                 /\ Oversells(ledger[h] \o found.events[h]) => p.refused
<1> DEFINE affected == {h \in Holdings : found.events[h] # <<>>}
           after == [h \in Holdings |-> ledger[h] \o found.events[h]]
           docs == Docs(Books, in, births, found.names)
           rows == RowsToHeal(in, found.events)
           held == {h \in Holdings : status[h] = "held"} \cup Born(births)
           refused == found.invalid \/ \E h \in affected : Oversells(after[h])
           events == [h \in affected |-> found.events[h]]
           positions == [h \in affected |-> RecomputePosition(after[h])]
           healed == [row \in rows |-> Invested(held, after, row)]
           writes == {HoldingDoc(h) : h \in affected \cup DOMAIN docs}
                        \cup {RowDoc(row) : row \in rows}
<1>1. p = [refused |-> refused, born |-> Born(births), events |-> events,
           cleared |-> {}, docs |-> docs, positions |-> positions,
           lines |-> healed, writes |-> writes]
  BY DEF ImportWrites, Books
<1>2. \A h \in affected : HoldingDoc(h) \in writes
  OBVIOUS
<1>3. \A h \in affected : Oversells(after[h]) => refused
  OBVIOUS
<1>4. refused \in BOOLEAN
  OBVIOUS
<1>5. \A h \in affected : after[h] = ledger[h] \o found.events[h]
  OBVIOUS
<1>6. /\ DOMAIN events = affected
      /\ DOMAIN positions = affected
      /\ \A h \in affected : events[h] = found.events[h] /\ positions[h] = RecomputePosition(after[h])
  OBVIOUS
<1> HIDE DEF refused, events, positions, healed, writes, docs, after, rows, held
<1>7. /\ p.refused = refused /\ p.born = Born(births) /\ p.events = events
      /\ p.cleared = {} /\ p.positions = positions /\ p.writes = writes
  BY <1>1
<1>8. affected = {h \in Holdings : found.events[h] # <<>>}
  OBVIOUS
<1> HIDE DEF affected
<1>9. DOMAIN p.events = affected /\ DOMAIN p.positions = affected
  BY <1>6, <1>7
<1>10. \A h \in affected :
         /\ p.events[h] = found.events[h]
         /\ p.positions[h] = RecomputePosition(ledger[h] \o found.events[h])
         /\ HoldingDoc(h) \in p.writes
         /\ Oversells(ledger[h] \o found.events[h]) => p.refused
  BY <1>2, <1>3, <1>5, <1>6, <1>7
<1> QED BY <1>7, <1>8, <1>9, <1>10

\* The fields of what DeleteAll writes.
LEMMA ClearFields ==
    ASSUME NEW in, NEW p, p = ClearWrites(Books, in)
    PROVE  /\ p.born = {}
           /\ p.events = <<>>
           /\ p.cleared \subseteq {h \in Holdings : status[h] # "unborn"}
           /\ DOMAIN p.positions = {h \in p.cleared : status[h] = "held"}
           /\ \A h \in DOMAIN p.positions :
                 /\ p.positions[h] = RecomputePosition(NotDividends(ledger[h]))
                 /\ HoldingDoc(h) \in p.writes
                 /\ Oversells(NotDividends(ledger[h])) => p.refused
<1> DEFINE cleared == {h \in Holdings : /\ status[h] # "unborn"
                                        /\ doc[h].currency = in.currency
                                        /\ NotDividends(ledger[h]) # ledger[h]}
           held == {h \in cleared : status[h] = "held"}
           refused == \E h \in held : Oversells(NotDividends(ledger[h]))
           positions == [h \in held |-> RecomputePosition(NotDividends(ledger[h]))]
           writes == {HoldingDoc(h) : h \in held} \cup {EventsOf(h) : h \in cleared}
<1>1. p = [refused |-> refused, born |-> {}, events |-> <<>>, cleared |-> cleared,
           docs |-> <<>>, positions |-> positions, lines |-> <<>>, writes |-> writes]
  BY DEF ClearWrites, Books
<1>2. \A h \in held : HoldingDoc(h) \in writes
  OBVIOUS
<1>3. \A h \in held : Oversells(NotDividends(ledger[h])) => refused
  OBVIOUS
<1>4. refused \in BOOLEAN
  OBVIOUS
<1>5. /\ DOMAIN positions = held
      /\ \A h \in held : positions[h] = RecomputePosition(NotDividends(ledger[h]))
  OBVIOUS
<1>6. cleared \subseteq {h \in Holdings : status[h] # "unborn"}
  OBVIOUS
<1> HIDE DEF refused, positions, writes, cleared
<1>7. /\ p.refused = refused /\ p.born = {} /\ p.events = <<>>
      /\ p.cleared = cleared /\ p.positions = positions /\ p.writes = writes
  BY <1>1
<1> QED BY <1>2, <1>3, <1>5, <1>6, <1>7

\* A callback run now would write what is right now.
LEMMA AttemptIsRight ==
    ASSUME IInv, NEW c \in Clients, NEW in, Attempt(c, in)
    PROVE  \E p : /\ plan' = [plan EXCEPT ![c] = p]
                  /\ missed' = [missed EXCEPT ![c] = {}]
                  /\ p.born \subseteq Unborn
                  /\ \A o \in Clients \ {c} : p.born \cap plan[o].born = {}
                  /\ Covers(p)
                  /\ ~p.refused => \A h \in DOMAIN p.positions : Right(p, h)
<1>1. CASE in.kind = "clear" /\ plan' = [plan EXCEPT ![c] = ClearWrites(Books, in)]
  <2> DEFINE p == ClearWrites(Books, in)
  <2>1. /\ p.born = {}
        /\ p.events = <<>>
        /\ p.cleared \subseteq {h \in Holdings : status[h] # "unborn"}
        /\ DOMAIN p.positions = {h \in p.cleared : status[h] = "held"}
        /\ \A h \in DOMAIN p.positions :
              /\ p.positions[h] = RecomputePosition(NotDividends(ledger[h]))
              /\ HoldingDoc(h) \in p.writes
              /\ Oversells(NotDividends(ledger[h])) => p.refused
    BY ClearFields
  <2>2. /\ plan' = [plan EXCEPT ![c] = p]
        /\ missed' = [missed EXCEPT ![c] = {}]
    BY <1>1 DEF Attempt
  <2> HIDE DEF p
  <2>3. DOMAIN p.events = {}
    BY <2>1
  <2>4. \A h \in Holdings : status[h] # "unborn" => status[h] = "held" \/ status[h] = "dropped"
    BY DEF IInv
  <2>5. Covers(p)
    BY <2>1, <2>3, <2>4 DEF Covers
  <2>6. ~p.refused => \A h \in DOMAIN p.positions : Right(p, h)
    BY <2>1 DEF Right, After
  <2> QED BY <2>1, <2>2, <2>5, <2>6
<1>2. ASSUME NEW births \in Births(Books, in, FreshIds(c)),
             plan' = [plan EXCEPT ![c] =
                         ImportWrites(Books, in, births, Evaluate(Books, in, Today, births))]
      PROVE  \E p : /\ plan' = [plan EXCEPT ![c] = p]
                    /\ missed' = [missed EXCEPT ![c] = {}]
                    /\ p.born \subseteq Unborn
                    /\ \A o \in Clients \ {c} : p.born \cap plan[o].born = {}
                    /\ Covers(p)
                    /\ ~p.refused => \A h \in DOMAIN p.positions : Right(p, h)
  <2> DEFINE found == Evaluate(Books, in, Today, births)
             p == ImportWrites(Books, in, births, found)
  <2>1. /\ plan' = [plan EXCEPT ![c] = p]
        /\ missed' = [missed EXCEPT ![c] = {}]
    BY <1>2 DEF Attempt
  <2> HIDE DEF found
  <2>2. /\ p.born = Born(births)
        /\ p.cleared = {}
        /\ DOMAIN p.events = {h \in Holdings : found.events[h] # <<>>}
        /\ DOMAIN p.positions = DOMAIN p.events
        /\ \A h \in DOMAIN p.events :
              /\ p.events[h] = found.events[h]
              /\ p.positions[h] = RecomputePosition(ledger[h] \o found.events[h])
              /\ HoldingDoc(h) \in p.writes
              /\ Oversells(ledger[h] \o found.events[h]) => p.refused
    BY ImportFields
  <2> HIDE DEF p
  <2>3. Born(births) \subseteq FreshIds(c)
    BY <1>2 DEF Born, Births
  <2>4. p.born \subseteq Unborn
    BY <2>2, <2>3 DEF FreshIds
  <2>5. \A o \in Clients \ {c} : p.born \cap plan[o].born = {}
    BY <2>2, <2>3 DEF FreshIds
  <2>6. Covers(p)
    BY <2>2 DEF Covers
  <2>7. ~p.refused => \A h \in DOMAIN p.positions : Right(p, h)
    BY <2>2 DEF Right, After
  <2> QED BY <2>1, <2>4, <2>5, <2>6, <2>7
<1> QED BY <1>1, <1>2 DEF Attempt

------------------------------------------------------------------------------
(***************************************************************************)
(* The invariant.                                                          *)
(***************************************************************************)
\* Initially every position is the replay of its ledger and nothing runs.
LEMMA InitIInv == Init => IInv
<1> SUFFICES ASSUME Init PROVE IInv
  OBVIOUS
<1>1. PICK books \in InitialBooks :
         status = books.status /\ doc = books.doc /\ ledger = books.ledger
  BY DEF Init
<1>2. /\ status \in [Holdings -> {"unborn", "held", "dropped"}]
      /\ DOMAIN ledger = Holdings
      /\ \A h \in Holdings : ~Oversells(ledger[h])
  BY <1>1, InitialBooksAreAccepted
<1>3. \A h \in Holdings : Exact(h)
  BY <1>2 DEF Init, Exact
<1>4. \A c \in Clients : pc[c] = "idle" /\ plan[c] = NoPlan
  BY DEF Init
<1>5. NoPlan.born = {}
  BY DEF NoPlan
<1>6. /\ pc \in [Clients -> {"idle", "work", "cascade"}]
      /\ DOMAIN plan = Clients
      /\ DOMAIN missed = Clients
      /\ DOMAIN input = Clients
  BY DEF Init
<1> QED BY <1>2, <1>3, <1>4, <1>5, <1>6 DEF IInv, Working

\* Starting a transaction, or running its callback again.
LEMMA AttemptKeepsIInv ==
    ASSUME IInv, NEW c \in Clients, NEW in, Attempt(c, in), UNCHANGED stored,
           pc' = [pc EXCEPT ![c] = "work"], DOMAIN input' = Clients,
           \A o \in Clients \ {c} : input'[o] = input[o]
    PROVE  IInv'
<1>1. PICK p : /\ plan' = [plan EXCEPT ![c] = p]
               /\ missed' = [missed EXCEPT ![c] = {}]
               /\ p.born \subseteq Unborn
               /\ \A o \in Clients \ {c} : p.born \cap plan[o].born = {}
               /\ Covers(p)
               /\ ~p.refused => \A h \in DOMAIN p.positions : Right(p, h)
  BY AttemptIsRight
<1>2. /\ status' = status /\ ledger' = ledger /\ position' = position
      /\ Unborn' = Unborn
  BY DEF stored, Unborn
<1>3. plan'[c] = p /\ \A o \in Clients \ {c} : plan'[o] = plan[o]
  BY <1>1 DEF IInv
<1>4. missed'[c] = {} /\ \A o \in Clients \ {c} : missed'[o] = missed[o]
  BY <1>1 DEF IInv
<1>5. pc'[c] = "work" /\ \A o \in Clients \ {c} : pc'[o] = pc[o]
  BY DEF IInv
<1>6. /\ pc' \in [Clients -> {"idle", "work", "cascade"}]
      /\ DOMAIN plan' = Clients /\ DOMAIN missed' = Clients
  BY <1>1 DEF IInv
<1>7. (\A h \in Holdings : status[h] # "dropped" => Exact(h))'
  BY <1>2 DEF IInv, Exact
<1>8. \A o \in Clients : ~Working(o)' => (plan[o].born = {})'
  BY <1>3, <1>5 DEF IInv, Working
<1>9. \A o \in Clients : (plan[o].born \subseteq Unborn)'
  BY <1>1, <1>2, <1>3 DEF IInv
<1>10. \A o, q \in Clients : o # q => (plan[o].born \cap plan[q].born = {})'
  BY <1>1, <1>3 DEF IInv
<1>11. \A o \in Clients : Working(o)' => Covers(plan'[o])
  BY <1>1, <1>3, <1>5 DEF IInv, Working
<1>12. \A o \in Clients : Working(o)' => Covers(plan[o])'
  BY <1>2, <1>11 DEF Covers
<1>13. ASSUME NEW o \in Clients, Working(o)', ~(plan[o].refused)'
       PROVE  Fits(o)'
  <2>1. CASE o = c
    BY <2>1, <1>1, <1>2, <1>3, <1>13 DEF Fits, Right, After
  <2>2. CASE o # c
    <3>1. Fits(o)
      BY <2>2, <1>3, <1>5, <1>13 DEF IInv, Working
    <3> QED BY <3>1, <2>2, <1>2, <1>3, <1>4 DEF Fits, Right, After
  <2> QED BY <2>1, <2>2
<1>14. \A o \in Clients : (pc[o] = "cascade" =>
           input[o].holding \in Holdings /\ status[input[o].holding] = "dropped")'
  BY <1>2, <1>5 DEF IInv
<1>15. /\ status' \in [Holdings -> {"unborn", "held", "dropped"}]
       /\ DOMAIN ledger' = Holdings
  BY <1>2 DEF IInv
<1> QED BY <1>6, <1>7, <1>8, <1>9, <1>10, <1>12, <1>13, <1>14, <1>15 DEF IInv

\* Ending a request that wrote nothing.
LEMMA RollBackKeepsIInv ==
    ASSUME IInv, NEW c \in Clients, RollBack(c)
    PROVE  IInv'
<1>1. /\ status' = status /\ ledger' = ledger /\ position' = position
      /\ Unborn' = Unborn
  BY DEF RollBack, stored, Unborn
<1>2. /\ plan'[c] = NoPlan /\ missed'[c] = {} /\ pc'[c] = "idle"
      /\ \A o \in Clients \ {c} :
            plan'[o] = plan[o] /\ missed'[o] = missed[o] /\ pc'[o] = pc[o] /\ input'[o] = input[o]
  BY DEF RollBack, End, IInv
<1>3. NoPlan.born = {}
  BY DEF NoPlan
<1>4. /\ pc' \in [Clients -> {"idle", "work", "cascade"}]
      /\ DOMAIN plan' = Clients /\ DOMAIN missed' = Clients /\ DOMAIN input' = Clients
  BY DEF RollBack, End, IInv
<1>5. (\A h \in Holdings : status[h] # "dropped" => Exact(h))'
  BY <1>1 DEF IInv, Exact
<1>6. \A o \in Clients : ~Working(o)' => (plan[o].born = {})'
  BY <1>2, <1>3 DEF IInv, Working
<1>7. \A o \in Clients : (plan[o].born \subseteq Unborn)'
  BY <1>1, <1>2, <1>3 DEF IInv
<1>8. \A o, q \in Clients : o # q => (plan[o].born \cap plan[q].born = {})'
  BY <1>2, <1>3 DEF IInv
<1>9. \A o \in Clients : Working(o)' => o # c /\ Working(o)
  BY <1>2 DEF Working
<1>10. \A o \in Clients : Working(o)' => Covers(plan[o])'
  BY <1>1, <1>2, <1>9 DEF IInv, Covers
<1>11. ASSUME NEW o \in Clients, Working(o)', ~(plan[o].refused)'
       PROVE  Fits(o)'
  <2>1. o # c /\ Fits(o)
    BY <1>2, <1>9, <1>11 DEF IInv
  <2> QED BY <2>1, <1>1, <1>2 DEF Fits, Right, After
<1>12. \A o \in Clients : (pc[o] = "cascade" =>
           input[o].holding \in Holdings /\ status[input[o].holding] = "dropped")'
  BY <1>1, <1>2 DEF IInv
<1>13. /\ status' \in [Holdings -> {"unborn", "held", "dropped"}]
       /\ DOMAIN ledger' = Holdings
  BY <1>1 DEF IInv
<1> QED BY <1>4, <1>5, <1>6, <1>7, <1>8, <1>10, <1>11, <1>12, <1>13 DEF IInv

\* A commit writes what is right for the ledgers as they stand, and every open
\* transaction that relied on one of them misses its document.
LEMMA CommitKeepsIInv ==
    ASSUME IInv, NEW c \in Clients, Commit(c)
    PROVE  IInv'
<1> DEFINE p == plan[c]
<1>1. Working(c) /\ ~p.refused /\ Apply(p) /\ p.writes \cap missed[c] = {}
  BY DEF Commit, Clean, Working
<1>2. Covers(p) /\ Fits(c) /\ p.born \subseteq Unborn
  BY <1>1 DEF IInv
<1>3. \A h \in Holdings :
         /\ status'[h] = IF h \in p.born THEN "held" ELSE status[h]
         /\ ledger'[h] = After(p, h, ledger[h])
         /\ position'[h] = IF h \in DOMAIN p.positions THEN p.positions[h] ELSE position[h]
  BY <1>1 DEF Apply
<1>4. \A h \in Holdings : status'[h] = "dropped" <=> status[h] = "dropped"
  BY <1>2, <1>3 DEF Unborn
<1>5. Unborn' = Unborn \ p.born
  BY <1>3 DEF Unborn
<1>6. \A h \in Holdings : status[h] # "dropped" /\ h \notin DOMAIN p.positions =>
         ledger'[h] = ledger[h] /\ position'[h] = position[h]
  BY <1>2, <1>3 DEF Covers, After
<1>7. \A h \in DOMAIN p.positions : HoldingDoc(h) \in p.writes /\ HoldingDoc(h) \notin missed[c]
  BY <1>1, <1>2 DEF Covers
<1>8. ASSUME NEW h \in Holdings, status'[h] # "dropped"
      PROVE  Exact(h)'
  <2>1. CASE h \in DOMAIN p.positions
    <3>1. Right(p, h)
      BY <2>1, <1>2, <1>4, <1>7, <1>8 DEF Fits
    <3> QED BY <3>1, <2>1, <1>3 DEF Right, Exact
  <2>2. CASE h \notin DOMAIN p.positions
    BY <2>2, <1>4, <1>6, <1>8 DEF IInv, Exact
  <2> QED BY <2>1, <2>2
<1>9. /\ plan'[c] = NoPlan /\ pc'[c] = "idle"
      /\ \A o \in Clients \ {c} : plan'[o] = plan[o] /\ pc'[o] = pc[o] /\ input'[o] = input[o]
  BY DEF Commit, End, IInv
<1>10. \A o \in Clients \ {c} : Working(o) => missed'[o] = missed[o] \cup p.writes
  BY DEF Commit, Written, Working
<1>11. NoPlan.born = {}
  BY DEF NoPlan
<1>12. /\ pc' \in [Clients -> {"idle", "work", "cascade"}]
       /\ DOMAIN plan' = Clients /\ DOMAIN missed' = Clients /\ DOMAIN input' = Clients
  BY DEF Commit, End, Written, IInv
<1>13. \A o \in Clients : ~Working(o)' => (plan[o].born = {})'
  BY <1>9, <1>11 DEF IInv, Working
<1>14. ASSUME NEW o \in Clients
       PROVE  (plan[o].born \subseteq Unborn)'
  <2>1. CASE o = c
    BY <2>1, <1>9, <1>11
  <2>2. CASE o # c
    <3>1. plan[o].born \subseteq Unborn /\ plan[o].born \cap p.born = {}
      BY <2>2 DEF IInv
    <3> QED BY <3>1, <2>2, <1>5, <1>9
  <2> QED BY <2>1, <2>2
<1>15. \A o, q \in Clients : o # q => (plan[o].born \cap plan[q].born = {})'
  BY <1>9, <1>11 DEF IInv
<1>16. \A o \in Clients : Working(o)' => o # c /\ Working(o)
  BY <1>9 DEF Working
<1>17. ASSUME NEW o \in Clients, Working(o)'
       PROVE  Covers(plan[o])'
  <2>1. Covers(plan[o]) /\ plan'[o] = plan[o]
    BY <1>9, <1>16, <1>17 DEF IInv
  <2>2. \A h \in plan[o].cleared : status[h] = "dropped" => status'[h] = "dropped"
    BY <1>4, <2>1 DEF Covers
  <2> QED BY <2>1, <2>2 DEF Covers
<1>18. ASSUME NEW o \in Clients, Working(o)', ~(plan[o].refused)'
       PROVE  Fits(o)'
  <2>1. o # c /\ Fits(o) /\ plan'[o] = plan[o] /\ missed'[o] = missed[o] \cup p.writes
    BY <1>9, <1>10, <1>16, <1>18 DEF IInv
  <2>2. SUFFICES ASSUME NEW h \in Holdings, h \in DOMAIN plan[o].positions,
                        status'[h] # "dropped", HoldingDoc(h) \notin missed'[o]
                 PROVE  Right(plan[o], h)'
    BY <2>1 DEF Fits
  <2>3. h \notin DOMAIN p.positions /\ HoldingDoc(h) \notin missed[o]
    BY <2>1, <2>2, <1>7
  <2>4. ledger'[h] = ledger[h] /\ Right(plan[o], h)
    BY <2>1, <2>2, <2>3, <1>4, <1>6 DEF Fits
  <2> QED BY <2>1, <2>4 DEF Right, After
<1>19. \A o \in Clients : pc'[o] = "cascade" =>
          o # c /\ input[o].holding \in Holdings /\ status[input[o].holding] = "dropped"
  BY <1>9 DEF IInv
<1>20. ASSUME NEW o \in Clients, pc'[o] = "cascade"
       PROVE  (input[o].holding \in Holdings /\ status[input[o].holding] = "dropped")'
  BY <1>4, <1>9, <1>19, <1>20 DEF IInv
<1>21. /\ status' \in [Holdings -> {"unborn", "held", "dropped"}]
       /\ DOMAIN ledger' = Holdings
  BY <1>1 DEF Apply, IInv
<1> QED BY <1>8, <1>12, <1>13, <1>14, <1>15, <1>17, <1>18, <1>20, <1>21 DEF IInv

\* Deleting a holding leaves nothing to be exact about.
LEMMA DropKeepsIInv ==
    ASSUME IInv, NEW c \in Clients, DropStart(c)
    PROVE  IInv'
<1>1. PICK in \in Inputs :
         /\ in.kind = "drop" /\ status[in.holding] = "held"
         /\ status' = [status EXCEPT ![in.holding] = "dropped"]
         /\ Written(c, {HoldingDoc(in.holding)})
         /\ input' = [input EXCEPT ![c] = in]
  BY DEF DropStart
<1>2. in.holding \in Holdings
  BY <1>1, KnownRequests
<1>3. /\ ledger' = ledger /\ position' = position /\ plan' = plan
      /\ ~Working(c) /\ pc' = [pc EXCEPT ![c] = "cascade"]
  BY DEF DropStart, Idle, Working
<1>4. /\ status' \in [Holdings -> {"unborn", "held", "dropped"}]
      /\ \A h \in Holdings : status'[h] # "dropped" => status'[h] = status[h]
      /\ \A h \in Holdings : status[h] = "dropped" => status'[h] = "dropped"
      /\ status'[in.holding] = "dropped"
      /\ Unborn' = Unborn
  BY <1>1, <1>2 DEF IInv, Unborn
<1>5. /\ pc'[c] = "cascade" /\ input'[c] = in
      /\ \A o \in Clients \ {c} : pc'[o] = pc[o] /\ input'[o] = input[o]
      /\ pc' \in [Clients -> {"idle", "work", "cascade"}]
      /\ DOMAIN input' = Clients
  BY <1>1, <1>3 DEF IInv
<1>6. /\ DOMAIN missed' = Clients
      /\ \A o \in Clients : o # c /\ Working(o) => missed[o] \subseteq missed'[o]
  BY <1>1 DEF Written, Working
<1>7. \A o \in Clients : Working(o)' => o # c /\ Working(o)
  BY <1>5 DEF Working
<1>8. \A o \in Clients : ~Working(o)' => (plan[o].born = {})'
  BY <1>3, <1>5 DEF IInv, Working
<1>9. (\A h \in Holdings : status[h] # "dropped" => Exact(h))'
  BY <1>3, <1>4 DEF IInv, Exact
<1>10. \A o \in Clients : Working(o)' => Covers(plan[o])'
  BY <1>3, <1>4, <1>7 DEF IInv, Covers
<1>11. ASSUME NEW o \in Clients, Working(o)', ~(plan[o].refused)'
       PROVE  Fits(o)'
  <2>1. o # c /\ Working(o) /\ Fits(o)
    BY <1>3, <1>7, <1>11 DEF IInv
  <2> QED BY <2>1, <1>3, <1>4, <1>6 DEF Fits, Right, After
<1>12. ASSUME NEW o \in Clients, pc'[o] = "cascade"
       PROVE  (input[o].holding \in Holdings /\ status[input[o].holding] = "dropped")'
  BY <1>2, <1>4, <1>5, <1>12 DEF IInv
<1>13. \A o, q \in Clients : o # q => (plan[o].born \cap plan[q].born = {})'
  BY <1>3 DEF IInv
<1>14. \A o \in Clients : (plan[o].born \subseteq Unborn)'
  BY <1>3, <1>4 DEF IInv
<1> QED BY <1>3, <1>4, <1>5, <1>6, <1>8, <1>9, <1>10, <1>11, <1>12, <1>13, <1>14 DEF IInv

\* Its cascade only touches the ledger of a holding that is gone.
LEMMA CascadeKeepsIInv ==
    ASSUME IInv, NEW c \in Clients, Cascade(c)
    PROVE  IInv'
<1> DEFINE gone == input[c].holding
<1>1. pc[c] = "cascade" /\ gone \in Holdings /\ status[gone] = "dropped"
  BY DEF Cascade, IInv
<1>2. /\ status' = status /\ position' = position /\ Unborn' = Unborn
      /\ ledger' = [ledger EXCEPT ![gone] = <<>>]
  BY DEF Cascade, Unborn
<1>3. /\ DOMAIN ledger' = Holdings
      /\ \A h \in Holdings : status[h] # "dropped" => ledger'[h] = ledger[h]
  BY <1>1, <1>2 DEF IInv
<1>4. /\ plan'[c] = NoPlan /\ pc'[c] = "idle"
      /\ \A o \in Clients \ {c} : plan'[o] = plan[o] /\ pc'[o] = pc[o] /\ input'[o] = input[o]
      /\ pc' \in [Clients -> {"idle", "work", "cascade"}]
      /\ DOMAIN plan' = Clients /\ DOMAIN input' = Clients
  BY DEF Cascade, End, IInv
<1>5. /\ DOMAIN missed' = Clients
      /\ \A o \in Clients : o # c /\ Working(o) => missed[o] \subseteq missed'[o]
  BY DEF Cascade, Written, Working
<1>6. NoPlan.born = {}
  BY DEF NoPlan
<1>7. \A o \in Clients : Working(o)' => o # c /\ Working(o)
  BY <1>4 DEF Working
<1>8. \A o \in Clients : ~Working(o)' => (plan[o].born = {})'
  BY <1>4, <1>6 DEF IInv, Working
<1>9. (\A h \in Holdings : status[h] # "dropped" => Exact(h))'
  BY <1>2, <1>3 DEF IInv, Exact
<1>10. \A o \in Clients : Working(o)' => Covers(plan[o])'
  BY <1>2, <1>4, <1>7 DEF IInv, Covers
<1>11. ASSUME NEW o \in Clients, Working(o)', ~(plan[o].refused)'
       PROVE  Fits(o)'
  <2>1. o # c /\ Working(o) /\ Fits(o)
    BY <1>4, <1>7, <1>11 DEF IInv
  <2> QED BY <2>1, <1>2, <1>3, <1>4, <1>5 DEF Fits, Right, After
<1>12. ASSUME NEW o \in Clients, pc'[o] = "cascade"
       PROVE  (input[o].holding \in Holdings /\ status[input[o].holding] = "dropped")'
  BY <1>2, <1>4, <1>12 DEF IInv
<1>13. \A o, q \in Clients : o # q => (plan[o].born \cap plan[q].born = {})'
  BY <1>4, <1>6 DEF IInv
<1>14. \A o \in Clients : (plan[o].born \subseteq Unborn)'
  BY <1>2, <1>4, <1>6 DEF IInv
<1>15. status' \in [Holdings -> {"unborn", "held", "dropped"}]
  BY <1>2 DEF IInv
<1> QED BY <1>3, <1>4, <1>5, <1>8, <1>9, <1>10, <1>11, <1>12, <1>13, <1>14, <1>15 DEF IInv

\* Steps that touch neither the portfolio nor a plan.
LEMMA ClockKeepsIInv ==
    ASSUME IInv, UNCHANGED <<stored, pc, input, plan, missed>>
    PROVE  IInv'
<1>1. /\ status' = status /\ ledger' = ledger /\ position' = position /\ pc' = pc
      /\ input' = input /\ plan' = plan /\ missed' = missed /\ Unborn' = Unborn
  BY DEF stored, Unborn
<1>2. \A h \in Holdings : Exact(h)' = Exact(h)
  BY <1>1 DEF Exact
<1>3. \A c \in Clients :
         /\ Working(c)' = Working(c) /\ Fits(c)' = Fits(c) /\ Covers(plan[c])' = Covers(plan[c])
  BY <1>1 DEF Working, Fits, Covers, Right, After
<1> QED BY <1>1, <1>2, <1>3 DEF IInv

LEMMA StepKeepsIInv ==
    ASSUME IInv, [Next]_vars
    PROVE  IInv'
<1>1. CASE UNCHANGED vars
  BY <1>1, ClockKeepsIInv DEF vars, stored
<1>2. ASSUME NEW c \in Clients, Begin(c)
      PROVE  IInv'
  <2>1. PICK in \in Inputs : Attempt(c, in) /\ input' = [input EXCEPT ![c] = in]
    BY <1>2 DEF Begin
  <2>2. /\ UNCHANGED stored /\ pc' = [pc EXCEPT ![c] = "work"]
        /\ DOMAIN input' = Clients /\ \A o \in Clients \ {c} : input'[o] = input[o]
    BY <1>2, <2>1 DEF Begin, IInv
  <2> QED BY <2>1, <2>2, AttemptKeepsIInv
<1>3. ASSUME NEW c \in Clients, Retry(c)
      PROVE  IInv'
  <2>1. /\ Attempt(c, input[c]) /\ UNCHANGED stored /\ pc' = [pc EXCEPT ![c] = "work"]
        /\ DOMAIN input' = Clients /\ \A o \in Clients \ {c} : input'[o] = input[o]
    BY <1>3 DEF Retry, IInv
  <2> QED BY <2>1, AttemptKeepsIInv
<1>4. ASSUME NEW c \in Clients, Refuse(c) \/ GiveUp(c) \/ Abort(c)
      PROVE  IInv'
  BY <1>4, RollBackKeepsIInv DEF Refuse, GiveUp, Abort, RollBack
<1>5. ASSUME NEW c \in Clients, Expire(c)
      PROVE  IInv'
  BY <1>5, ClockKeepsIInv DEF Expire
<1> QED
  BY <1>1, <1>2, <1>3, <1>4, <1>5, CommitKeepsIInv, DropKeepsIInv, CascadeKeepsIInv
  DEF Next, Answer

------------------------------------------------------------------------------
\* For every set of clients, holdings and sheets: whatever overlaps, retries and
\* aborts, a held holding's position is the replay of its ledger and that ledger
\* does not oversell.
THEOREM ImportsCommitPositions == Spec => []PositionsCommitWithTheLedger
<1>1. Init => IInv
  BY InitIInv
<1>2. IInv /\ [Next]_vars => IInv'
  BY StepKeepsIInv
<1>3. IInv => PositionsCommitWithTheLedger
  BY DEF IInv, PositionsCommitWithTheLedger, Exact, Held
<1> QED BY <1>1, <1>2, <1>3, PTL DEF Spec

------------------------------------------------------------------------------
(***************************************************************************)
(* Twins.  When a callback has run, each new holding's name is either      *)
(* nobody's or two holdings'; whoever changes one of them, or creates one, *)
(* writes its document.                                                    *)
(***************************************************************************)
\* Another holding has the name, or may have had it.
Rivalled(c, h, name, currency) ==
    \/ HoldingDoc(h) \in missed[c]
    \/ \E other \in Holdings \ (Unborn \cup {h}) :
          \/ HoldingDoc(other) \in missed[c]
          \/ other \in Held /\ Means(other, name, currency)

Twinned(c, p) ==
    /\ p.born \subseteq DOMAIN p.docs
    /\ \A h \in DOMAIN p.docs : HoldingDoc(h) \in p.writes
    /\ \A g \in p.born, h \in Held :
          Means(h, p.docs[g].symbol, p.docs[g].currency)
              => Rivalled(c, h, p.docs[g].symbol, p.docs[g].currency)

TwinInv ==
    /\ IInv
    /\ DOMAIN doc = Holdings
    /\ \A c \in Clients : Working(c) => Twinned(c, plan[c])

LEMMA ImportDocs ==
    ASSUME NEW in, NEW births, NEW found, NEW p,
           p = ImportWrites(Books, in, births, found)
    PROVE  /\ p.born = Born(births)
           /\ p.docs = Docs(Books, in, births, found.names)
           /\ \A h \in Holdings : h \in DOMAIN p.docs => HoldingDoc(h) \in p.writes
<1> DEFINE affected == {h \in Holdings : found.events[h] # <<>>}
           after == [h \in Holdings |-> ledger[h] \o found.events[h]]
           docs == Docs(Books, in, births, found.names)
           rows == RowsToHeal(in, found.events)
           held == {h \in Holdings : status[h] = "held"} \cup Born(births)
           refused == found.invalid \/ \E h \in affected : Oversells(after[h])
           events == [h \in affected |-> found.events[h]]
           positions == [h \in affected |-> RecomputePosition(after[h])]
           healed == [row \in rows |-> Invested(held, after, row)]
           writes == {HoldingDoc(h) : h \in affected \cup DOMAIN docs}
                        \cup {RowDoc(row) : row \in rows}
<1>1. p = [refused |-> refused, born |-> Born(births), events |-> events,
           cleared |-> {}, docs |-> docs, positions |-> positions,
           lines |-> healed, writes |-> writes]
  BY DEF ImportWrites, Books
<1>2. \A h \in DOMAIN docs : HoldingDoc(h) \in writes
  OBVIOUS
<1> HIDE DEF refused, events, positions, healed, writes, docs
<1>3. p.born = Born(births) /\ p.docs = docs /\ p.writes = writes
  BY <1>1
<1> QED BY <1>2, <1>3 DEF docs

\* The document of a new holding.
LEMMA NewDocs ==
    ASSUME NEW in, NEW births, NEW names, NEW g \in Born(births),
           Born(births) \subseteq Unborn
    PROVE  /\ Born(births) \subseteq DOMAIN Docs(Books, in, births, names)
           /\ \E name \in DOMAIN births :
                /\ Docs(Books, in, births, names)[g].symbol = name
                /\ Docs(Books, in, births, names)[g].currency = in.currency
<1> DEFINE changed == {h \in Holdings : /\ Books.status[h] = "held"
                                        /\ WithAliases(Books, names, h) # Books.doc[h]}
           docs == Docs(Books, in, births, names)
<1>1. docs = [h \in changed \cup Born(births) |->
                 IF h \in changed THEN WithAliases(Books, names, h)
                 ELSE NewHolding(in, CHOOSE name \in DOMAIN births : births[name] = h)]
  BY DEF Docs
<1>2. changed \cap Born(births) = {}
  BY DEF Unborn, Books
<1> HIDE DEF changed, docs
<1>3. /\ Born(births) \subseteq DOMAIN docs
      /\ docs[g] = NewHolding(in, CHOOSE name \in DOMAIN births : births[name] = g)
  BY <1>1, <1>2
<1>4. PICK name : name = CHOOSE n \in DOMAIN births : births[n] = g
  OBVIOUS
<1>5. name \in DOMAIN births
  BY <1>4 DEF Born
<1>6. docs[g] = NewHolding(in, name)
  BY <1>3, <1>4
<1>7. NewHolding(in, name).symbol = name /\ NewHolding(in, name).currency = in.currency
  BY DEF NewHolding
<1> QED BY <1>3, <1>5, <1>6, <1>7 DEF docs

\* A callback run now creates a holding only for a name nobody has, or two have.
LEMMA AttemptIsTwinned ==
    ASSUME TwinInv, NEW c \in Clients, NEW in, Attempt(c, in), UNCHANGED stored
    PROVE  \E p : plan' = [plan EXCEPT ![c] = p] /\ Twinned(c, p)'
<1>1. CASE in.kind = "clear" /\ plan' = [plan EXCEPT ![c] = ClearWrites(Books, in)]
  <2>1. PICK p : p = ClearWrites(Books, in)
    OBVIOUS
  <2>2. p.born = {} /\ DOMAIN p.docs = {}
    BY <2>1 DEF ClearWrites
  <2> QED BY <1>1, <2>1, <2>2 DEF Twinned
<1>2. ASSUME NEW births \in Births(Books, in, FreshIds(c)),
             plan' = [plan EXCEPT ![c] =
                         ImportWrites(Books, in, births, Evaluate(Books, in, Today, births))]
      PROVE  \E p : plan' = [plan EXCEPT ![c] = p] /\ Twinned(c, p)'
  <2>1. PICK found, p : /\ plan' = [plan EXCEPT ![c] = p]
                        /\ p = ImportWrites(Books, in, births, found)
    BY <1>2
  <2>2. /\ p.born = Born(births)
        /\ p.docs = Docs(Books, in, births, found.names)
        /\ \A h \in Holdings : h \in DOMAIN p.docs => HoldingDoc(h) \in p.writes
    BY <2>1, ImportDocs
  <2>3. /\ DOMAIN births = Newcomers(Books, in)
        /\ Born(births) \subseteq Unborn /\ Unborn \subseteq Holdings
    BY <1>2 DEF Born, Births, FreshIds, Unborn
  <2>4. DOMAIN p.docs \subseteq Holdings
    BY <2>2, <2>3 DEF Docs
  <2>5. ASSUME NEW g \in p.born, NEW h \in Held,
               Means(h, p.docs[g].symbol, p.docs[g].currency)
        PROVE  \E other \in Held \cap (Holdings \ (Unborn \cup {h})) :
                  Means(other, p.docs[g].symbol, p.docs[g].currency)
    <3>1. PICK name \in DOMAIN births :
             p.docs[g].symbol = name /\ p.docs[g].currency = in.currency
      BY <2>2, <2>3, <2>5, NewDocs
    <3>2. name \in Newcomers(Books, in) /\ in.kind = "trades"
      BY <2>3 DEF Newcomers
    <3>3. Matches(Books, in, name) = {other \in Held : Means(other, name, in.currency)}
      BY <3>2 DEF Matches, Candidates, OwnName, Means, Held, Books, TwinInv
    <3>4. h \in Matches(Books, in, name)
      BY <2>5, <3>1, <3>3
    <3>5. ~Answered(in, name) /\ Resolved(Books, in, name) = {}
      BY <3>2 DEF Newcomers
    <3>6. Matches(Books, in, name) # {h}
      BY <3>4, <3>5 DEF Resolved
    <3>7. PICK other \in Matches(Books, in, name) : other # h
      BY <3>4, <3>6
    <3>8. other \in Held /\ other \in Holdings \ (Unborn \cup {h}) /\ Means(other, name, in.currency)
      BY <3>3, <3>7 DEF Held, Unborn
    <3> QED BY <3>1, <3>8
  <2>6. p.born \subseteq DOMAIN p.docs
    BY <2>2, <2>3, NewDocs
  <2>7. status' = status /\ doc' = doc
    BY DEF stored
  <2>8. ASSUME NEW g \in p.born, NEW h \in Held',
               Means(h, p.docs[g].symbol, p.docs[g].currency)'
        PROVE  Rivalled(c, h, p.docs[g].symbol, p.docs[g].currency)'
    <3>1. h \in Held /\ Means(h, p.docs[g].symbol, p.docs[g].currency)
      BY <2>7, <2>8 DEF Held, Means
    <3>2. PICK other \in Held \cap (Holdings \ (Unborn \cup {h})) :
                  Means(other, p.docs[g].symbol, p.docs[g].currency)
      BY <2>5, <3>1
    <3> QED BY <2>7, <3>2 DEF Rivalled, Held, Unborn, Means
  <2>9. Twinned(c, p)'
    BY <2>2, <2>4, <2>6, <2>8 DEF Twinned
  <2> QED BY <2>1, <2>9
<1> QED BY <1>1, <1>2 DEF Attempt

\* What others write, an open transaction misses.
LEMMA MissedKeepsTwinned ==
    ASSUME NEW c \in Clients, NEW p, Twinned(c, p), NEW docs,
           missed'[c] = missed[c] \cup docs,
           \A h \in Holdings :
               HoldingDoc(h) \in docs \/ (status'[h] = status[h] /\ doc'[h] = doc[h]),
           \A h \in Holdings : status[h] # "unborn" => status'[h] # "unborn"
    PROVE  Twinned(c, p)'
<1> SUFFICES ASSUME NEW g \in p.born, NEW h \in Held',
                    NEW name, NEW currency,
                    name = p.docs[g].symbol, currency = p.docs[g].currency,
                    Means(h, name, currency)', HoldingDoc(h) \notin missed'[c]
             PROVE  Rivalled(c, h, name, currency)'
  BY DEF Twinned, Rivalled
<1>1. status'[h] = status[h] /\ doc'[h] = doc[h] /\ h \in Held
  BY DEF Held
<1>2. Rivalled(c, h, name, currency) /\ HoldingDoc(h) \notin missed[c]
  BY <1>1 DEF Means, Twinned
<1>3. PICK other \in Holdings \ (Unborn \cup {h}) :
         HoldingDoc(other) \in missed[c] \/ (other \in Held /\ Means(other, name, currency))
  BY <1>2 DEF Rivalled
<1>4. other \in Holdings \ (Unborn' \cup {h})
  BY <1>3 DEF Unborn
<1>5. HoldingDoc(other) \in missed'[c] \/ (other \in Held' /\ Means(other, name, currency)')
  <2>1. CASE HoldingDoc(other) \in missed[c] \cup docs
    BY <2>1
  <2>2. CASE HoldingDoc(other) \notin missed[c] \cup docs
    <3>1. status'[other] = status[other] /\ doc'[other] = doc[other]
      BY <2>2, <1>3
    <3> QED BY <1>3, <2>2, <3>1 DEF Held, Means
  <2> QED BY <2>1, <2>2
<1> QED BY <1>4, <1>5 DEF Rivalled

\* A step of c that writes documents at once, c being at work no more.
LEMMA WritingKeepsTwins ==
    ASSUME TwinInv, IInv', NEW c \in Clients, NEW docs, Written(c, docs),
           pc'[c] # "work",
           \A o \in Clients \ {c} : plan'[o] = plan[o] /\ pc'[o] = pc[o],
           DOMAIN doc' = Holdings,
           \A h \in Holdings :
               HoldingDoc(h) \in docs \/ (status'[h] = status[h] /\ doc'[h] = doc[h]),
           \A h \in Holdings : status[h] # "unborn" => status'[h] # "unborn"
    PROVE  TwinInv'
<1>1. ASSUME NEW o \in Clients, Working(o)'
      PROVE  Twinned(o, plan[o])'
  <2>1. o # c /\ Working(o) /\ plan'[o] = plan[o]
    BY <1>1 DEF Working
  <2>2. missed'[o] = missed[o] \cup docs /\ Twinned(o, plan[o])
    BY <2>1 DEF Written, Working, TwinInv
  <2>3. PICK p : p = plan[o]
    OBVIOUS
  <2>4. Twinned(o, p)'
    BY <2>2, <2>3, MissedKeepsTwinned
  <2> QED BY <2>1, <2>3, <2>4 DEF Twinned
<1> QED BY <1>1 DEF TwinInv

\* A step that leaves the portfolio alone, and of the plans changes at most c's.
LEMMA QuietKeepsTwins ==
    ASSUME TwinInv, IInv', NEW c \in Clients, UNCHANGED stored,
           \A o \in Clients \ {c} : plan'[o] = plan[o] /\ pc'[o] = pc[o] /\ missed'[o] = missed[o],
           pc'[c] = "work" => \E p : plan'[c] = p /\ Twinned(c, p)'
    PROVE  TwinInv'
<1>1. ASSUME NEW o \in Clients \ {c}, Working(o)'
      PROVE  Twinned(o, plan[o])'
  <2>1. Twinned(o, plan[o]) /\ status' = status /\ doc' = doc
    BY <1>1 DEF TwinInv, Working, stored
  <2> QED BY <2>1 DEF Twinned, Rivalled, Means, Held, Unborn
<1>2. Working(c)' => Twinned(c, plan[c])'
  BY DEF Working, Twinned
<1>3. DOMAIN doc' = Holdings
  BY DEF TwinInv, stored
<1> QED BY <1>1, <1>2, <1>3 DEF TwinInv

LEMMA StepKeepsTwins ==
    ASSUME TwinInv, [Next]_vars
    PROVE  TwinInv'
<1>1. IInv'
  BY StepKeepsIInv DEF TwinInv
<1>2. CASE UNCHANGED <<stored, pc, plan, missed>>
  BY <1>1, <1>2 DEF stored, TwinInv, Working, Twinned, Rivalled, Means, Held, Unborn
<1>3. ASSUME NEW c \in Clients, NEW in, Attempt(c, in), UNCHANGED stored,
             \A o \in Clients \ {c} : pc'[o] = pc[o]
      PROVE  TwinInv'
  <2>1. PICK p : plan' = [plan EXCEPT ![c] = p] /\ Twinned(c, p)'
    BY <1>3, AttemptIsTwinned
  <2>2. plan'[c] = p /\ \A o \in Clients \ {c} : plan'[o] = plan[o] /\ missed'[o] = missed[o]
    BY <1>3, <2>1 DEF Attempt, TwinInv, IInv
  <2> QED BY <1>1, <1>3, <2>1, <2>2, QuietKeepsTwins
<1>4. ASSUME NEW c \in Clients, RollBack(c)
      PROVE  TwinInv'
  <2>1. /\ pc'[c] # "work" /\ UNCHANGED stored
        /\ \A o \in Clients \ {c} : plan'[o] = plan[o] /\ pc'[o] = pc[o] /\ missed'[o] = missed[o]
    BY <1>4 DEF RollBack, End, TwinInv, IInv
  <2> QED BY <1>1, <2>1, QuietKeepsTwins
<1>5. ASSUME NEW c \in Clients, Commit(c)
      PROVE  TwinInv'
  <2> DEFINE p == plan[c]
  <2>1. /\ Working(c) /\ Apply(p) /\ Written(c, p.writes) /\ End(c)
        /\ Twinned(c, p) /\ p.born \subseteq Unborn
    BY <1>5 DEF Commit, Working, TwinInv, IInv
  <2>2. /\ pc'[c] # "work"
        /\ \A o \in Clients \ {c} : plan'[o] = plan[o] /\ pc'[o] = pc[o]
    BY <2>1 DEF End, TwinInv, IInv
  <2>3. /\ \A h \in Holdings : status'[h] = IF h \in p.born THEN "held" ELSE status[h]
        /\ \A h \in Holdings : doc'[h] = IF h \in DOMAIN p.docs THEN p.docs[h] ELSE doc[h]
        /\ DOMAIN doc' = Holdings
    BY <2>1 DEF Apply
  <2>4. \A h \in DOMAIN p.docs : HoldingDoc(h) \in p.writes
    BY <2>1 DEF Twinned
  <2>5. p.born \subseteq DOMAIN p.docs
    BY <2>1 DEF Twinned
  <2>6. PICK docs : docs = p.writes
    OBVIOUS
  <2> HIDE DEF p
  <2>7. /\ \A h \in Holdings :
               HoldingDoc(h) \in docs \/ (status'[h] = status[h] /\ doc'[h] = doc[h])
        /\ \A h \in Holdings : status[h] # "unborn" => status'[h] # "unborn"
    BY <2>3, <2>4, <2>5, <2>6
  <2> QED BY <1>1, <2>1, <2>2, <2>3, <2>6, <2>7, WritingKeepsTwins
<1>6. ASSUME NEW c \in Clients, DropStart(c)
      PROVE  TwinInv'
  <2>1. PICK gone : /\ status' = [status EXCEPT ![gone] = "dropped"]
                    /\ Written(c, {HoldingDoc(gone)})
    BY <1>6 DEF DropStart
  <2>2. /\ pc'[c] # "work" /\ doc' = doc
        /\ \A o \in Clients \ {c} : plan'[o] = plan[o] /\ pc'[o] = pc[o]
    BY <1>6 DEF DropStart, TwinInv, IInv
  <2>3. \A h \in Holdings : h = gone \/ status'[h] = status[h]
    BY <2>1 DEF TwinInv, IInv
  <2>4. \A h \in Holdings : status[h] # "unborn" => status'[h] # "unborn"
    BY <2>1 DEF TwinInv, IInv
  <2>5. PICK docs : docs = {HoldingDoc(gone)}
    OBVIOUS
  <2>6. \A h \in Holdings :
            HoldingDoc(h) \in docs \/ (status'[h] = status[h] /\ doc'[h] = doc[h])
    BY <2>2, <2>3, <2>5
  <2> QED BY <1>1, <2>1, <2>2, <2>4, <2>5, <2>6, WritingKeepsTwins DEF TwinInv
<1>7. ASSUME NEW c \in Clients, Cascade(c)
      PROVE  TwinInv'
  <2>1. PICK docs : Written(c, docs)
    BY <1>7 DEF Cascade
  <2>2. /\ pc'[c] # "work" /\ doc' = doc /\ status' = status
        /\ \A o \in Clients \ {c} : plan'[o] = plan[o] /\ pc'[o] = pc[o]
    BY <1>7 DEF Cascade, End, TwinInv, IInv
  <2> QED BY <1>1, <2>1, <2>2, WritingKeepsTwins DEF TwinInv
<1>8. ASSUME NEW c \in Clients, Begin(c) \/ Retry(c)
      PROVE  TwinInv'
  <2>1. UNCHANGED stored /\ \A o \in Clients \ {c} : pc'[o] = pc[o]
    BY <1>8 DEF Begin, Retry, TwinInv, IInv
  <2>2. \E in : Attempt(c, in)
    BY <1>8 DEF Begin, Retry
  <2> QED BY <1>3, <2>1, <2>2
<1>9. ASSUME NEW c \in Clients, Refuse(c) \/ GiveUp(c) \/ Abort(c)
      PROVE  TwinInv'
  BY <1>4, <1>9 DEF Refuse, GiveUp, Abort, RollBack
<1>10. CASE UNCHANGED vars
  BY <1>2, <1>10 DEF vars, stored
<1>11. ASSUME NEW c \in Clients, Expire(c)
       PROVE  TwinInv'
  BY <1>2, <1>11 DEF Expire
<1> QED
  BY <1>5, <1>6, <1>7, <1>8, <1>9, <1>10, <1>11 DEF Next, Answer

\* For every set of clients, holdings and sheets: an import creates a holding for
\* a name that one of its currency has only if that one was written after the
\* import's snapshot, or another had the name as well.
THEOREM TwinsComeFromOverlapHolds == Spec => TwinsComeFromOverlap
<1>1. Init => TwinInv
  <2> SUFFICES ASSUME Init PROVE TwinInv
    OBVIOUS
  <2>1. \A c \in Clients : pc[c] = "idle"
    BY DEF Init
  <2>2. DOMAIN doc = Holdings
    BY InitialBooksAreAccepted DEF Init
  <2> QED BY <2>1, <2>2, InitIInv DEF TwinInv, Working
<1>2. TwinInv /\ [Next]_vars => TwinInv'
  BY StepKeepsTwins
<1>3. TwinInv /\ [Next]_vars =>
        [\A g \in Unborn, h \in Held :
            LET Twin(k) == Means(k, doc'[g].symbol, doc'[g].currency)
            IN  status'[g] = "held" /\ Twin(h) =>
                  \E c \in Clients :
                      /\ g \in plan[c].born
                      /\ \/ HoldingDoc(h) \in missed[c]
                         \/ \E other \in Holdings \ (Unborn \cup {h}) :
                              \/ HoldingDoc(other) \in missed[c]
                              \/ other \in Held /\ Twin(other)]_vars
  <2> SUFFICES ASSUME TwinInv, Next, NEW g \in Unborn, NEW h \in Held, status'[g] = "held",
                      Means(h, doc'[g].symbol, doc'[g].currency)
               PROVE  \E c \in Clients :
                         /\ g \in plan[c].born
                         /\ Rivalled(c, h, doc'[g].symbol, doc'[g].currency)
    BY DEF Rivalled
  <2>1. g \in Holdings /\ status[g] = "unborn"
    BY DEF Unborn
  <2>2. ASSUME NEW c \in Clients, DropStart(c)
        PROVE  FALSE
    BY <2>1, <2>2 DEF DropStart, TwinInv, IInv
  <2>3. PICK c \in Clients : Commit(c)
    BY <2>1, <2>2 DEF Next, Answer, Begin, Retry, Refuse, GiveUp, Abort, Expire, Cascade, RollBack,
                      stored
  <2>4. Working(c) /\ Apply(plan[c]) /\ Twinned(c, plan[c])
    BY <2>3 DEF Commit, Working, TwinInv
  <2>5. g \in plan[c].born
    BY <2>1, <2>4 DEF Apply
  <2>6. doc'[g] = plan[c].docs[g]
    BY <2>1, <2>4, <2>5 DEF Apply, Twinned
  <2> QED BY <2>4, <2>5, <2>6 DEF Twinned
<1> QED BY <1>1, <1>2, <1>3, PTL DEF Spec, TwinsComeFromOverlap

------------------------------------------------------------------------------
(***************************************************************************)
(* The rows of the History page.  A row shows what a ledger had come to by *)
(* the end of its day, so it is out of step only when events of that day   *)
(* or an earlier one are added, which is when an import writes the row.    *)
(***************************************************************************)
LEMMA SequenceIsALedger ==
  ASSUME NEW events \in Seq(Transaction)
  PROVE  IsLedger(events) /\ Events(events) = 1..Len(events) /\ Len(events) \in Nat
<1>1. /\ Len(events) \in Nat /\ DOMAIN events = 1..Len(events)
      /\ \A i \in 1..Len(events) : events[i] \in Transaction
  OBVIOUS
<1>2. \A txn \in Transaction : txn # NoEvent
  <2>1. \A txn \in Transaction : txn.type \in TxnType
    BY DEF Transaction
  <2>2. NoEvent.type = "none" /\ "none" \notin TxnType
    BY DEF NoEvent, TxnType
  <2>3. QED
    BY <2>1, <2>2
<1>3. Events(events) = 1..Len(events)
  BY <1>1, <1>2 DEF Events
<1>4. IsFiniteSet(1..Len(events))
  BY <1>1, FS_Interval
<1>5. QED
  BY <1>1, <1>3, <1>4 DEF IsLedger

\* The line of a day depends on shares and cost alone.
LEMMA AlikeLines ==
  ASSUME NEW one, NEW other, NEW day,
         Alike(Replay(AsOfLedger(one, day)), Replay(AsOfLedger(other, day)))
  PROVE  LineAsOf(one, day) = LineAsOf(other, day)
BY DEF Alike, LineAsOf, RecomputePosition, Derived

LEMMA LineOfNothing ==
  ASSUME NEW day
  PROVE  LineAsOf(<<>>, day) = NoLine
<1>1. <<>> \in Seq(Transaction) /\ Len(<<>>) = 0
  OBVIOUS
<1>2. IsLedger(<<>>) /\ Events(<<>>) = {}
  <2>1. PICK none \in Seq(Transaction) : none = <<>> /\ Len(none) = 0
    BY <1>1
  <2>2. IsLedger(none) /\ Events(none) = 1..Len(none)
    BY SequenceIsALedger
  <2>3. Events(none) = {}
    BY <2>1, <2>2
  <2>4. QED
    BY <2>1, <2>2, <2>3
<1>3. IsLedger(AsOfLedger(<<>>, day)) /\ Events(AsOfLedger(<<>>, day)) = {}
  BY <1>2, AsOfIsALedger
<1>4. Replay(AsOfLedger(<<>>, day)) = EmptyReplay
  BY <1>3, ReplayOfNothing
<1>5. ~Positive(Zero)
  BY DEF Positive, Zero, Whole
<1>6. QED
  BY <1>4, <1>5 DEF LineAsOf, RecomputePosition, Derived, EmptyReplay, NoLine

\* Events that do not show in a row: dividends, and what is after its day.
Unseen(txn, day) ==
    txn.type = "dividend" \/ (txn.type # "opening" /\ DayOf(txn.date) > day)

LEMMA UnseenMoveNoLine ==
  ASSUME NEW events \in Seq(Transaction), NEW more \in Seq(Transaction), NEW day \in Nat,
         \A k \in DOMAIN more : Unseen(more[k], day)
  PROVE  LineAsOf(events \o more, day) = LineAsOf(events, day)
<1> DEFINE all == events \o more
           n == Len(all)
           past == AsOfLedger(all, day)
           less == AsOfLedger(events, day)
<1>1. /\ all \in Seq(Transaction) /\ n = Len(events) + Len(more) /\ n \in Nat /\ Len(events) \in Nat
      /\ \A i \in 1..Len(events) : all[i] = events[i]
      /\ \A i \in 1..n : i \notin 1..Len(events) =>
            i - Len(events) \in DOMAIN more /\ all[i] = more[i - Len(events)]
  OBVIOUS
<1> HIDE DEF all
<1>2. /\ IsLedger(all) /\ Events(all) = 1..n
      /\ IsLedger(events) /\ Events(events) = 1..Len(events)
  BY <1>1, SequenceIsALedger
<1>3. /\ IsLedger(past) /\ Events(past) = {i \in 1..n : InEffect(all[i], day)}
      /\ \A i \in Events(past) : past[i] = all[i]
  BY <1>2, AsOfIsALedger
<1>4. /\ IsLedger(less) /\ Events(less) = {i \in 1..Len(events) : InEffect(events[i], day)}
      /\ \A i \in Events(less) : less[i] = events[i]
  BY <1>2, AsOfIsALedger
<1> HIDE DEF past, less
<1>5. ASSUME NEW i \in Events(past) \ Events(less) PROVE past[i].type = "dividend"
  <2>1. i \in 1..n /\ InEffect(all[i], day) /\ past[i] = all[i]
    BY <1>3
  <2>2. i \notin 1..Len(events)
    BY <1>1, <1>4, <2>1
  <2>3. all[i] \in Transaction /\ Unseen(all[i], day)
    BY <1>1, <2>1, <2>2
  <2>4. DayOf(all[i].date) \in Nat
    BY <2>3, TransactionType
  <2>5. QED
    BY <2>1, <2>3, <2>4 DEF Unseen, InEffect
<1>6. DividendsLess(less, past)
  <2>1. Events(less) \subseteq Events(past)
    BY <1>1, <1>3, <1>4
  <2>2. \A i \in Events(less) : less[i] = past[i]
    BY <1>1, <1>3, <1>4, <2>1
  <2>3. QED
    BY <1>3, <1>4, <1>5, <2>1, <2>2 DEF DividendsLess
<1>7. Events(past) \subseteq 1..n
  BY <1>3
<1>8. Alike(Replay(past), Replay(less))
  BY <1>1, <1>6, <1>7, AllDividendsMoveNothing
<1>9. QED
  BY <1>8, AlikeLines DEF past, less, all

------------------------------------------------------------------------------
\* A run of the fold is the ledger without the dividends of its first events.
LEMMA DividendsAreARun ==
  ASSUME NEW events, DOMAIN events = 1..Len(events), Len(events) \in Nat
  PROVE  NotDividends(events) = Folded("kept", <<>>, events)
<1> DEFINE iter == CHOOSE g : g = [t \in SUBSET DOMAIN events |->
              IF t = {} THEN <<>> ELSE IF events[Max(t)].type = "dividend" THEN g[t \ {Max(t)}]
                                       ELSE Append(g[t \ {Max(t)}], events[Max(t)])]
<1>1. \A kept, txn : Step("kept", kept, txn) =
                        IF txn.type = "dividend" THEN kept ELSE Append(kept, txn)
  BY DEF Step, KeepOne
<1>2. PICK g : Iterates("kept", <<>>, events, Len(events), g)
  BY IterationExists
<1>3. g = [t \in SUBSET DOMAIN events |->
              IF t = {} THEN <<>> ELSE IF events[Max(t)].type = "dividend" THEN g[t \ {Max(t)}]
                                       ELSE Append(g[t \ {Max(t)}], events[Max(t)])]
  BY <1>1, <1>2, Zenon DEF Iterates
<1>4. iter = [t \in SUBSET DOMAIN events |->
              IF t = {} THEN <<>> ELSE IF events[Max(t)].type = "dividend" THEN iter[t \ {Max(t)}]
                                       ELSE Append(iter[t \ {Max(t)}], events[Max(t)])]
  BY <1>3, Zenon
<1>5. iter[DOMAIN events] = Folded("kept", <<>>, events)
  <2> HIDE DEF iter
  <2>1. Iterates("kept", <<>>, events, Len(events), iter)
    BY <1>1, <1>4, Zenon DEF Iterates
  <2>2. QED
    BY <2>1, IterationIsRun, Zenon
<1>6. QED
  BY <1>5, Zenon DEF NotDividends, FoldLeft, MapThenFoldSet

\* rest holds the events of the first k that are no dividends, in their order.
Keeps(m, rest, events, k) ==
    /\ rest \in Seq(Transaction)
    /\ m \in [1..Len(rest) -> {i \in 1..k : events[i].type # "dividend"}]
    /\ \A i \in 1..k : events[i].type # "dividend" => \E a \in 1..Len(rest) : m[a] = i
    /\ \A a, b \in 1..Len(rest) : a < b <=> m[a] < m[b]
    /\ \A a \in 1..Len(rest) : rest[a] = events[m[a]]

LEMMA KeepsOneMore ==
  ASSUME NEW events \in Seq(Transaction), NEW k \in Nat, k + 1 <= Len(events),
         NEW rest, NEW m, Keeps(m, rest, events, k)
  PROVE  \E n : Keeps(n, KeepOne(rest, events[k + 1]), events, k + 1)
<1>1. k + 1 \in 1..Len(events) /\ events[k + 1] \in Transaction
      /\ \A i : i \in 1..(k + 1) <=> i \in 1..k \/ i = k + 1
  OBVIOUS
<1>2. CASE events[k + 1].type = "dividend"
  <2>1. KeepOne(rest, events[k + 1]) = rest
    BY <1>2 DEF KeepOne
  <2>2. {i \in 1..(k + 1) : events[i].type # "dividend"} = {i \in 1..k : events[i].type # "dividend"}
    BY <1>1, <1>2
  <2>3. Keeps(m, rest, events, k + 1)
    BY <1>1, <1>2, <2>2 DEF Keeps
  <2>4. QED
    BY <2>1, <2>3
<1>3. CASE events[k + 1].type # "dividend"
  <2> DEFINE more == Append(rest, events[k + 1])
             len == Len(rest)
             n == [a \in 1..(len + 1) |-> IF a = len + 1 THEN k + 1 ELSE m[a]]
  <2>1. KeepOne(rest, events[k + 1]) = more
    BY <1>3 DEF KeepOne
  <2>2. /\ rest \in Seq(Transaction) /\ len \in Nat
        /\ more \in Seq(Transaction) /\ Len(more) = len + 1
        /\ more[len + 1] = events[k + 1] /\ \A a \in 1..len : more[a] = rest[a]
    BY <1>1 DEF Keeps
  <2>3. \A a \in 1..len : m[a] \in 1..k /\ events[m[a]].type # "dividend"
    BY DEF Keeps
  <2>4. /\ n[len + 1] = k + 1 /\ \A a \in 1..len : n[a] = m[a]
        /\ DOMAIN n = 1..(len + 1)
        /\ n \in [1..(len + 1) -> {i \in 1..(k + 1) : events[i].type # "dividend"}]
    BY <1>1, <1>3, <2>2, <2>3
  <2> HIDE DEF n, more
  <2>5. \A i \in 1..(k + 1) : events[i].type # "dividend" => \E a \in 1..(len + 1) : n[a] = i
    <3>1. ASSUME NEW i \in 1..(k + 1), events[i].type # "dividend"
          PROVE  \E a \in 1..(len + 1) : n[a] = i
      <4>1. CASE i = k + 1
        BY <2>2, <2>4, <4>1
      <4>2. CASE i \in 1..k
        <5>1. PICK a \in 1..len : m[a] = i
          BY <3>1, <4>2 DEF Keeps
        <5>2. a \in 1..(len + 1) /\ n[a] = i
          BY <2>2, <2>4, <5>1
        <5>3. QED
          BY <5>2
      <4>3. QED
        BY <1>1, <4>1, <4>2
    <3>2. QED
      BY <3>1
  <2>6. \A a, b \in 1..(len + 1) : a < b <=> n[a] < n[b]
    <3>1. \A a, b \in 1..len : a < b <=> n[a] < n[b]
      BY <2>4 DEF Keeps
    <3>2. \A a \in 1..len : n[a] \in 1..k
      BY <2>3, <2>4
    <3>3. \A a \in 1..(len + 1) : a \in 1..len \/ a = len + 1
      BY <2>2
    <3> HIDE DEF len
    <3>4. QED
      BY <2>2, <2>4, <3>1, <3>2, <3>3
  <2>7. \A a \in 1..(len + 1) : more[a] = events[n[a]]
    BY <2>2, <2>4 DEF Keeps
  <2>8. Keeps(n, more, events, k + 1)
    BY <2>2, <2>4, <2>5, <2>6, <2>7 DEF Keeps
  <2>9. QED
    BY <2>1, <2>8
<1>4. QED
  BY <1>2, <1>3

LEMMA WithoutDividends ==
  ASSUME NEW events \in Seq(Transaction)
  PROVE  \E m : Keeps(m, NotDividends(events), events, Len(events))
<1>1. Len(events) \in Nat /\ DOMAIN events = 1..Len(events)
  OBVIOUS
<1>2. PICK f : /\ IsRun("kept", <<>>, events, Len(events), f)
               /\ NotDividends(events) = f[Len(events)]
  BY <1>1, DividendsAreARun, FoldedRun
<1> DEFINE S == {k \in Nat : k <= Len(events) => \E m : Keeps(m, f[k], events, k)}
<1>3. 0 \in S
  <2> DEFINE m == [a \in 1..0 |-> a]
  <2>1. f[0] = <<>>
    BY <1>2 DEF IsRun
  <2>2. Keeps(m, <<>>, events, 0)
    BY DEF Keeps
  <2>3. QED
    BY <2>1, <2>2
<1>4. ASSUME NEW k \in Nat, k \in S PROVE k + 1 \in S
  <2>1. SUFFICES ASSUME k + 1 <= Len(events) PROVE \E m : Keeps(m, f[k + 1], events, k + 1)
    OBVIOUS
  <2>2. PICK m : Keeps(m, f[k], events, k)
    BY <1>1, <1>4, <2>1
  <2>3. PICK j \in 1..Len(events) : j = k + 1 /\ j - 1 = k
    BY <1>1, <2>1
  <2>4. f[j] = Step("kept", f[j - 1], events[j])
    BY <1>2, <2>3 DEF IsRun
  <2>5. f[k + 1] = KeepOne(f[k], events[k + 1])
    BY <2>3, <2>4 DEF Step
  <2>6. QED
    BY <2>1, <2>2, <2>5, KeepsOneMore
<1>5. Len(events) \in S
  <2> HIDE DEF S
  <2>1. QED
    BY <1>1, <1>3, <1>4, Induction
<1>6. QED
  BY <1>1, <1>2, <1>5

LEMMA DividendsMoveNoLine ==
  ASSUME NEW events \in Seq(Transaction), NEW day
  PROVE  /\ NotDividends(events) \in Seq(Transaction)
         /\ LineAsOf(NotDividends(events), day) = LineAsOf(events, day)
<1> DEFINE rest == NotDividends(events)
           past == AsOfLedger(events, day)
           short == AsOfLedger(rest, day)
           less == [i \in DOMAIN events |->
                      IF i \in Events(past) /\ events[i].type # "dividend" THEN events[i] ELSE NoEvent]
<1>1. PICK m : Keeps(m, rest, events, Len(events))
  BY WithoutDividends
<1>2. rest \in Seq(Transaction) /\ DOMAIN events = 1..Len(events)
  BY <1>1 DEF Keeps
<1> HIDE DEF rest
<1>3. /\ IsLedger(events) /\ Events(events) = 1..Len(events) /\ Len(events) \in Nat
      /\ IsLedger(rest) /\ Events(rest) = 1..Len(rest) /\ Len(rest) \in Nat
  BY <1>2, SequenceIsALedger
<1>4. /\ IsLedger(past) /\ Events(past) = {i \in 1..Len(events) : InEffect(events[i], day)}
      /\ \A i \in Events(past) : past[i] = events[i]
  BY <1>3, AsOfIsALedger
<1>5. /\ IsLedger(short) /\ Events(short) = {a \in 1..Len(rest) : InEffect(rest[a], day)}
      /\ \A a \in Events(short) : short[a] = rest[a]
  BY <1>3, AsOfIsALedger
<1> HIDE DEF past, short
<1>6. /\ Events(less) = {i \in Events(past) : events[i].type # "dividend"}
      /\ \A i \in Events(less) : less[i] = events[i]
  <2>1. \A i \in Events(past) : i \in DOMAIN events /\ events[i] # NoEvent
    BY <1>2, <1>3, <1>4 DEF Events
  <2>2. /\ DOMAIN less = DOMAIN events
        /\ \A i \in DOMAIN events : less[i] =
              IF i \in Events(past) /\ events[i].type # "dividend" THEN events[i] ELSE NoEvent
    OBVIOUS
  <2> HIDE DEF less
  <2>3. QED
    BY <2>1, <2>2 DEF Events
<1>7. DOMAIN less = DOMAIN events
  OBVIOUS
<1> HIDE DEF less
<1>8. IsLedger(less)
  BY <1>3, <1>4, <1>6, <1>7 DEF IsLedger
<1>9. DividendsLess(less, past)
  BY <1>4, <1>6, <1>8 DEF DividendsLess
<1>10. Alike(Replay(past), Replay(less))
  BY <1>3, <1>4, <1>9, AllDividendsMoveNothing
<1> DEFINE n == [a \in Events(short) |-> m[a]]
<1>11. /\ \A a \in 1..Len(rest) : /\ m[a] \in 1..Len(events) /\ events[m[a]].type # "dividend"
                                  /\ rest[a] = events[m[a]]
       /\ \A a, b \in 1..Len(rest) : a < b <=> m[a] < m[b]
       /\ \A i \in 1..Len(events) : events[i].type # "dividend" => \E a \in 1..Len(rest) : m[a] = i
  BY <1>1 DEF Keeps
<1>12. \A a \in 1..Len(rest) : a \in Events(short) <=> m[a] \in Events(less)
  BY <1>4, <1>5, <1>6, <1>11
<1>13. Events(short) \subseteq 1..Len(rest)
  BY <1>5
<1>14. n \in [Events(short) -> Events(less)]
  BY <1>12, <1>13
<1>15. \A a, b \in Events(short) : a < b <=> n[a] < n[b]
  BY <1>11, <1>13
<1>16. \A a, b \in Events(short) : n[a] = n[b] => a = b
  <2>1. \A a, b \in Events(short) : a \in Int /\ b \in Int /\ n[a] \in Int /\ n[b] \in Int
    BY <1>11, <1>13
  <2> HIDE DEF n
  <2>2. QED
    BY <1>15, <2>1
<1>17. \A i \in Events(less) : \E a \in Events(short) : n[a] = i
  BY <1>4, <1>6, <1>11, <1>12
<1>18. \A a \in Events(short) : less[n[a]] = short[a]
  BY <1>5, <1>6, <1>11, <1>12, <1>13
<1> HIDE DEF n
<1>19. n \in Bijection(Events(short), Events(less))
  BY <1>14, <1>16, <1>17, Zenon DEF Bijection, Injection, IsInjective, Surjection
<1>20. SameOrder(short, less, n)
  BY <1>5, <1>8, <1>15, <1>18, <1>19 DEF SameOrder
<1>21. Replay(less) = Replay(short)
  BY <1>20, SameOrderSameReplay
<1>22. Alike(Replay(short), Replay(past))
  BY <1>10, <1>21 DEF Alike
<1>23. LineAsOf(rest, day) = LineAsOf(events, day)
  BY <1>22, AlikeLines DEF short, past
<1>24. QED
  BY <1>2, <1>23 DEF rest

------------------------------------------------------------------------------
\* order lists the n rows of S once each, every row after those earlier than it.
Places(order, n, in, S) ==
    /\ n \in Nat /\ IsFiniteSet(S)
    /\ order \in [1..n -> S]
    /\ \A k, l \in 1..n : order[k] = order[l] => k = l
    /\ \A i \in S : \E k \in 1..n :
          order[k] = i /\ Cardinality({j \in S : Earlier(in, j, i)}) = k - 1

\* The rows of a sheet that are taken are taken once each, in their order.
LEMMA RowsInOrder ==
  ASSUME NEW in, in.rows \in Seq(ToSet(in.rows)),
         \A row \in ToSet(in.rows) : row.txn \in Transaction,
         NEW S, S \subseteq DOMAIN in.rows
  PROVE  Places(InOrder(in, S), Cardinality(S), in, S)
<1> DEFINE R == {pair \in S \X S : Earlier(in, pair[1], pair[2])}
           rank == Ranks(S, R)
           n == Cardinality(S)
           order == InOrder(in, S)
<1>1. /\ Len(in.rows) \in Nat /\ DOMAIN in.rows = 1..Len(in.rows)
      /\ \A i \in DOMAIN in.rows : in.rows[i] \in ToSet(in.rows) /\ in.rows[i].txn \in Transaction
  <2>1. Len(in.rows) \in Nat /\ DOMAIN in.rows = 1..Len(in.rows)
    OBVIOUS
  <2>2. \A i \in DOMAIN in.rows : in.rows[i] \in ToSet(in.rows)
    BY <2>1
  <2>3. QED
    BY <2>1, <2>2
<1>2. IsFiniteSet(S)
  <2>1. IsFiniteSet(1..Len(in.rows))
    BY <1>1, FS_Interval
  <2>2. S \in SUBSET (1..Len(in.rows))
    BY <1>1
  <2>3. QED
    BY <2>1, <2>2, FS_Subset, Zenon
<1>3. \A i \in S : i \in Nat /\ DayOf(in.rows[i].txn.date) \in Nat
  <2>1. ASSUME NEW i \in S PROVE i \in Nat /\ DayOf(in.rows[i].txn.date) \in Nat
    BY <1>1, TransactionType
  <2>2. QED
    BY <2>1
<1>4. \A i, j \in S : <<i, j>> \in R <=> Earlier(in, i, j)
  OBVIOUS
<1> DEFINE day(i) == IF in.kind = "trades" THEN DayOf(in.rows[i].txn.date) ELSE 0
<1>5. \A i, j \in S : Earlier(in, i, j) <=> day(i) < day(j) \/ (day(i) = day(j) /\ i < j)
  BY DEF Earlier
<1>6. \A i \in S : day(i) \in Nat
  BY <1>3
<1> HIDE DEF R, day
<1>7. /\ \A x \in S : <<x, x>> \notin R
      /\ \A x, y \in S : x # y => <<x, y>> \in R \/ <<y, x>> \in R
      /\ \A x, y, z \in S : <<x, y>> \in R /\ <<y, z>> \in R => <<x, z>> \in R
  <2>1. \A i \in S : i \in Nat
    BY <1>3
  <2>2. \A x, y \in S : x # y => <<x, y>> \in R \/ <<y, x>> \in R
    BY <2>1, <1>4, <1>5, <1>6
  <2>3. \A x, y, z \in S : Earlier(in, x, y) /\ Earlier(in, y, z) => Earlier(in, x, z)
    BY <2>1, <1>5, <1>6
  <2>4. \A x \in S : <<x, x>> \notin R
    BY <2>1, <1>4, <1>5, <1>6
  <2>5. QED
    BY <1>4, <2>2, <2>3, <2>4
<1>8. /\ n \in Nat /\ rank \in Bijection(S, 0..(n - 1))
      /\ \A x, y \in S : <<x, y>> \in R <=> rank[x] < rank[y]
  BY <1>2, <1>7, RanksOfAnOrder
<1>9. ASSUME NEW i \in S
      PROVE  rank[i] = Cardinality({j \in S : Earlier(in, j, i)})
  <2>1. {j \in S : <<j, i>> \in R} = {j \in S : Earlier(in, j, i)}
    BY <1>4
  <2>2. QED
    BY <2>1 DEF Ranks
<1> HIDE DEF rank
<1>10. /\ \A i \in S : rank[i] \in 0..(n - 1)
       /\ \A i, j \in S : rank[i] = rank[j] => i = j
       /\ \A k \in 0..(n - 1) : \E i \in S : rank[i] = k
  BY <1>8, Zenon DEF Bijection, Injection, IsInjective, Surjection
<1> DEFINE pick(k) == CHOOSE i \in S : Cardinality({j \in S : Earlier(in, j, i)}) = k - 1
<1>11. ASSUME NEW k \in 1..n PROVE pick(k) \in S /\ rank[pick(k)] = k - 1
  <2>1. k - 1 \in 0..(n - 1)
    BY <1>8
  <2>2. PICK i \in S : rank[i] = k - 1
    BY <1>10, <2>1
  <2>3. Cardinality({j \in S : Earlier(in, j, i)}) = k - 1
    BY <1>9, <2>2
  <2>4. pick(k) \in S /\ Cardinality({j \in S : Earlier(in, j, pick(k))}) = k - 1
    BY <2>3, Zenon
  <2> HIDE DEF pick
  <2>5. QED
    BY <1>9, <2>4
<1>12. order = [k \in 1..n |-> pick(k)]
  BY Zenon DEF InOrder
<1> HIDE DEF order, pick
<1>13. order \in [1..n -> S] /\ \A k \in 1..n : order[k] = pick(k)
  BY <1>11, <1>12
<1>14. \A k, l \in 1..n : order[k] = order[l] => k = l
  <2>1. \A k \in 1..n : k \in Int /\ rank[order[k]] = k - 1
    BY <1>8, <1>11, <1>13
  <2>2. QED
    BY <2>1
<1>15. ASSUME NEW i \in S
       PROVE  \E k \in 1..n : order[k] = i /\ Cardinality({j \in S : Earlier(in, j, i)}) = k - 1
  <2>1. PICK k \in 1..n : k = rank[i] + 1
    BY <1>8, <1>10
  <2>2. rank[order[k]] = rank[i] /\ order[k] \in S
    BY <1>8, <1>10, <1>11, <1>13, <2>1
  <2>3. order[k] = i
    BY <1>10, <2>2
  <2>4. rank[i] = k - 1
    BY <1>8, <1>10, <2>1
  <2>5. QED
    BY <1>9, <2>3, <2>4
<1>16. QED
  BY <1>2, <1>8, <1>13, <1>14, <1>15 DEF order, Places

\* The events an import finds new are rows of its sheet, for holdings there are.
LEMMA NewEvents ==
  ASSUME NEW in \in Inputs, in.kind \in {"trades", "dividends"}, NEW births,
         DOMAIN ledger = Holdings, NEW h \in Holdings
  PROVE  LET events == Evaluate(Books, in, Today, births).events[h]
         IN  /\ events \in Seq(Transaction)
             /\ \A k \in DOMAIN events :
                   /\ in.kind = "dividends" => events[k].type = "dividend"
                   /\ in.kind = "trades" => events[k].type \in {"buy", "sell"}
             /\ events # <<>> => h \in Held \cup Born(births)
<1> DEFINE targets == Targets(Books, in, births)
           target(i) == targets[in.rows[i].name]
           bad == {i \in DOMAIN in.rows : Invalid(Books, in, in.rows[i], target(i), Today)}
           kept == {i \in DOMAIN in.rows \ bad : Kept(Books, in, in.rows[i], target(i))}
           new == {i \in kept : target(i) = {h} /\ Fresh(Books, in, targets, kept, i)}
           mine == InOrder(in, new)
           n == Cardinality(new)
           events == Evaluate(Books, in, Today, births).events[h]
<1>1. events = [k \in DOMAIN mine |-> in.rows[mine[k]].txn]
  BY DEF Evaluate, Books
<1>2. in.rows \in Seq(ToSet(in.rows)) /\ \A row \in ToSet(in.rows) : row.txn \in Transaction
  BY SheetsAreRows
<1>3. \A i \in DOMAIN in.rows : in.rows[i] \in ToSet(in.rows)
  BY <1>2
<1>4. \A i \in DOMAIN in.rows :
         /\ in.rows[i].txn \in Transaction
         /\ in.kind = "dividends" => in.rows[i].txn.type = "dividend"
  BY <1>3, SheetsAreRows
<1>5. ASSUME NEW i \in new
      PROVE  /\ i \in DOMAIN in.rows /\ target(i) = {h}
             /\ ~Invalid(Books, in, in.rows[i], target(i), Today)
  OBVIOUS
<1>6. \A i \in new : in.kind = "trades" => in.rows[i].txn.type \in {"buy", "sell"}
  <2> HIDE DEF new, target
  <2>1. QED
    BY <1>5 DEF Invalid, ValidRow
<1>7. new \subseteq DOMAIN in.rows
  OBVIOUS
<1> HIDE DEF new
<1>8. n \in Nat /\ mine \in [1..n -> new]
  <2>1. Places(mine, n, in, new)
    BY <1>2, <1>7, RowsInOrder
  <2>2. QED
    BY <2>1 DEF Places
<1> HIDE DEF mine, events, n
<1>9. events \in Seq(Transaction) /\ DOMAIN events = DOMAIN mine
      /\ \A k \in DOMAIN events : mine[k] \in new /\ events[k] = in.rows[mine[k]].txn
  <2>1. DOMAIN mine = 1..n /\ \A k \in 1..n : mine[k] \in new /\ in.rows[mine[k]].txn \in Transaction
    BY <1>4, <1>7, <1>8
  <2>2. events = [k \in 1..n |-> in.rows[mine[k]].txn]
    BY <1>1, <2>1
  <2>3. events \in [1..n -> Transaction]
    BY <2>1, <2>2
  <2>4. QED
    BY <1>8, <2>1, <2>2, <2>3
<1>10. \A k \in DOMAIN events :
          /\ in.kind = "dividends" => events[k].type = "dividend"
          /\ in.kind = "trades" => events[k].type \in {"buy", "sell"}
  BY <1>4, <1>6, <1>7, <1>9
<1>11. ASSUME events # <<>> PROVE h \in Held \cup Born(births)
  <2>1. PICK k \in DOMAIN events : TRUE
    BY <1>9, <1>11
  <2>2. PICK i \in new : target(i) = {h} /\ i \in DOMAIN in.rows
    BY <1>5, <1>9, <2>1
  <2>3. PICK name \in SheetNames(in) : targets[name] = {h}
    BY <2>2 DEF SheetNames
  <2>4. targets[name] = IF name \in DOMAIN births THEN {births[name]} ELSE Resolved(Books, in, name)
    BY DEF Targets
  <2>5. CASE name \in DOMAIN births
    BY <2>3, <2>4, <2>5 DEF Born
  <2>6. CASE name \notin DOMAIN births
    <3>1. h \in Resolved(Books, in, name)
      BY <2>3, <2>4, <2>6
    <3>2. Resolved(Books, in, name) \subseteq Candidates(Books, in.currency)
      BY DEF Resolved, Matches
    <3>3. status[h] = "held"
      BY <3>1, <3>2 DEF Candidates, Books
    <3>4. QED
      BY <3>3 DEF Held
  <2>7. QED
    BY <2>5, <2>6
<1>12. QED
  BY <1>9, <1>10, <1>11 DEF events

\* What a plan does not heal shows none of its events.
Heals(p) ==
    /\ \A h \in DOMAIN p.events :
          /\ p.events[h] \in Seq(Transaction)
          /\ \A row \in Rows \ DOMAIN p.lines :
                \A k \in DOMAIN p.events[h] : Unseen(p.events[h][k], row)
    /\ p.cleared # {} => DOMAIN p.lines = {} /\ DOMAIN p.events = {}
    /\ \A row \in DOMAIN p.lines : RowDoc(row) \in p.writes

\* What it heals is right for the ledger as it stands.
RightLine(p, row, h) == p.lines[row][h] = LineAsOf(After(p, h, ledger[h]), row)

LinesFit(c) ==
    \A row \in Rows, h \in Holdings :
        /\ row \in DOMAIN plan[c].lines /\ RowDoc(row) \notin missed[c]
        /\ status[h] # "dropped"
        /\ h \in DOMAIN plan[c].events => HoldingDoc(h) \notin missed[c]
        => RightLine(plan[c], row, h)

\* It touches ledgers of holdings there are, or that it creates.
Known(p) ==
    \A h \in DOMAIN p.events \cup p.cleared :
        h \in Holdings /\ (h \in p.born \/ status[h] # "unborn")

LinesInv ==
    /\ IInv
    /\ \A h \in Holdings :
          /\ ledger[h] \in Seq(Transaction)
          /\ status[h] = "unborn" => ledger[h] = <<>>
    /\ \A row \in Rows, h \in Holdings :
          status[h] # "dropped" => lines[row][h] = LineAsOf(ledger[h], row)
    /\ \A c \in Clients : Working(c) =>
          /\ input[c] \in Inputs /\ input[c].kind # "drop"
          /\ Heals(plan[c]) /\ Known(plan[c])
    /\ \A c \in Clients : Working(c) /\ ~plan[c].refused => LinesFit(c)

\* The lines of what an import writes.
LEMMA ImportLines ==
    ASSUME NEW in, NEW births, NEW found, NEW p,
           p = ImportWrites(Books, in, births, found), Born(births) \subseteq Unborn
    PROVE  LET rows == RowsToHeal(in, found.events)
           IN  /\ DOMAIN p.lines = rows
               /\ \A row \in rows :
                     /\ RowDoc(row) \in p.writes
                     /\ \A h \in Holdings :
                           p.lines[row][h] = IF h \in Held \cup Born(births)
                                             THEN LineAsOf(ledger[h] \o found.events[h], row)
                                             ELSE NoLine
<1> DEFINE affected == {h \in Holdings : found.events[h] # <<>>}
           after == [h \in Holdings |-> ledger[h] \o found.events[h]]
           docs == Docs(Books, in, births, found.names)
           rows == RowsToHeal(in, found.events)
           held == {h \in Holdings : status[h] = "held"} \cup Born(births)
           refused == found.invalid \/ \E h \in affected : Oversells(after[h])
           events == [h \in affected |-> found.events[h]]
           positions == [h \in affected |-> RecomputePosition(after[h])]
           healed == [row \in rows |-> Invested(held, after, row)]
           writes == {HoldingDoc(h) : h \in affected \cup DOMAIN docs}
                        \cup {RowDoc(row) : row \in rows}
<1>1. p = [refused |-> refused, born |-> Born(births), events |-> events,
           cleared |-> {}, docs |-> docs, positions |-> positions,
           lines |-> healed, writes |-> writes]
  BY DEF ImportWrites, Books
<1>2. \A row \in rows : RowDoc(row) \in writes
  OBVIOUS
<1>3. DOMAIN healed = rows /\ \A row \in rows : healed[row] = Invested(held, after, row)
  OBVIOUS
<1>4. \A h \in Holdings : after[h] = ledger[h] \o found.events[h]
  OBVIOUS
<1>5. held = Held \cup Born(births)
  BY DEF Held
<1> HIDE DEF refused, events, positions, healed, writes, docs, after, rows, held, affected
<1>6. p.lines = healed /\ p.writes = writes
  BY <1>1
<1>7. \A row \in rows, h \in Holdings :
         Invested(held, after, row)[h] = IF h \in held THEN LineAsOf(after[h], row) ELSE NoLine
  BY DEF Invested
<1>8. ASSUME NEW row \in rows
      PROVE  /\ RowDoc(row) \in p.writes
             /\ \A h \in Holdings : p.lines[row][h] = IF h \in Held \cup Born(births)
                                             THEN LineAsOf(ledger[h] \o found.events[h], row)
                                             ELSE NoLine
  <2>1. RowDoc(row) \in p.writes /\ p.lines[row] = Invested(held, after, row)
    BY <1>2, <1>3, <1>6
  <2>2. ASSUME NEW h \in Holdings
        PROVE  p.lines[row][h] = IF h \in Held \cup Born(births)
                                 THEN LineAsOf(ledger[h] \o found.events[h], row)
                                 ELSE NoLine
    BY <1>4, <1>5, <1>7, <2>1
  <2>3. QED
    BY <2>1, <2>2
<1>9. DOMAIN p.lines = rows
  BY <1>3, <1>6
<1> QED BY <1>8, <1>9 DEF rows

\* A callback run now heals the rows that would show what it writes, as they are to be.
LEMMA AttemptHeals ==
    ASSUME LinesInv, NEW c \in Clients, NEW in \in Inputs, in.kind # "drop", Attempt(c, in)
    PROVE  \E p : /\ plan' = [plan EXCEPT ![c] = p]
                  /\ missed' = [missed EXCEPT ![c] = {}]
                  /\ Heals(p) /\ Known(p)
                  /\ \A row \in Rows, h \in Holdings :
                        row \in DOMAIN p.lines /\ status[h] # "dropped" => RightLine(p, row, h)
<1>1. CASE in.kind = "clear" /\ plan' = [plan EXCEPT ![c] = ClearWrites(Books, in)]
  <2> DEFINE p == ClearWrites(Books, in)
  <2>1. DOMAIN p.events = {} /\ DOMAIN p.lines = {}
        /\ \A h \in p.cleared : h \in Holdings /\ status[h] # "unborn"
    BY DEF ClearWrites, Books
  <2>2. /\ plan' = [plan EXCEPT ![c] = p]
        /\ missed' = [missed EXCEPT ![c] = {}]
    BY <1>1 DEF Attempt
  <2> HIDE DEF p
  <2>3. Heals(p) /\ Known(p)
    BY <2>1 DEF Heals, Known
  <2> QED BY <2>1, <2>2, <2>3
<1>2. ASSUME NEW births \in Births(Books, in, FreshIds(c)), in.kind # "clear",
             plan' = [plan EXCEPT ![c] =
                         ImportWrites(Books, in, births, Evaluate(Books, in, Today, births))]
      PROVE  \E p : /\ plan' = [plan EXCEPT ![c] = p]
                    /\ missed' = [missed EXCEPT ![c] = {}]
                    /\ Heals(p) /\ Known(p)
                    /\ \A row \in Rows, h \in Holdings :
                          row \in DOMAIN p.lines /\ status[h] # "dropped" => RightLine(p, row, h)
  <2> DEFINE found == Evaluate(Books, in, Today, births)
             p == ImportWrites(Books, in, births, found)
             rows == RowsToHeal(in, found.events)
  <2>1. /\ plan' = [plan EXCEPT ![c] = p]
        /\ missed' = [missed EXCEPT ![c] = {}]
    BY <1>2 DEF Attempt
  <2>2. Born(births) \subseteq Unborn
    BY <1>2 DEF Born, Births, FreshIds
  <2>3. in.kind \in {"trades", "dividends"}
    BY <1>2, KnownRequests
  <2>4. ASSUME NEW h \in Holdings
        PROVE  /\ found.events[h] \in Seq(Transaction)
               /\ \A k \in DOMAIN found.events[h] :
                     /\ in.kind = "dividends" => found.events[h][k].type = "dividend"
                     /\ in.kind = "trades" => found.events[h][k].type \in {"buy", "sell"}
               /\ found.events[h] # <<>> => h \in Held \cup Born(births)
    <3>1. DOMAIN ledger = Holdings
      BY DEF LinesInv, IInv
    <3> HIDE DEF p, rows
    <3>2. QED
      BY <2>3, <3>1, NewEvents
  <2>5. DOMAIN found.events = Holdings
    BY DEF Evaluate, LinesInv, IInv, Books
  <2> HIDE DEF found
  <2>6. /\ p.cleared = {} /\ p.born = Born(births)
        /\ DOMAIN p.events = {h \in Holdings : found.events[h] # <<>>}
        /\ \A h \in DOMAIN p.events : p.events[h] = found.events[h]
    BY ImportFields
  <2>7. /\ DOMAIN p.lines = rows
        /\ \A row \in rows :
              /\ RowDoc(row) \in p.writes
              /\ \A h \in Holdings :
                    p.lines[row][h] = IF h \in Held \cup Born(births)
                                      THEN LineAsOf(ledger[h] \o found.events[h], row)
                                      ELSE NoLine
    BY <2>2, ImportLines
  <2> HIDE DEF p
  <2>8. ASSUME NEW h \in DOMAIN p.events, NEW row \in Rows \ DOMAIN p.lines,
               NEW k \in DOMAIN p.events[h]
        PROVE  Unseen(p.events[h][k], row)
    <3> DEFINE txn == p.events[h][k]
    <3>1. h \in Holdings /\ p.events[h] = found.events[h] /\ txn \in ToSet(found.events[h])
          /\ txn \in Transaction
      BY <2>4, <2>6 DEF ToSet
    <3>2. CASE in.kind = "dividends"
      BY <2>4, <3>1, <3>2 DEF Unseen
    <3>3. CASE in.kind = "trades"
      <4>1. txn.type # "opening"
        BY <2>4, <3>1, <3>3
      <4>2. row \in Nat /\ row < Today /\ row <= Today /\ Today \in Nat
        BY RowsArePast
      <4>3. DayOf(txn.date) \in Nat
        BY <3>1, TransactionType
      <4>4. row \notin RowsToHeal(in, found.events)
        BY <2>7
      <4> HIDE DEF txn
      <4>5. ~(DayOf(txn.date) < Today /\ DayOf(txn.date) <= row)
        BY <2>5, <3>1, <3>3, <4>2, <4>4 DEF RowsToHeal
      <4>6. DayOf(txn.date) > row
        BY <4>2, <4>3, <4>5
      <4>7. QED
        BY <4>1, <4>6 DEF Unseen, txn
    <3>4. QED
      BY <2>3, <3>2, <3>3
  <2>9. \A h \in DOMAIN p.events : p.events[h] \in Seq(Transaction)
    BY <2>4, <2>6
  <2>10. Heals(p)
    BY <2>6, <2>7, <2>8, <2>9 DEF Heals
  <2>11. ASSUME NEW row \in Rows, NEW h \in Holdings, row \in DOMAIN p.lines, status[h] # "dropped"
         PROVE  RightLine(p, row, h)
    <3>1. ledger[h] \in Seq(Transaction) /\ (status[h] = "unborn" => ledger[h] = <<>>)
      BY DEF LinesInv
    <3>2. h \in Held \/ status[h] = "unborn"
      BY <2>11 DEF LinesInv, IInv, Held
    <3>3. After(p, h, ledger[h]) = ledger[h] \o found.events[h]
      <4>1. CASE found.events[h] = <<>>
        <5>1. ledger[h] \o <<>> = ledger[h]
          BY <3>1
        <5>2. QED
          BY <2>6, <4>1, <5>1 DEF After
      <4>2. CASE found.events[h] # <<>>
        BY <2>6, <4>2 DEF After
      <4>3. QED
        BY <4>1, <4>2
    <3>4. CASE h \in Held \cup Born(births)
      BY <2>7, <2>11, <3>3, <3>4 DEF RightLine
    <3>5. CASE h \notin Held \cup Born(births)
      <4>1. found.events[h] = <<>> /\ ledger[h] = <<>>
        BY <2>4, <3>1, <3>2, <3>5
      <4>2. After(p, h, ledger[h]) = <<>>
        BY <2>6, <4>1 DEF After
      <4>3. QED
        BY <2>7, <2>11, <3>5, <4>2, LineOfNothing DEF RightLine
    <3>6. QED
      BY <3>4, <3>5
  <2>12. Known(p)
    BY <2>4, <2>6 DEF Known, Held
  <2>13. QED
    BY <2>1, <2>10, <2>11, <2>12
<1> QED BY <1>1, <1>2 DEF Attempt

------------------------------------------------------------------------------
(***************************************************************************)
(* The rows and the ledgers, step by step.                                 *)
(***************************************************************************)
LEMMA InitLines == Init => LinesInv
<1> SUFFICES ASSUME Init PROVE LinesInv
  OBVIOUS
<1>1. PICK books \in InitialBooks :
         status = books.status /\ doc = books.doc /\ ledger = books.ledger
  BY DEF Init
<1>2. \A h \in Holdings : /\ ledger[h] \in Seq(Transaction)
                          /\ status[h] = "unborn" => ledger[h] = <<>>
  BY <1>1, InitialBooksAreAccepted
<1>3. status \in [Holdings -> {"unborn", "held", "dropped"}]
  BY <1>1, InitialBooksAreAccepted
<1>4. ASSUME NEW row \in Rows, NEW h \in Holdings, status[h] # "dropped"
      PROVE  lines[row][h] = LineAsOf(ledger[h], row)
  <2>1. lines[row][h] = IF status[h] = "held" THEN LineAsOf(ledger[h], row) ELSE NoLine
    BY DEF Init
  <2>2. CASE status[h] = "held"
    BY <2>1, <2>2
  <2>3. CASE status[h] = "unborn"
    BY <1>2, <2>1, <2>3, LineOfNothing
  <2>4. QED
    BY <1>3, <1>4, <2>2, <2>3
<1>5. \A c \in Clients : ~Working(c)
  BY DEF Init, Working
<1> QED BY <1>2, <1>4, <1>5, InitIInv DEF LinesInv

\* A step that leaves the portfolio alone, and of the plans changes at most c's.
LEMMA QuietKeepsLines ==
    ASSUME LinesInv, IInv', NEW c \in Clients, UNCHANGED stored,
           \A o \in Clients \ {c} : /\ plan'[o] = plan[o] /\ pc'[o] = pc[o]
                                    /\ missed'[o] = missed[o] /\ input'[o] = input[o],
           pc'[c] = "work" => \E p : /\ plan'[c] = p /\ Heals(p) /\ Known(p)
                                     /\ ~p.refused => LinesFit(c)'
                                     /\ input'[c] \in Inputs /\ input'[c].kind # "drop"
    PROVE  LinesInv'
<1>1. /\ status' = status /\ ledger' = ledger /\ lines' = lines
  BY DEF stored
<1>2. \A o \in Clients \ {c} : /\ Working(o)' <=> Working(o)
                               /\ LinesFit(o)' <=> LinesFit(o)
  BY <1>1 DEF Working, LinesFit, RightLine, After
<1>3. \A p : (Heals(p)' <=> Heals(p)) /\ (Known(p)' <=> Known(p))
  BY <1>1 DEF Heals, Known
<1>4. ASSUME NEW o \in Clients, Working(o)'
      PROVE  /\ input'[o] \in Inputs /\ input'[o].kind # "drop"
             /\ Heals(plan'[o]) /\ Known(plan[o])'
             /\ ~plan'[o].refused => LinesFit(o)'
  <2>1. CASE o = c
    BY <1>1, <1>4, <2>1 DEF Working, Known
  <2>2. CASE o # c
    BY <1>1, <1>2, <1>4, <2>2 DEF LinesInv, Known
  <2>3. QED
    BY <2>1, <2>2
<1>5. /\ (\A h \in Holdings : /\ ledger[h] \in Seq(Transaction)
                              /\ status[h] = "unborn" => ledger[h] = <<>>)'
      /\ (\A row \in Rows, h \in Holdings :
              status[h] # "dropped" => lines[row][h] = LineAsOf(ledger[h], row))'
  BY <1>1 DEF LinesInv
<1> QED BY <1>3, <1>4, <1>5 DEF LinesInv

\* A plan whose rows are not healed moves no line of theirs.
LEMMA PlansMoveNoOtherLine ==
    ASSUME NEW p, Heals(p), NEW h \in Holdings, ledger[h] \in Seq(Transaction)
    PROVE  /\ After(p, h, ledger[h]) \in Seq(Transaction)
           /\ \A row \in Rows \ DOMAIN p.lines :
                 LineAsOf(After(p, h, ledger[h]), row) = LineAsOf(ledger[h], row)
<1>1. PICK events \in Seq(Transaction) : events = ledger[h]
  OBVIOUS
<1>2. CASE h \in p.cleared
  <2>1. After(p, h, ledger[h]) = NotDividends(events)
    BY <1>1, <1>2 DEF After
  <2>2. NotDividends(events) \in Seq(Transaction)
        /\ \A row : LineAsOf(NotDividends(events), row) = LineAsOf(events, row)
    BY DividendsMoveNoLine
  <2>3. QED
    BY <1>1, <2>1, <2>2
<1>3. CASE h \notin p.cleared /\ h \in DOMAIN p.events
  <2>1. PICK more \in Seq(Transaction) : more = p.events[h]
    BY <1>3 DEF Heals
  <2>2. After(p, h, ledger[h]) = events \o more
    BY <1>1, <1>3, <2>1 DEF After
  <2>3. ASSUME NEW row \in Rows \ DOMAIN p.lines
        PROVE  LineAsOf(events \o more, row) = LineAsOf(events, row)
    <3>1. row \in Nat
      BY RowsArePast
    <3>2. \A k \in DOMAIN more : Unseen(more[k], row)
      BY <1>3, <2>1 DEF Heals
    <3>3. QED
      BY <3>1, <3>2, UnseenMoveNoLine
  <2>4. events \o more \in Seq(Transaction)
    OBVIOUS
  <2>5. QED
    BY <1>1, <2>2, <2>3, <2>4
<1>4. CASE h \notin p.cleared /\ h \notin DOMAIN p.events
  BY <1>1, <1>4 DEF After
<1> QED BY <1>2, <1>3, <1>4

\* A step of c that writes documents at once, c being at work no more.
LEMMA WritingKeepsLines ==
    ASSUME LinesInv, IInv', NEW c \in Clients, NEW docs, Written(c, docs), pc'[c] # "work",
           \A o \in Clients \ {c} : plan'[o] = plan[o] /\ pc'[o] = pc[o] /\ input'[o] = input[o],
           \A h \in Holdings : status'[h] # "dropped" =>
               /\ status[h] # "dropped"
               /\ ledger'[h] \in Seq(Transaction)
               /\ ledger'[h] = ledger[h] \/ HoldingDoc(h) \in docs
               /\ \A row \in Rows : RowDoc(row) \in docs \/
                     LineAsOf(ledger'[h], row) = LineAsOf(ledger[h], row),
           \A h \in Holdings : /\ ledger'[h] \in Seq(Transaction)
                               /\ status'[h] = "unborn" => status[h] = "unborn" /\ ledger'[h] = <<>>,
           \A row \in Rows, h \in Holdings :
               status'[h] # "dropped" => lines'[row][h] = LineAsOf(ledger'[h], row)
    PROVE  LinesInv'
<1>1. ASSUME NEW o \in Clients, Working(o)'
      PROVE  /\ input'[o] \in Inputs /\ input'[o].kind # "drop"
             /\ Heals(plan'[o]) /\ Known(plan[o])'
             /\ ~plan'[o].refused => LinesFit(o)'
  <2>1. o # c /\ Working(o) /\ plan'[o] = plan[o] /\ input'[o] = input[o]
    BY <1>1 DEF Working
  <2>k. Known(plan[o])'
    <3>1. Known(plan[o]) /\ plan'[o] = plan[o]
      BY <2>1 DEF LinesInv
    <3>2. QED
      BY <3>1 DEF Known
  <2>2. /\ input'[o] \in Inputs /\ input'[o].kind # "drop" /\ Heals(plan'[o])
        /\ ~plan'[o].refused => LinesFit(o)
        /\ missed'[o] = missed[o] \cup docs
    BY <2>1 DEF LinesInv, Written, Working
  <2>3. SUFFICES ASSUME LinesFit(o), NEW row \in Rows, NEW h \in Holdings,
                        row \in DOMAIN plan[o].lines, RowDoc(row) \notin missed'[o],
                        status'[h] # "dropped",
                        h \in DOMAIN plan[o].events => HoldingDoc(h) \notin missed'[o]
                 PROVE  plan[o].lines[row][h] = LineAsOf(After(plan[o], h, ledger'[h]), row)
    BY <2>1, <2>2, <2>k DEF LinesFit, RightLine, After
  <2> DEFINE p == plan[o]
  <2>4. p.lines[row][h] = LineAsOf(After(p, h, ledger[h]), row)
    BY <2>2, <2>3 DEF LinesFit, RightLine
  <2>5. LineAsOf(ledger'[h], row) = LineAsOf(ledger[h], row)
    BY <2>2, <2>3
  <2>6. p.cleared = {}
    BY <2>1, <2>2, <2>3 DEF Heals
  <2>7. CASE h \in DOMAIN p.events
    <3>1. ledger'[h] = ledger[h]
      BY <2>2, <2>3, <2>7
    <3>2. QED
      BY <2>4, <3>1
  <2>8. CASE h \notin DOMAIN p.events
    <3>1. After(p, h, ledger[h]) = ledger[h] /\ After(p, h, ledger'[h]) = ledger'[h]
      BY <2>6, <2>8 DEF After
    <3>2. QED
      BY <2>4, <2>5, <3>1
  <2>9. QED
    BY <2>7, <2>8
<1>2. \A p : Heals(p)' <=> Heals(p)
  BY DEF Heals
<1> QED BY <1>1, <1>2 DEF LinesInv

LEMMA CommitKeepsLines ==
    ASSUME LinesInv, IInv', NEW c \in Clients, Commit(c)
    PROVE  LinesInv'
<1> DEFINE p == plan[c]
<1>1. /\ Working(c) /\ ~p.refused /\ Apply(p) /\ Written(c, p.writes) /\ End(c)
      /\ Covers(p) /\ Heals(p) /\ LinesFit(c) /\ p.writes \cap missed[c] = {}
  BY DEF Commit, Working, LinesInv, IInv, Clean
<1>2. pc'[c] # "work"
      /\ \A o \in Clients \ {c} : plan'[o] = plan[o] /\ pc'[o] = pc[o] /\ input'[o] = input[o]
  BY <1>1 DEF End, LinesInv, IInv
<1>3. /\ \A h \in Holdings : status'[h] = IF h \in p.born THEN "held" ELSE status[h]
      /\ \A h \in Holdings : ledger'[h] = After(p, h, ledger[h])
      /\ \A row \in Rows : lines'[row] = IF row \in DOMAIN p.lines THEN p.lines[row] ELSE lines[row]
  BY <1>1 DEF Apply
<1>4. \A h \in Holdings : /\ ledger[h] \in Seq(Transaction)
                          /\ status[h] = "unborn" => ledger[h] = <<>>
  BY DEF LinesInv
<1>5. \A h \in Holdings :
         /\ ledger'[h] \in Seq(Transaction)
         /\ \A row \in Rows \ DOMAIN p.lines : LineAsOf(ledger'[h], row) = LineAsOf(ledger[h], row)
  <2>1. ASSUME NEW h \in Holdings
        PROVE  /\ After(p, h, ledger[h]) \in Seq(Transaction)
               /\ \A row \in Rows \ DOMAIN p.lines :
                     LineAsOf(After(p, h, ledger[h]), row) = LineAsOf(ledger[h], row)
    BY <1>1, <1>4, PlansMoveNoOtherLine
  <2>2. QED
    BY <1>3, <2>1
<1>6. \A h \in DOMAIN p.events : HoldingDoc(h) \in p.writes
  BY <1>1 DEF Covers
<1>7. \A h \in p.cleared : h \in Holdings /\ (HoldingDoc(h) \in p.writes \/ status[h] = "dropped")
  BY <1>1 DEF Covers
<1>8. p.born \subseteq Unborn
  BY DEF LinesInv, IInv
<1>9. \A h \in Holdings : status'[h] # "dropped" => status[h] # "dropped"
  BY <1>3, <1>8 DEF Unborn
<1>10. \A row \in DOMAIN p.lines : RowDoc(row) \in p.writes
  BY <1>1 DEF Heals
<1>11. ASSUME NEW h \in Holdings, status'[h] # "dropped"
       PROVE  ledger'[h] = ledger[h] \/ HoldingDoc(h) \in p.writes
  <2>1. CASE h \in DOMAIN p.events \/ h \in p.cleared
    BY <1>6, <1>7, <1>9, <1>11, <2>1
  <2>2. CASE ~(h \in DOMAIN p.events \/ h \in p.cleared)
    BY <1>3, <2>2 DEF After
  <2>3. QED
    BY <2>1, <2>2
<1>12. ASSUME NEW row \in Rows, NEW h \in Holdings, status'[h] # "dropped"
       PROVE  lines'[row][h] = LineAsOf(ledger'[h], row)
  <2>1. status[h] # "dropped"
    BY <1>9, <1>12
  <2>2. CASE row \in DOMAIN p.lines
    <3>1. RowDoc(row) \notin missed[c] /\ (h \in DOMAIN p.events => HoldingDoc(h) \notin missed[c])
      BY <1>1, <1>6, <1>10, <2>2
    <3>2. RightLine(p, row, h)
      BY <1>1, <2>1, <2>2, <3>1 DEF LinesFit
    <3>3. QED
      BY <1>3, <2>2, <3>2 DEF RightLine
  <2>3. CASE row \notin DOMAIN p.lines
    <3>1. lines[row][h] = LineAsOf(ledger[h], row)
      BY <2>1 DEF LinesInv
    <3>2. QED
      BY <1>3, <1>5, <2>3, <3>1
  <2>4. QED
    BY <2>2, <2>3
<1>13. ASSUME NEW h \in Holdings, status'[h] = "unborn"
       PROVE  status[h] = "unborn" /\ ledger'[h] = <<>>
  <2>1. status[h] = "unborn" /\ ledger[h] = <<>> /\ h \notin p.born
    BY <1>3, <1>4, <1>13
  <2>2. Known(p)
    BY <1>1 DEF LinesInv
  <2>3. h \notin DOMAIN p.events /\ h \notin p.cleared
    BY <2>1, <2>2 DEF Known
  <2>4. QED
    BY <1>3, <2>1, <2>3 DEF After
<1>14. PICK docs : docs = p.writes
  OBVIOUS
<1>15. Written(c, docs)
  BY <1>1, <1>14
<1> HIDE DEF p
<1>16. \A h \in Holdings : status'[h] # "dropped" =>
               /\ status[h] # "dropped"
               /\ ledger'[h] \in Seq(Transaction)
               /\ ledger'[h] = ledger[h] \/ HoldingDoc(h) \in docs
               /\ \A row \in Rows : RowDoc(row) \in docs \/
                     LineAsOf(ledger'[h], row) = LineAsOf(ledger[h], row)
  BY <1>5, <1>9, <1>10, <1>11, <1>14
<1> QED BY <1>2, <1>5, <1>12, <1>13, <1>15, <1>16, WritingKeepsLines

LEMMA DropKeepsLines ==
    ASSUME LinesInv, IInv', NEW c \in Clients, DropStart(c)
    PROVE  LinesInv'
<1>1. PICK gone \in Holdings : /\ status' = [status EXCEPT ![gone] = "dropped"]
                               /\ Written(c, {HoldingDoc(gone)})
  BY KnownRequests DEF DropStart
<1>2. /\ ledger' = ledger /\ lines' = lines
      /\ pc'[c] # "work"
      /\ \A o \in Clients \ {c} : plan'[o] = plan[o] /\ pc'[o] = pc[o] /\ input'[o] = input[o]
  BY DEF DropStart, LinesInv, IInv
<1>3. \A h \in Holdings : /\ status'[h] # "dropped" => status[h] # "dropped"
                          /\ status'[h] = "unborn" => status[h] = "unborn"
  BY <1>1 DEF LinesInv, IInv
<1>4. \A h \in Holdings : /\ ledger[h] \in Seq(Transaction)
                          /\ status[h] = "unborn" => ledger[h] = <<>>
  BY DEF LinesInv
<1>5. \A row \in Rows, h \in Holdings :
         status[h] # "dropped" => lines[row][h] = LineAsOf(ledger[h], row)
  BY DEF LinesInv
<1>6. PICK docs : docs = {HoldingDoc(gone)}
  OBVIOUS
<1> QED BY <1>1, <1>2, <1>3, <1>4, <1>5, <1>6, WritingKeepsLines

LEMMA CascadeKeepsLines ==
    ASSUME LinesInv, IInv', NEW c \in Clients, Cascade(c)
    PROVE  LinesInv'
<1>1. PICK gone \in Holdings : /\ status[gone] = "dropped"
                               /\ ledger' = [ledger EXCEPT ![gone] = <<>>]
  BY DEF Cascade, LinesInv, IInv
<1>2. /\ status' = status /\ lines' = lines
      /\ pc'[c] # "work"
      /\ \A o \in Clients \ {c} : plan'[o] = plan[o] /\ pc'[o] = pc[o] /\ input'[o] = input[o]
  BY DEF Cascade, End, LinesInv, IInv
<1>3. \A h \in Holdings : ledger'[h] = IF h = gone THEN <<>> ELSE ledger[h]
  BY <1>1 DEF LinesInv, IInv
<1>4. \A h \in Holdings : /\ ledger[h] \in Seq(Transaction)
                          /\ status[h] = "unborn" => ledger[h] = <<>>
  BY DEF LinesInv
<1>5. \A row \in Rows, h \in Holdings :
         status[h] # "dropped" => lines[row][h] = LineAsOf(ledger[h], row)
  BY DEF LinesInv
<1>6. \A h \in Holdings : ledger'[h] \in Seq(Transaction)
  <2>1. <<>> \in Seq(Transaction)
    OBVIOUS
  <2> QED BY <1>3, <1>4, <2>1
<1>7. \A h \in Holdings : status'[h] # "dropped" => ledger'[h] = ledger[h]
  BY <1>1, <1>2, <1>3
<1>8. \A h \in Holdings : status'[h] = "unborn" => status[h] = "unborn" /\ ledger'[h] = <<>>
  BY <1>2, <1>4, <1>7
<1>9. PICK docs : Written(c, docs)
  BY DEF Cascade
<1> QED BY <1>2, <1>5, <1>6, <1>7, <1>8, <1>9, WritingKeepsLines

LEMMA CallbackKeepsLines ==
    ASSUME LinesInv, IInv', NEW c \in Clients, NEW in \in Inputs, in.kind # "drop",
           Attempt(c, in), UNCHANGED stored, input'[c] = in,
           \A o \in Clients \ {c} : pc'[o] = pc[o] /\ input'[o] = input[o]
    PROVE  LinesInv'
<1>1. PICK p : /\ plan' = [plan EXCEPT ![c] = p]
               /\ missed' = [missed EXCEPT ![c] = {}]
               /\ Heals(p) /\ Known(p)
               /\ \A row \in Rows, h \in Holdings :
                     row \in DOMAIN p.lines /\ status[h] # "dropped" => RightLine(p, row, h)
  BY AttemptHeals
<1>2. plan'[c] = p /\ \A o \in Clients \ {c} : plan'[o] = plan[o] /\ missed'[o] = missed[o]
  BY <1>1 DEF LinesInv, IInv
<1>3. status' = status /\ ledger' = ledger
  BY DEF stored
<1>4. LinesFit(c)'
  BY <1>1, <1>2, <1>3 DEF LinesFit, RightLine, After
<1> QED BY <1>1, <1>2, <1>4, QuietKeepsLines

LEMMA StepKeepsLines ==
    ASSUME LinesInv, [Next]_vars
    PROVE  LinesInv'
<1>1. IInv'
  BY StepKeepsIInv DEF LinesInv
<1>2. CASE UNCHANGED <<stored, pc, input, plan, missed>>
  <2>1. /\ status' = status /\ ledger' = ledger /\ lines' = lines /\ pc' = pc
        /\ input' = input /\ plan' = plan /\ missed' = missed
    BY <1>2 DEF stored
  <2>2. \A c \in Clients :
           /\ Working(c)' <=> Working(c)
           /\ LinesFit(c)' <=> LinesFit(c)
           /\ Heals(plan[c])' <=> Heals(plan[c])
           /\ Known(plan[c])' <=> Known(plan[c])
    BY <2>1 DEF Working, LinesFit, RightLine, After, Heals, Known
  <2> QED BY <1>1, <2>1, <2>2 DEF LinesInv
<1>3. ASSUME NEW c \in Clients, RollBack(c)
      PROVE  LinesInv'
  <2>1. /\ pc'[c] # "work" /\ UNCHANGED stored
        /\ \A o \in Clients \ {c} : /\ plan'[o] = plan[o] /\ pc'[o] = pc[o]
                                     /\ missed'[o] = missed[o] /\ input'[o] = input[o]
    BY <1>3 DEF RollBack, End, LinesInv, IInv
  <2> QED BY <1>1, <2>1, QuietKeepsLines
<1>4. ASSUME NEW c \in Clients, Begin(c)
      PROVE  LinesInv'
  <2>1. PICK in \in Inputs : /\ in.kind # "drop" /\ Attempt(c, in)
                             /\ input' = [input EXCEPT ![c] = in]
    BY <1>4 DEF Begin
  <2>2. /\ UNCHANGED stored /\ input'[c] = in
        /\ \A o \in Clients \ {c} : pc'[o] = pc[o] /\ input'[o] = input[o]
    BY <1>4, <2>1 DEF Begin, LinesInv, IInv
  <2> QED BY <1>1, <2>1, <2>2, CallbackKeepsLines
<1>5. ASSUME NEW c \in Clients, Retry(c)
      PROVE  LinesInv'
  <2>1. PICK in : in = input[c]
    OBVIOUS
  <2>2. /\ in \in Inputs /\ in.kind # "drop" /\ Attempt(c, in)
        /\ UNCHANGED stored /\ input'[c] = in
        /\ \A o \in Clients \ {c} : pc'[o] = pc[o] /\ input'[o] = input[o]
    BY <1>5, <2>1 DEF Retry, LinesInv, Working
  <2> QED BY <1>1, <2>2, CallbackKeepsLines
<1>6. ASSUME NEW c \in Clients, Refuse(c) \/ GiveUp(c) \/ Abort(c)
      PROVE  LinesInv'
  BY <1>3, <1>6 DEF Refuse, GiveUp, Abort, RollBack
<1>7. CASE UNCHANGED vars
  BY <1>2, <1>7 DEF vars, stored
<1>8. ASSUME NEW c \in Clients, Expire(c)
      PROVE  LinesInv'
  BY <1>2, <1>8 DEF Expire
<1> QED
  BY <1>1, <1>4, <1>5, <1>6, <1>7, <1>8, CommitKeepsLines, DropKeepsLines, CascadeKeepsLines
  DEF Next, Answer

\* For every set of clients, holdings and sheets: whatever imports, deletions,
\* retries and aborts overlap, every stored row shows each held holding as the
\* ledger it has now stood at the end of the row's day.
THEOREM HistoryCommitsWithTheLedgerHolds == Spec => []HistoryCommitsWithTheLedger
<1>1. Init => LinesInv
  BY InitLines
<1>2. LinesInv /\ [Next]_vars => LinesInv'
  BY StepKeepsLines
<1>3. LinesInv => HistoryCommitsWithTheLedger
  BY DEF LinesInv, HistoryCommitsWithTheLedger, Held
<1> QED BY <1>1, <1>2, <1>3, PTL DEF Spec

------------------------------------------------------------------------------
(***************************************************************************)
(* The merge of a ledger with a sheet.  A row is new when at least as many *)
(* equal rows come before it as the ledger has copies of it: of n equal    *)
(* rows and m copies, the last n - m, whatever stands between them.        *)
(***************************************************************************)
CopiesOf(events, key) == Cardinality({k \in DOMAIN events : Key(events[k]) = key})
RowsOf(in, rows, key) == {i \in rows : Key(in.rows[i].txn) = key}

\* Each event is in after as often as the fuller of the rows and before has it.
Merging(in, rows, before, after) ==
    \A key : LET saved == CopiesOf(before, key)
                 sheet == Cardinality(RowsOf(in, rows, key))
             IN  CopiesOf(after, key) = IF saved < sheet THEN sheet ELSE saved

LEMMA PlacesAreFinite ==
  ASSUME NEW s, NEW T, s \in Seq(T), NEW S, S \subseteq DOMAIN s
  PROVE  IsFiniteSet(S) /\ Cardinality(S) \in Nat
<1>1. DOMAIN s = 1..Len(s) /\ Len(s) \in Nat
  OBVIOUS
<1>2. IsFiniteSet(1..Len(s))
  BY <1>1, FS_Interval
<1>3. S \in SUBSET (1..Len(s))
  BY <1>1
<1>4. IsFiniteSet(S)
  BY <1>2, <1>3, FS_Subset, Zenon
<1> QED BY <1>4, FS_CardinalityType

\* f pairs the elements of S with those of T.
Pairs(f, S, T) ==
    /\ f \in [S -> T]
    /\ \A x, y \in S : f[x] = f[y] => x = y
    /\ \A y \in T : \E x \in S : f[x] = y

LEMMA SameSize ==
  ASSUME NEW S, NEW T, IsFiniteSet(S), NEW f, Pairs(f, S, T)
  PROVE  IsFiniteSet(T) /\ Cardinality(T) = Cardinality(S)
<1>1. f \in Bijection(S, T)
  BY Zenon DEF Bijection, Injection, IsInjective, Surjection, Pairs
<1>2. ExistsBijection(S, T)
  BY <1>1, Zenon DEF ExistsBijection
<1> QED BY <1>2, FS_Bijection, Zenon

\* The copies in a joined sequence are those in its two parts.
LEMMA CopiesOfJoined ==
  ASSUME NEW a \in Seq(Transaction), NEW b \in Seq(Transaction), NEW key
  PROVE  /\ CopiesOf(a, key) \in Nat /\ CopiesOf(b, key) \in Nat
         /\ CopiesOf(a \o b, key) = CopiesOf(a, key) + CopiesOf(b, key)
<1> DEFINE A == {k \in DOMAIN a : Key(a[k]) = key}
           B == {k \in DOMAIN b : Key(b[k]) = key}
           C == {k \in DOMAIN (a \o b) : Key((a \o b)[k]) = key}
           n == Len(a)
           D == {k \in C : k > n}
           f == [k \in B |-> k + n]
<1>1. /\ n \in Nat /\ Len(b) \in Nat /\ DOMAIN a = 1..n /\ DOMAIN b = 1..Len(b)
      /\ DOMAIN (a \o b) = 1..(n + Len(b))
      /\ \A k \in 1..n : (a \o b)[k] = a[k]
      /\ \A k \in 1..Len(b) : (a \o b)[n + k] = b[k]
  OBVIOUS
<1>2. /\ IsFiniteSet(A) /\ Cardinality(A) \in Nat
      /\ IsFiniteSet(B) /\ Cardinality(B) \in Nat
  BY PlacesAreFinite
<1>3. \A k \in B : k \in Nat /\ k + n \in D
  <2> SUFFICES ASSUME NEW k \in B PROVE k \in Nat /\ k + n \in D
    OBVIOUS
  <2>1. k \in 1..Len(b) /\ Key(b[k]) = key
    BY <1>1
  <2>2. k + n = n + k /\ k + n \in DOMAIN (a \o b) /\ k + n > n
    BY <1>1, <2>1
  <2>3. (a \o b)[k + n] = b[k]
    BY <1>1, <2>1, <2>2
  <2> QED BY <2>1, <2>2, <2>3
<1>4. \A j \in D : \E k \in B : k + n = j
  <2> SUFFICES ASSUME NEW j \in D PROVE \E k \in B : k + n = j
    OBVIOUS
  <2>1. j \in 1..(n + Len(b)) /\ j > n /\ Key((a \o b)[j]) = key
    BY <1>1
  <2>2. PICK k \in 1..Len(b) : n + k = j /\ k + n = j
    <3>1. j - n \in 1..Len(b) /\ n + (j - n) = j /\ (j - n) + n = j
      BY <1>1, <2>1
    <3> QED BY <3>1
  <2>3. (a \o b)[j] = b[k]
    BY <1>1, <2>2
  <2> QED BY <1>1, <2>1, <2>2, <2>3
<1>5. A = {k \in C : k <= n}
  BY <1>1
<1>6. C = A \cup D /\ A \cap D = {}
  <2>1. \A k \in C : k \in Int
    BY <1>1
  <2> HIDE DEF C
  <2> QED BY <1>1, <1>5, <2>1
<1> HIDE DEF A, B, C, D
<1>7. IsFiniteSet(D) /\ Cardinality(D) = Cardinality(B)
  <2>1. f \in [B -> D] /\ \A k \in B : f[k] = k + n
    BY <1>3
  <2>2. \A x, y \in B : f[x] = f[y] => x = y
    BY <1>1, <1>3, <2>1
  <2>3. \A j \in D : \E k \in B : f[k] = j
    BY <1>4, <2>1
  <2> HIDE DEF f
  <2>4. Pairs(f, B, D)
    BY <2>1, <2>2, <2>3 DEF Pairs
  <2> QED BY <1>2, <2>4, SameSize, Zenon
<1>8. Cardinality(C) = Cardinality(A) + Cardinality(D)
  <2>1. Cardinality(A \cup D) = Cardinality(A) + Cardinality(D) - Cardinality(A \cap D)
    BY <1>2, <1>7, FS_Union
  <2>2. Cardinality(A \cap D) = 0 /\ Cardinality(D) \in Nat
    BY <1>2, <1>6, <1>7, FS_EmptySet
  <2> QED BY <1>2, <1>6, <2>1, <2>2
<1> QED BY <1>2, <1>7, <1>8 DEF A, B, C, CopiesOf

\* A key some event has, and only such a key, has a copy.
LEMMA KeysHaveCopies ==
  ASSUME NEW events \in Seq(Transaction), NEW key
  PROVE  /\ CopiesOf(events, key) \in Nat
         /\ CopiesOf(events, key) # 0 <=> \E k \in DOMAIN events : Key(events[k]) = key
<1> DEFINE S == {k \in DOMAIN events : Key(events[k]) = key}
<1>1. IsFiniteSet(S) /\ Cardinality(S) \in Nat
  BY PlacesAreFinite
<1>2. Cardinality(S) = 0 <=> S = {}
  BY <1>1, FS_EmptySet
<1> QED BY <1>1, <1>2 DEF CopiesOf

Late(in, S, m) == {i \in S : Cardinality({j \in S : Earlier(in, j, i)}) >= m}

\* Of n rows in order, those that m or more precede are n - m, or none.
LEMMA LaterRows ==
  ASSUME NEW in, in.rows \in Seq(ToSet(in.rows)),
         \A row \in ToSet(in.rows) : row.txn \in Transaction,
         NEW S, S \subseteq DOMAIN in.rows, NEW m \in Nat
  PROVE  /\ Cardinality(S) \in Nat
         /\ Cardinality(Late(in, S, m)) = IF m < Cardinality(S) THEN Cardinality(S) - m ELSE 0
<1> DEFINE order == InOrder(in, S)
           n == Cardinality(S)
           rank(i) == Cardinality({j \in S : Earlier(in, j, i)})
<1>1. /\ n \in Nat /\ IsFiniteSet(S)
      /\ order \in [1..n -> S]
      /\ \A k, l \in 1..n : order[k] = order[l] => k = l
      /\ \A i \in S : \E k \in 1..n : order[k] = i /\ rank(i) = k - 1
  <2>1. Places(order, n, in, S)
    BY RowsInOrder
  <2> QED BY <2>1 DEF Places
<1> HIDE DEF order, rank, n
<1> DEFINE last == {i \in S : rank(i) >= m}
           places == (m + 1)..n
           f == [k \in places |-> order[k]]
<1>2. \A k \in 1..n : rank(order[k]) = k - 1
  BY <1>1
<1>3. places \subseteq 1..n
  BY <1>1
<1>4. f \in [places -> last] /\ \A k \in places : f[k] = order[k]
  <2>1. ASSUME NEW k \in places PROVE order[k] \in S /\ rank(order[k]) >= m
    <3>1. k \in 1..n /\ k - 1 >= m
      BY <1>1
    <3> QED BY <1>1, <1>2, <3>1
  <2> QED BY <2>1
<1>5. \A i \in last : \E k \in places : f[k] = i
  <2> SUFFICES ASSUME NEW i \in last PROVE \E k \in places : f[k] = i
    OBVIOUS
  <2>1. PICK k \in 1..n : order[k] = i /\ rank(i) = k - 1
    BY <1>1
  <2>2. k \in places
    BY <1>1, <2>1
  <2> QED BY <1>4, <2>1, <2>2
<1>6. \A k, l \in places : f[k] = f[l] => k = l
  BY <1>1, <1>3, <1>4
<1>7. IsFiniteSet(places) /\ Cardinality(places) = IF m < n THEN n - m ELSE 0
  <2>1. /\ IsFiniteSet((m + 1)..n)
        /\ Cardinality((m + 1)..n) = IF m + 1 > n THEN 0 ELSE n - (m + 1) + 1
    BY <1>1, FS_Interval
  <2> QED BY <1>1, <2>1
<1> HIDE DEF f, places, last
<1>8. Cardinality(last) = Cardinality(places)
  <2>1. Pairs(f, places, last)
    BY <1>4, <1>5, <1>6 DEF Pairs
  <2> QED BY <1>7, <2>1, SameSize, Zenon
<1> QED BY <1>1, <1>7, <1>8 DEF last, n, rank, Late

\* What is taken of a set of rows in order has as many copies of an event as the set.
LEMMA CopiesTaken ==
  ASSUME NEW in, in.rows \in Seq(ToSet(in.rows)),
         \A row \in ToSet(in.rows) : row.txn \in Transaction,
         NEW S, S \subseteq DOMAIN in.rows, NEW key,
         NEW events, LET mine == InOrder(in, S)
                     IN  events = [k \in DOMAIN mine |-> in.rows[mine[k]].txn]
  PROVE  CopiesOf(events, key) = Cardinality(RowsOf(in, S, key))
<1> DEFINE mine == InOrder(in, S)
           n == Cardinality(S)
<1>1. /\ n \in Nat /\ mine \in [1..n -> S]
      /\ \A k, l \in 1..n : mine[k] = mine[l] => k = l
      /\ \A i \in S : \E k \in 1..n : mine[k] = i
  <2>1. Places(mine, n, in, S)
    BY RowsInOrder
  <2> QED BY <2>1 DEF Places
<1> DEFINE T == RowsOf(in, S, key)
           P == {k \in DOMAIN events : Key(events[k]) = key}
           f == [k \in P |-> mine[k]]
<1>2. events = [k \in DOMAIN mine |-> in.rows[mine[k]].txn]
  OBVIOUS
<1> HIDE DEF mine, n
<1>3. DOMAIN events = 1..n /\ \A k \in 1..n : events[k] = in.rows[mine[k]].txn /\ mine[k] \in S
  BY <1>1, <1>2
<1>4. P \subseteq 1..n
  BY <1>3
<1>5. IsFiniteSet(P)
  <2>1. IsFiniteSet(1..n)
    BY <1>1, FS_Interval
  <2> QED BY <1>4, <2>1, FS_Subset
<1>6. f \in [P -> T] /\ \A k \in P : f[k] = mine[k]
  BY <1>3 DEF RowsOf
<1>7. \A i \in T : \E k \in P : f[k] = i
  <2> SUFFICES ASSUME NEW i \in T PROVE \E k \in P : f[k] = i
    OBVIOUS
  <2>1. i \in S /\ Key(in.rows[i].txn) = key
    BY DEF RowsOf
  <2>2. PICK k \in 1..n : mine[k] = i
    BY <1>1, <2>1
  <2>3. k \in P
    BY <1>3, <2>1, <2>2
  <2> QED BY <1>6, <2>2, <2>3
<1>8. \A k, l \in P : f[k] = f[l] => k = l
  BY <1>1, <1>4, <1>6
<1> HIDE DEF f, P, T
<1>9. Cardinality(T) = Cardinality(P)
  <2>1. Pairs(f, P, T)
    BY <1>6, <1>7, <1>8 DEF Pairs
  <2> QED BY <1>5, <2>1, SameSize, Zenon
<1> QED BY <1>9 DEF CopiesOf, P, T

------------------------------------------------------------------------------
(***************************************************************************)
(* The evaluation of a sheet, seen as the merge of each ledger with the    *)
(* part of the sheet that is about its holding.                            *)
(***************************************************************************)
\* The holding of each name: the one created for it, or one of the currency.
Owns(owner, in, births) ==
    /\ owner \in [SheetNames(in) -> Holdings]
    /\ \A name \in SheetNames(in) :
          IF name \in DOMAIN births THEN owner[name] = births[name]
          ELSE status[owner[name]] = "held" /\ doc[owner[name]].currency = in.currency

\* The evaluation finds a holding for each name, and it is that one.
Found(owner, in, births) ==
    /\ Owns(owner, in, births)
    /\ \A name \in SheetNames(in) : Targets(Books, in, births)[name] = {owner[name]}

LEMMA NamesHaveOwners ==
  ASSUME DOMAIN doc = Holdings, NEW in, NEW births, Born(births) \subseteq Holdings,
         \A name \in SheetNames(in) : Targets(Books, in, births)[name] # {}
  PROVE  \E owner : Found(owner, in, births)
<1> DEFINE targets == Targets(Books, in, births)
           owner == [name \in SheetNames(in) |-> CHOOSE h : h \in targets[name]]
<1>1. ASSUME NEW name \in SheetNames(in)
      PROVE  /\ owner[name] \in Holdings /\ targets[name] = {owner[name]}
             /\ IF name \in DOMAIN births THEN owner[name] = births[name]
                ELSE status[owner[name]] = "held" /\ doc[owner[name]].currency = in.currency
  <2>1. targets[name] = IF name \in DOMAIN births THEN {births[name]} ELSE Resolved(Books, in, name)
    BY DEF Targets
  <2> HIDE DEF targets
  <2>2. owner[name] \in targets[name]
    <3>1. \E h : h \in targets[name]
      BY DEF targets
    <3>2. owner[name] = CHOOSE h : h \in targets[name]
      OBVIOUS
    <3> QED BY <3>1, <3>2
  <2> HIDE DEF owner
  <2>3. CASE name \in DOMAIN births
    <3>1. targets[name] = {births[name]} /\ births[name] \in Holdings
      BY <2>1, <2>3 DEF Born
    <3> QED BY <2>2, <2>3, <3>1
  <2>4. CASE name \notin DOMAIN births
    <3>1. owner[name] \in Resolved(Books, in, name) /\ targets[name] = Resolved(Books, in, name)
      BY <2>1, <2>2, <2>4
    <3>2. Resolved(Books, in, name) \subseteq Candidates(Books, in.currency)
      BY DEF Resolved, Matches
    <3>3. \A g, h \in Resolved(Books, in, name) : g = h
      BY DEF Resolved
    <3>4. Candidates(Books, in.currency)
             = {h \in Holdings : status[h] = "held" /\ doc[h].currency = in.currency}
      BY DEF Candidates, Books
    <3>5. Resolved(Books, in, name) = {owner[name]}
      BY <3>1, <3>3
    <3> QED BY <2>4, <3>1, <3>2, <3>4, <3>5
  <2> QED BY <2>3, <2>4
<1>2. owner \in [SheetNames(in) -> Holdings]
  <2>1. \A name \in SheetNames(in) : owner[name] \in Holdings
    BY <1>1
  <2>2. owner = [name \in SheetNames(in) |-> owner[name]]
    OBVIOUS
  <2> HIDE DEF owner
  <2> QED BY <2>1, <2>2
<1> HIDE DEF owner, targets
<1>3. Owns(owner, in, births)
  BY <1>1, <1>2 DEF Owns
<1> QED BY <1>1, <1>3 DEF targets, Found

LEMMA InOpeningIsCovered ==
  ASSUME NEW h, NEW txn
  PROVE  Merged!InOpening(ledger[h], txn) <=> CoveredBy(Books, h, txn)
<1>1. Merged!InOpening(ledger[h], txn) <=>
         \E opening \in ToSet(ledger[h]) :
            /\ IsOpening(opening) /\ opening.quantity > 0
            /\ DayOf(txn.date) <= opening.openingDate
  BY DEF Merged!InOpening, Merged!IsOpening, IsOpening, Merged!DayOf, DayOf, Merged!SlotsPerDay,
         SlotsPerDay, Merged!ToSet, ToSet
<1>2. OpeningsOf(Books, h) = {e \in ToSet(ledger[h]) : IsOpening(e) /\ e.quantity > 0}
  BY DEF OpeningsOf, Books
<1> QED BY <1>1, <1>2 DEF CoveredBy

\* The events found for h are what the merge of its ledger needs.
LEMMA SheetMerges ==
  ASSUME NEW in \in Inputs, in.kind \in {"trades", "dividends"}, NEW births,
         DOMAIN ledger = Holdings, NEW h \in Holdings, ledger[h] \in Seq(Transaction),
         NEW found, found = Evaluate(Books, in, Today, births), ~found.invalid,
         found.events[h] \in Seq(Transaction),
         NEW owner, \A name \in SheetNames(in) : Targets(Books, in, births)[name] = {owner[name]}
  PROVE  Merging(in, Merged!Part(in, owner, h, ledger[h]), ledger[h], ledger[h] \o found.events[h])
<1> DEFINE targets == Targets(Books, in, births)
           target(i) == targets[in.rows[i].name]
           bad == {i \in DOMAIN in.rows : Invalid(Books, in, in.rows[i], target(i), Today)}
           kept == {i \in DOMAIN in.rows \ bad : Kept(Books, in, in.rows[i], target(i))}
           new == {i \in kept : target(i) = {h} /\ Fresh(Books, in, targets, kept, i)}
           mine == InOrder(in, new)
           part == Merged!Part(in, owner, h, ledger[h])
<1>1. found.events[h] = [k \in DOMAIN mine |-> in.rows[mine[k]].txn]
  BY DEF Evaluate, Books
<1>2. bad = {}
  BY DEF Evaluate
<1>3. in.rows \in Seq(ToSet(in.rows)) /\ \A row \in ToSet(in.rows) : row.txn \in Transaction
  BY SheetsAreRows
<1>4. \A i \in DOMAIN in.rows : in.rows[i].name \in SheetNames(in)
  BY DEF SheetNames
<1>5. \A i \in DOMAIN in.rows : target(i) = {owner[in.rows[i].name]}
  BY <1>4
<1> HIDE DEF targets, bad
<1>6. kept \subseteq DOMAIN in.rows
  OBVIOUS
<1>7. \A i \in DOMAIN in.rows : i \in kept <=> Kept(Books, in, in.rows[i], target(i))
  BY <1>2
<1>8. \A i \in new : i \in kept
  OBVIOUS
<1>9. \A i \in kept : i \in new <=> target(i) = {h} /\ Fresh(Books, in, targets, kept, i)
  OBVIOUS
<1> HIDE DEF kept, new, mine, target
<1>10. \A i \in DOMAIN in.rows : i \in part <=> i \in kept /\ owner[in.rows[i].name] = h
  <2> SUFFICES ASSUME NEW i \in DOMAIN in.rows
               PROVE  i \in part <=> i \in kept /\ owner[in.rows[i].name] = h
    OBVIOUS
  <2>1. i \in part <=> /\ owner[in.rows[i].name] = h
                       /\ in.kind = "trades" => ~Merged!InOpening(ledger[h], in.rows[i].txn)
    BY DEF Merged!Part
  <2>2. Merged!InOpening(ledger[h], in.rows[i].txn) <=> CoveredBy(Books, h, in.rows[i].txn)
    BY InOpeningIsCovered
  <2>3. owner[in.rows[i].name] = h =>
           (i \in kept <=> (in.kind = "trades" => ~CoveredBy(Books, h, in.rows[i].txn)))
    <3>1. Kept(Books, in, in.rows[i], {h})
             <=> (in.kind = "trades" => ~CoveredBy(Books, h, in.rows[i].txn))
      BY DEF Kept
    <3>2. owner[in.rows[i].name] = h => target(i) = {h}
      BY <1>5
    <3> QED BY <1>7, <3>1, <3>2
  <2> QED BY <2>1, <2>2, <2>3
<1>11. part \subseteq DOMAIN in.rows
  BY DEF Merged!Part
<1> HIDE DEF part
<1>12. SUFFICES ASSUME NEW key
                PROVE  LET saved == CopiesOf(ledger[h], key)
                           sheet == Cardinality(RowsOf(in, part, key))
                       IN  CopiesOf(ledger[h] \o found.events[h], key) =
                              IF saved < sheet THEN sheet ELSE saved
  BY DEF Merging, part
<1> DEFINE S == RowsOf(in, part, key)
           m == CopiesOf(ledger[h], key)
           last == Late(in, S, m)
<1>13. /\ m \in Nat
       /\ CopiesOf(ledger[h] \o found.events[h], key) = m + CopiesOf(found.events[h], key)
  BY CopiesOfJoined
<1>14. CopiesOf(found.events[h], key) = Cardinality(RowsOf(in, new, key))
  <2>1. new \subseteq DOMAIN in.rows
    BY <1>6, <1>8
  <2> QED BY <1>1, <1>3, <2>1, CopiesTaken DEF mine
<1>15. RowsOf(in, new, key) = last
  <2>1. \A i \in new : i \in part
    BY <1>5, <1>6, <1>8, <1>9, <1>10
  <2>2. ASSUME NEW i \in S
        PROVE  i \in new <=> Cardinality({j \in S : Earlier(in, j, i)}) >= m
    <3>1. /\ i \in kept /\ i \in DOMAIN in.rows /\ owner[in.rows[i].name] = h
          /\ Key(in.rows[i].txn) = key
      BY <1>10, <1>11 DEF RowsOf
    <3>2. target(i) = {h} /\ targets[in.rows[i].name] = {h}
      BY <1>5, <3>1 DEF target
    <3>3. Saved(Books, h, in.rows[i].txn) = m
      BY <3>1 DEF Saved, CopiesOf, Books
    <3>4. {j \in kept : /\ Earlier(in, j, i)
                        /\ targets[in.rows[j].name] = {h}
                        /\ Key(in.rows[j].txn) = Key(in.rows[i].txn)}
             = {j \in S : Earlier(in, j, i)}
      <4>1. \A j \in kept : targets[in.rows[j].name] = {h} <=> j \in part
        BY <1>5, <1>6, <1>10 DEF target
      <4>2. \A j \in part : j \in kept
        BY <1>10, <1>11
      <4> QED BY <3>1, <4>1, <4>2 DEF RowsOf
    <3>5. Fresh(Books, in, targets, kept, i)
            <=> Cardinality({j \in S : Earlier(in, j, i)}) >= m
      <4> HIDE DEF S, m
      <4> QED BY <3>2, <3>3, <3>4 DEF Fresh
    <3> QED BY <1>9, <3>1, <3>2, <3>5
  <2>3. RowsOf(in, new, key) = {i \in S : i \in new}
    BY <2>1 DEF RowsOf
  <2> HIDE DEF S, m
  <2> QED BY <2>2, <2>3 DEF Late
<1>16. /\ Cardinality(S) \in Nat
       /\ Cardinality(last) = IF m < Cardinality(S) THEN Cardinality(S) - m ELSE 0
  <2>1. S \subseteq DOMAIN in.rows
    BY <1>11 DEF RowsOf
  <2> HIDE DEF S, m
  <2> QED BY <1>3, <1>13, <2>1, LaterRows
<1> HIDE DEF last, m, S
<1>17. CopiesOf(ledger[h] \o found.events[h], key) =
          IF m < Cardinality(S) THEN Cardinality(S) ELSE m
  BY <1>13, <1>14, <1>15, <1>16
<1> QED BY <1>17 DEF m, S

------------------------------------------------------------------------------
(***************************************************************************)
(* What a transaction that may still commit would do, seen as one step of  *)
(* the promise, m being the documents it has missed: a holding of which it *)
(* has not missed anything is as it read it.                               *)
(***************************************************************************)
Uploads(m, in, p, owner) ==
    /\ owner \in [SheetNames(in) -> Holdings]
    /\ p.cleared = {}
    /\ \A name \in SheetNames(in) :
          \/ owner[name] \in p.born
          \/ /\ doc[owner[name]].currency = in.currency
             /\ status[owner[name]] # "unborn"
             /\ status[owner[name]] = "held" \/ HoldingDoc(owner[name]) \in m
    /\ \A h \in p.born :
          /\ p.docs[h].currency = in.currency
          /\ \E name \in in.create : {n \in SheetNames(in) : owner[n] = h} = {name}
    /\ \A h \in DOMAIN p.docs \ p.born :
          status[h] # "unborn" /\ p.docs[h].currency = doc[h].currency
    /\ \A h \in Holdings :
          status[h] # "dropped" /\ HoldingDoc(h) \notin m =>
              Merging(in, Merged!Part(in, owner, h, ledger[h]), ledger[h], After(p, h, ledger[h]))

Clears(m, in, p) ==
    /\ p.born = {} /\ DOMAIN p.docs = {} /\ DOMAIN p.events = {}
    /\ \A h \in Holdings :
          status[h] = "held" /\ HoldingDoc(h) \notin m =>
              After(p, h, ledger[h]) =
                  IF doc[h].currency = in.currency THEN NotDividends(ledger[h]) ELSE ledger[h]

Promised(m, in, p) ==
    \/ in.kind \in {"trades", "dividends"} /\ \E owner : Uploads(m, in, p, owner)
    \/ in.kind = "clear" /\ Clears(m, in, p)

MergeInv ==
    /\ LinesInv
    /\ TwinInv
    /\ \A h \in Holdings : "currency" \in DOMAIN doc[h]
    /\ \A c \in Clients : Working(c) =>
          /\ \A h \in DOMAIN plan[c].docs : h \in Holdings /\ "currency" \in DOMAIN plan[c].docs[h]
          /\ ~plan[c].refused => Promised(missed[c], input[c], plan[c])

\* No document changes its currency.
LEMMA DocsKeepTheirCurrency ==
    ASSUME NEW in, NEW births, NEW names, Born(births) \subseteq Unborn,
           \A h \in Holdings : "currency" \in DOMAIN doc[h]
    PROVE  /\ Born(births) \subseteq DOMAIN Docs(Books, in, births, names)
           /\ \A g \in Born(births) : Docs(Books, in, births, names)[g].currency = in.currency
           /\ \A h \in DOMAIN Docs(Books, in, births, names) \ Born(births) :
                 /\ status[h] = "held"
                 /\ Docs(Books, in, births, names)[h].currency = doc[h].currency
           /\ \A h \in DOMAIN Docs(Books, in, births, names) :
                 h \in Holdings /\ "currency" \in DOMAIN Docs(Books, in, births, names)[h]
<1> DEFINE changed == {h \in Holdings : /\ Books.status[h] = "held"
                                        /\ WithAliases(Books, names, h) # Books.doc[h]}
           new(g) == NewHolding(in, CHOOSE name \in DOMAIN births : births[name] = g)
           docs == Docs(Books, in, births, names)
<1>1. docs = [h \in changed \cup Born(births) |->
                 IF h \in changed THEN WithAliases(Books, names, h) ELSE new(h)]
  BY DEF Docs
<1>2. /\ \A h \in changed : status[h] = "held" /\ h \in Holdings
      /\ Born(births) \subseteq Holdings
  BY DEF Books, Unborn
<1>3. changed \cap Born(births) = {}
  BY <1>2 DEF Unborn
<1>4. \A g : new(g).currency = in.currency /\ "currency" \in DOMAIN new(g)
  BY DEF NewHolding
<1>5. \A h \in changed : /\ WithAliases(Books, names, h).currency = doc[h].currency
                         /\ "currency" \in DOMAIN WithAliases(Books, names, h)
  <2> SUFFICES ASSUME NEW h \in changed
               PROVE  /\ WithAliases(Books, names, h).currency = doc[h].currency
                      /\ "currency" \in DOMAIN WithAliases(Books, names, h)
    OBVIOUS
  <2>1. "currency" \in DOMAIN doc[h]
    BY <1>2
  <2> HIDE DEF changed
  <2>2. Books.doc[h] = doc[h]
    BY DEF Books
  <2>3. PICK value : WithAliases(Books, names, h) = [doc[h] EXCEPT !.aliases = value]
    BY <2>2 DEF WithAliases
  <2> QED BY <2>1, <2>3
<1> HIDE DEF changed, new, docs
<1>6. /\ DOMAIN docs = changed \cup Born(births)
      /\ \A g \in Born(births) : docs[g] = new(g)
      /\ \A h \in changed : docs[h] = WithAliases(Books, names, h)
  BY <1>1, <1>3
<1> QED BY <1>2, <1>4, <1>5, <1>6 DEF docs

LEMMA InvalidIsRefused ==
    ASSUME NEW in, NEW births, NEW found, ~ImportWrites(Books, in, births, found).refused
    PROVE  ~found.invalid
<1>1. PICK r : r = (found.invalid \/ \E h \in {h \in Holdings : found.events[h] # <<>>} :
                       Oversells([g \in Holdings |-> Books.ledger[g] \o found.events[g]][h]))
  OBVIOUS
<1>2. ImportWrites(Books, in, births, found).refused = r
  BY <1>1 DEF ImportWrites
<1> QED BY <1>1, <1>2

\* The names of a sheet that mean a holding it creates are the one it was created for.
LEMMA NewHoldingsHaveOneName ==
    ASSUME NEW in, NEW births, births \in Births(Books, in, Unborn),
           NEW owner, Owns(owner, in, births), NEW g \in Born(births)
    PROVE  \E name \in in.create : {n \in SheetNames(in) : owner[n] = g} = {name}
<1>1. /\ DOMAIN births = Newcomers(Books, in) /\ Born(births) \subseteq Unborn
      /\ \A m, n \in DOMAIN births : births[m] = births[n] => m = n
  BY DEF Births, Born
<1>2. \A name \in Newcomers(Books, in) : name \in in.create /\ name \in SheetNames(in)
  BY DEF Newcomers
<1>3. PICK name \in DOMAIN births : births[name] = g
  BY DEF Born
<1>4. status[g] = "unborn"
  BY <1>1 DEF Unborn
<1>5. ASSUME NEW n \in SheetNames(in) PROVE owner[n] = g <=> n = name
  <2>1. CASE n \in DOMAIN births
    BY <1>1, <1>3, <2>1 DEF Owns
  <2>2. CASE n \notin DOMAIN births
    BY <1>3, <1>4, <2>2 DEF Owns
  <2> QED BY <2>1, <2>2
<1> QED BY <1>1, <1>2, <1>3, <1>5

\* A callback run now would do what is promised of the portfolio it reads.
LEMMA AttemptPromises ==
    ASSUME MergeInv, NEW c \in Clients, NEW in \in Inputs, in.kind # "drop", Attempt(c, in)
    PROVE  \E p : /\ plan' = [plan EXCEPT ![c] = p]
                  /\ \A h \in DOMAIN p.docs : h \in Holdings /\ "currency" \in DOMAIN p.docs[h]
                  /\ ~p.refused => Promised({}, in, p)
<1>0. DOMAIN ledger = Holdings /\ DOMAIN doc = Holdings
      /\ \A h \in Holdings : ledger[h] \in Seq(Transaction)
  BY DEF MergeInv, LinesInv, IInv, TwinInv
<1>1. CASE in.kind = "clear" /\ plan' = [plan EXCEPT ![c] = ClearWrites(Books, in)]
  <2>1. PICK p : p = ClearWrites(Books, in)
    OBVIOUS
  <2>2. /\ p.born = {} /\ DOMAIN p.docs = {} /\ DOMAIN p.events = {}
        /\ p.cleared = {h \in Holdings : /\ status[h] # "unborn"
                                         /\ doc[h].currency = in.currency
                                         /\ NotDividends(ledger[h]) # ledger[h]}
    BY <2>1 DEF ClearWrites, Books
  <2>3. ASSUME NEW h \in Holdings, status[h] = "held"
        PROVE  After(p, h, ledger[h]) =
                  IF doc[h].currency = in.currency THEN NotDividends(ledger[h]) ELSE ledger[h]
    BY <2>2, <2>3 DEF After
  <2> QED BY <1>1, <2>1, <2>2, <2>3 DEF Clears, Promised
<1>2. ASSUME NEW births \in Births(Books, in, FreshIds(c)), in.kind # "clear",
             plan' = [plan EXCEPT ![c] =
                         ImportWrites(Books, in, births, Evaluate(Books, in, Today, births))]
      PROVE  \E p : /\ plan' = [plan EXCEPT ![c] = p]
                    /\ \A h \in DOMAIN p.docs : h \in Holdings /\ "currency" \in DOMAIN p.docs[h]
                    /\ ~p.refused => Promised({}, in, p)
  <2>1. PICK found, p : /\ plan' = [plan EXCEPT ![c] = p]
                        /\ p = ImportWrites(Books, in, births, found)
                        /\ found = Evaluate(Books, in, Today, births)
    BY <1>2
  <2>2. /\ p.born = Born(births) /\ p.cleared = {}
        /\ DOMAIN p.events = {h \in Holdings : found.events[h] # <<>>}
        /\ \A h \in DOMAIN p.events : p.events[h] = found.events[h]
    BY <2>1, ImportFields
  <2>3. p.docs = Docs(Books, in, births, found.names)
    BY <2>1, ImportDocs
  <2>4. /\ Born(births) \subseteq Unborn /\ Unborn \subseteq Holdings
        /\ births \in Births(Books, in, Unborn)
    BY <1>2 DEF Born, Births, FreshIds, Unborn
  <2>5. /\ Born(births) \subseteq DOMAIN p.docs
        /\ \A g \in Born(births) : p.docs[g].currency = in.currency
        /\ \A h \in DOMAIN p.docs \ Born(births) :
              status[h] = "held" /\ p.docs[h].currency = doc[h].currency
        /\ \A h \in DOMAIN p.docs : h \in Holdings /\ "currency" \in DOMAIN p.docs[h]
    <3>1. \A h \in Holdings : "currency" \in DOMAIN doc[h]
      BY DEF MergeInv
    <3>2. PICK names : names = found.names
      OBVIOUS
    <3> QED BY <2>3, <2>4, <3>1, <3>2, DocsKeepTheirCurrency
  <2>6. in.kind \in {"trades", "dividends"}
    BY <1>2, KnownRequests
  <2>7. ASSUME ~p.refused PROVE \E owner : Uploads({}, in, p, owner)
    <3>1. ~found.invalid
      BY <2>1, <2>7, InvalidIsRefused
    <3>2. \A name \in SheetNames(in) : Targets(Books, in, births)[name] # {}
      <4> SUFFICES ASSUME NEW i \in DOMAIN in.rows
                   PROVE  Targets(Books, in, births)[in.rows[i].name] # {}
        BY DEF SheetNames
      <4>1. ~Invalid(Books, in, in.rows[i], Targets(Books, in, births)[in.rows[i].name], Today)
        BY <2>1, <3>1 DEF Evaluate
      <4> QED BY <4>1 DEF Invalid
    <3>3. PICK owner : Found(owner, in, births)
      <4>1. Born(births) \subseteq Holdings
        BY <2>4
      <4> QED BY <1>0, <3>2, <4>1, NamesHaveOwners
    <3>4. /\ Owns(owner, in, births)
          /\ \A name \in SheetNames(in) : Targets(Books, in, births)[name] = {owner[name]}
      BY <3>3 DEF Found
    <3>5. ASSUME NEW h \in Holdings
          PROVE  Merging(in, Merged!Part(in, owner, h, ledger[h]), ledger[h], After(p, h, ledger[h]))
      <4>1. found.events[h] \in Seq(Transaction)
        BY <1>0, <2>1, <2>6, NewEvents
      <4>2. Merging(in, Merged!Part(in, owner, h, ledger[h]), ledger[h],
                    ledger[h] \o found.events[h])
        BY <1>0, <2>1, <2>6, <3>1, <3>4, <4>1, SheetMerges
      <4>3. After(p, h, ledger[h]) = ledger[h] \o found.events[h]
        <5>1. ledger[h] \o <<>> = ledger[h]
          BY <1>0
        <5> QED BY <2>2, <5>1 DEF After
      <4> QED BY <4>2, <4>3
    <3>6. ASSUME NEW name \in SheetNames(in), owner[name] \notin p.born
          PROVE  /\ doc[owner[name]].currency = in.currency
                 /\ status[owner[name]] = "held" /\ status[owner[name]] # "unborn"
      BY <2>2, <3>4, <3>6 DEF Owns, Born
    <3>7. \A h \in p.born :
             \E name \in in.create : {n \in SheetNames(in) : owner[n] = h} = {name}
      BY <2>2, <2>4, <3>4, NewHoldingsHaveOneName
    <3>8. owner \in [SheetNames(in) -> Holdings]
      BY <3>4 DEF Owns
    <3>9. \A h \in DOMAIN p.docs \ p.born :
             status[h] # "unborn" /\ p.docs[h].currency = doc[h].currency
      BY <2>2, <2>5
    <3>10. \A h \in p.born : p.docs[h].currency = in.currency
      BY <2>2, <2>5
    <3>11. Uploads({}, in, p, owner)
      BY <2>2, <3>5, <3>6, <3>7, <3>8, <3>9, <3>10 DEF Uploads
    <3> QED BY <3>11
  <2> QED BY <2>1, <2>5, <2>6, <2>7 DEF Promised
<1>3. \/ in.kind = "clear" /\ plan' = [plan EXCEPT ![c] = ClearWrites(Books, in)]
      \/ /\ in.kind # "clear"
         /\ \E births \in Births(Books, in, FreshIds(c)) :
               plan' = [plan EXCEPT ![c] =
                   ImportWrites(Books, in, births, Evaluate(Books, in, Today, births))]
  BY DEF Attempt
<1>4. CASE in.kind = "clear" /\ plan' = [plan EXCEPT ![c] = ClearWrites(Books, in)]
  BY <1>1, <1>4
<1> QED BY <1>2, <1>3, <1>4

\* What others write, an open transaction misses.
LEMMA MissedKeepsPromise ==
    ASSUME NEW m, NEW in, NEW p, NEW docs, Promised(m, in, p),
           \A h \in Holdings : \/ HoldingDoc(h) \in docs
                               \/ /\ status'[h] = status[h]
                                  /\ status'[h] # "dropped" => ledger'[h] = ledger[h],
           \A h \in Holdings : status[h] # "unborn" =>
                                  status'[h] # "unborn" /\ doc'[h].currency = doc[h].currency,
           DOMAIN p.docs \subseteq Holdings
    PROVE  Promised(m \cup docs, in, p)'
<1>1. ASSUME NEW owner, Uploads(m, in, p, owner)
      PROVE  Uploads(m \cup docs, in, p, owner)'
  <2>1. ASSUME NEW name \in SheetNames(in), owner[name] \notin p.born
        PROVE  /\ doc'[owner[name]].currency = in.currency
               /\ status'[owner[name]] # "unborn"
               /\ status'[owner[name]] = "held" \/ HoldingDoc(owner[name]) \in m \cup docs
    <3>1. /\ owner[name] \in Holdings /\ doc[owner[name]].currency = in.currency
          /\ status[owner[name]] # "unborn"
          /\ status[owner[name]] = "held" \/ HoldingDoc(owner[name]) \in m
      BY <1>1, <2>1 DEF Uploads
    <3> QED BY <3>1
  <2>2. \A h \in DOMAIN p.docs \ p.born :
           status'[h] # "unborn" /\ p.docs[h].currency = doc'[h].currency
    BY <1>1 DEF Uploads
  <2>3. ASSUME NEW h \in Holdings, status'[h] # "dropped", HoldingDoc(h) \notin m \cup docs
        PROVE  Merging(in, Merged!Part(in, owner, h, ledger'[h]), ledger'[h], After(p, h, ledger'[h]))
    <3>1. status[h] # "dropped" /\ HoldingDoc(h) \notin m /\ ledger'[h] = ledger[h]
      BY <2>3
    <3>2. Merging(in, Merged!Part(in, owner, h, ledger[h]), ledger[h], After(p, h, ledger[h]))
      BY <1>1, <3>1 DEF Uploads
    <3> QED BY <3>1, <3>2
  <2>4. /\ owner \in [SheetNames(in) -> Holdings] /\ p.cleared = {}
        /\ \A h \in p.born :
              /\ p.docs[h].currency = in.currency
              /\ \E name \in in.create : {n \in SheetNames(in) : owner[n] = h} = {name}
    BY <1>1 DEF Uploads
  <2> QED BY <2>1, <2>2, <2>3, <2>4 DEF Uploads
<1>2. ASSUME Clears(m, in, p)
      PROVE  Clears(m \cup docs, in, p)'
  <2>1. ASSUME NEW h \in Holdings, status'[h] = "held", HoldingDoc(h) \notin m \cup docs
        PROVE  After(p, h, ledger'[h]) =
                  IF doc'[h].currency = in.currency THEN NotDividends(ledger'[h]) ELSE ledger'[h]
    <3>1. /\ status[h] = "held" /\ HoldingDoc(h) \notin m /\ ledger'[h] = ledger[h]
          /\ doc'[h].currency = doc[h].currency
      BY <2>1
    <3> QED BY <1>2, <3>1 DEF Clears
  <2>2. p.born = {} /\ DOMAIN p.docs = {} /\ DOMAIN p.events = {}
    BY <1>2 DEF Clears
  <2> QED BY <2>1, <2>2 DEF Clears
<1> QED BY <1>1, <1>2 DEF Promised

\* A step of c that writes documents at once, c being at work no more.
LEMMA WritingKeepsPromises ==
    ASSUME MergeInv, LinesInv', TwinInv', NEW c \in Clients, NEW docs, Written(c, docs),
           pc'[c] # "work",
           \A o \in Clients \ {c} : plan'[o] = plan[o] /\ pc'[o] = pc[o] /\ input'[o] = input[o],
           \A h \in Holdings : \/ HoldingDoc(h) \in docs
                               \/ /\ status'[h] = status[h]
                                  /\ status'[h] # "dropped" => ledger'[h] = ledger[h],
           \A h \in Holdings :
               /\ "currency" \in DOMAIN doc'[h]
               /\ status[h] # "unborn" =>
                      status'[h] # "unborn" /\ doc'[h].currency = doc[h].currency
    PROVE  MergeInv'
<1>1. ASSUME NEW o \in Clients, Working(o)'
      PROVE  /\ \A h \in DOMAIN plan'[o].docs :
                   h \in Holdings /\ "currency" \in DOMAIN plan'[o].docs[h]
             /\ ~plan'[o].refused => Promised(missed[o], input[o], plan[o])'
  <2>1. /\ o # c /\ Working(o) /\ plan'[o] = plan[o] /\ input'[o] = input[o]
        /\ missed'[o] = missed[o] \cup docs
    BY <1>1 DEF Working, Written
  <2>2. PICK p, in, m : p = plan[o] /\ in = input[o] /\ m = missed[o]
    OBVIOUS
  <2>3. \A h \in DOMAIN p.docs : h \in Holdings /\ "currency" \in DOMAIN p.docs[h]
    BY <2>1, <2>2 DEF MergeInv
  <2>4. ASSUME ~p.refused PROVE Promised(m \cup docs, in, p)'
    <3>1. Promised(m, in, p) /\ DOMAIN p.docs \subseteq Holdings
      BY <2>1, <2>2, <2>3, <2>4 DEF MergeInv
    <3> QED BY <2>1, <3>1, MissedKeepsPromise
  <2>5. Promised(m \cup docs, in, p)' => Promised(missed[o], input[o], plan[o])'
    BY <2>1, <2>2 DEF Promised, Uploads, Clears
  <2> QED BY <2>1, <2>2, <2>3, <2>4, <2>5
<1> QED BY <1>1 DEF MergeInv

\* A step that leaves the portfolio alone, and of the plans changes at most c's.
LEMMA QuietKeepsPromises ==
    ASSUME MergeInv, LinesInv', TwinInv', NEW c \in Clients, UNCHANGED stored,
           \A o \in Clients \ {c} : /\ plan'[o] = plan[o] /\ pc'[o] = pc[o]
                                    /\ missed'[o] = missed[o] /\ input'[o] = input[o],
           NEW p, NEW in, NEW m,
           pc'[c] = "work" =>
              /\ plan'[c] = p /\ input'[c] = in /\ missed'[c] = m
              /\ \A h \in DOMAIN p.docs : h \in Holdings /\ "currency" \in DOMAIN p.docs[h]
              /\ ~p.refused => Promised(m, in, p)'
    PROVE  MergeInv'
<1>1. status' = status /\ ledger' = ledger /\ doc' = doc
  BY DEF stored
<1>2. ASSUME NEW o \in Clients, Working(o)'
      PROVE  /\ \A h \in DOMAIN plan'[o].docs :
                   h \in Holdings /\ "currency" \in DOMAIN plan'[o].docs[h]
             /\ ~plan'[o].refused => Promised(missed[o], input[o], plan[o])'
  <2>1. CASE o = c
    <3>1. /\ plan'[c] = p /\ input'[c] = in /\ missed'[c] = m
          /\ \A h \in DOMAIN p.docs : h \in Holdings /\ "currency" \in DOMAIN p.docs[h]
          /\ ~p.refused => Promised(m, in, p)'
      BY <1>2, <2>1 DEF Working
    <3>2. Promised(m, in, p)' => Promised(missed[o], input[o], plan[o])'
      BY <2>1, <3>1 DEF Promised, Uploads, Clears
    <3> QED BY <2>1, <3>1, <3>2
  <2>2. CASE o # c
    <3>1. /\ plan'[o] = plan[o] /\ pc'[o] = pc[o] /\ missed'[o] = missed[o] /\ input'[o] = input[o]
          /\ Working(o)
      BY <1>2, <2>2 DEF Working
    <3>2. Promised(missed[o], input[o], plan[o])' <=> Promised(missed[o], input[o], plan[o])
      BY <1>1, <3>1 DEF Promised, Uploads, Clears
    <3> QED BY <3>1, <3>2 DEF MergeInv
  <2> QED BY <2>1, <2>2
<1>3. \A h \in Holdings : "currency" \in DOMAIN doc'[h]
  BY <1>1 DEF MergeInv
<1> QED BY <1>2, <1>3 DEF MergeInv

\* A commit writes the documents of the ledgers it changes, and misses none of them.
LEMMA CommitWritesItsDocs ==
    ASSUME MergeInv, NEW c \in Clients, Commit(c)
    PROVE  LET p == plan[c]
           IN  /\ Working(c) /\ ~p.refused /\ Promised(missed[c], input[c], p)
               /\ \A h \in Holdings :
                     /\ status'[h] = IF h \in p.born THEN "held" ELSE status[h]
                     /\ doc'[h] = IF h \in DOMAIN p.docs THEN p.docs[h] ELSE doc[h]
                     /\ ledger'[h] = After(p, h, ledger[h])
               /\ p.born \subseteq Unborn /\ p.born \subseteq DOMAIN p.docs
               /\ \A h \in DOMAIN p.docs : HoldingDoc(h) \in p.writes
               /\ \A h \in DOMAIN p.events : HoldingDoc(h) \in p.writes
               /\ \A h \in p.cleared : HoldingDoc(h) \in p.writes \/ status[h] = "dropped"
               /\ \A h \in Holdings : HoldingDoc(h) \in p.writes => HoldingDoc(h) \notin missed[c]
               /\ \A h \in DOMAIN p.docs : h \in Holdings /\ "currency" \in DOMAIN p.docs[h]
<1> DEFINE p == plan[c]
<1>1. /\ Working(c) /\ ~p.refused /\ Apply(p) /\ Clean(c)
      /\ Covers(p) /\ Twinned(c, p) /\ p.born \subseteq Unborn
      /\ Promised(missed[c], input[c], p)
      /\ \A h \in DOMAIN p.docs : h \in Holdings /\ "currency" \in DOMAIN p.docs[h]
  BY DEF Commit, Working, MergeInv, LinesInv, IInv, TwinInv
<1>2. /\ \A h \in Holdings :
            /\ status'[h] = IF h \in p.born THEN "held" ELSE status[h]
            /\ doc'[h] = IF h \in DOMAIN p.docs THEN p.docs[h] ELSE doc[h]
            /\ ledger'[h] = After(p, h, ledger[h])
  BY <1>1 DEF Apply
<1>3. /\ p.born \subseteq DOMAIN p.docs
      /\ \A h \in DOMAIN p.docs : HoldingDoc(h) \in p.writes
  BY <1>1 DEF Twinned
<1>4. /\ \A h \in DOMAIN p.events : HoldingDoc(h) \in p.writes
      /\ \A h \in p.cleared : HoldingDoc(h) \in p.writes \/ status[h] = "dropped"
  BY <1>1 DEF Covers
<1>5. \A h \in Holdings : HoldingDoc(h) \in p.writes => HoldingDoc(h) \notin missed[c]
  BY <1>1 DEF Clean
<1> QED BY <1>1, <1>2, <1>3, <1>4, <1>5

LEMMA CommitKeepsPromises ==
    ASSUME MergeInv, LinesInv', TwinInv', NEW c \in Clients, Commit(c)
    PROVE  MergeInv'
<1>1. PICK p, in, docs, m : p = plan[c] /\ in = input[c] /\ docs = p.writes /\ m = missed[c]
  OBVIOUS
<1>2. /\ Working(c) /\ ~p.refused /\ Promised(m, in, p)
      /\ \A h \in Holdings :
            /\ status'[h] = IF h \in p.born THEN "held" ELSE status[h]
            /\ doc'[h] = IF h \in DOMAIN p.docs THEN p.docs[h] ELSE doc[h]
            /\ ledger'[h] = After(p, h, ledger[h])
      /\ p.born \subseteq Unborn /\ p.born \subseteq DOMAIN p.docs
      /\ \A h \in DOMAIN p.docs : HoldingDoc(h) \in p.writes
      /\ \A h \in DOMAIN p.events : HoldingDoc(h) \in p.writes
      /\ \A h \in p.cleared : HoldingDoc(h) \in p.writes \/ status[h] = "dropped"
      /\ \A h \in DOMAIN p.docs : h \in Holdings /\ "currency" \in DOMAIN p.docs[h]
  BY <1>1, CommitWritesItsDocs
<1>3. /\ Written(c, docs) /\ pc'[c] # "work"
      /\ \A o \in Clients \ {c} : plan'[o] = plan[o] /\ pc'[o] = pc[o] /\ input'[o] = input[o]
  BY <1>1 DEF Commit, End, MergeInv, LinesInv, IInv
<1>4. ASSUME NEW h \in Holdings, HoldingDoc(h) \notin docs
      PROVE  /\ status'[h] = status[h]
             /\ status'[h] # "dropped" => ledger'[h] = ledger[h]
  <2>1. h \notin p.born /\ h \notin DOMAIN p.events /\ (h \in p.cleared => status[h] = "dropped")
    BY <1>1, <1>2, <1>4
  <2>2. status'[h] = status[h]
    BY <1>2, <2>1
  <2>3. status[h] # "dropped" => After(p, h, ledger[h]) = ledger[h]
    BY <2>1 DEF After
  <2> QED BY <1>2, <2>2, <2>3
<1>5. \A h \in DOMAIN p.docs : status[h] # "unborn" => p.docs[h].currency = doc[h].currency
  <2>1. CASE \E owner : Uploads(m, in, p, owner)
    BY <1>2, <2>1 DEF Uploads, Unborn
  <2>2. CASE Clears(m, in, p)
    BY <2>2 DEF Clears
  <2> QED BY <1>2, <2>1, <2>2 DEF Promised
<1>6. ASSUME NEW h \in Holdings
      PROVE  /\ "currency" \in DOMAIN doc'[h]
             /\ status[h] # "unborn" => status'[h] # "unborn" /\ doc'[h].currency = doc[h].currency
  <2>1. "currency" \in DOMAIN doc[h]
    BY DEF MergeInv
  <2>2. status[h] # "unborn" => status'[h] # "unborn"
    BY <1>2
  <2>3. CASE h \in DOMAIN p.docs
    BY <1>2, <1>5, <2>2, <2>3
  <2>4. CASE h \notin DOMAIN p.docs
    BY <1>2, <2>1, <2>2, <2>4
  <2> QED BY <2>3, <2>4
<1> QED BY <1>3, <1>4, <1>6, WritingKeepsPromises

LEMMA InitPromises == Init => MergeInv
<1> SUFFICES ASSUME Init PROVE MergeInv
  OBVIOUS
<1>1. \A c \in Clients : pc[c] = "idle"
  BY DEF Init
<1>2. DOMAIN doc = Holdings /\ \A h \in Holdings : "currency" \in DOMAIN doc[h]
  <2>1. PICK books \in InitialBooks : doc = books.doc
    BY DEF Init
  <2> QED BY <2>1, InitialBooksAreAccepted
<1>3. LinesInv /\ IInv
  BY InitLines, InitIInv
<1>4. TwinInv
  BY <1>1, <1>2, <1>3 DEF TwinInv, Working
<1> QED BY <1>1, <1>2, <1>3, <1>4 DEF MergeInv, Working

LEMMA StepKeepsPromises ==
    ASSUME MergeInv, [Next]_vars
    PROVE  MergeInv'
<1>1. LinesInv' /\ TwinInv'
  BY StepKeepsLines, StepKeepsTwins DEF MergeInv
<1>2. CASE UNCHANGED <<stored, pc, input, plan, missed>>
  <2>1. /\ status' = status /\ ledger' = ledger /\ doc' = doc /\ pc' = pc
        /\ input' = input /\ plan' = plan /\ missed' = missed
    BY <1>2 DEF stored
  <2>2. \A c \in Clients :
           /\ Working(c)' <=> Working(c)
           /\ Promised(missed[c], input[c], plan[c])' <=> Promised(missed[c], input[c], plan[c])
    BY <2>1 DEF Working, Promised, Uploads, Clears
  <2> QED BY <1>1, <2>1, <2>2 DEF MergeInv
<1>3. ASSUME NEW c \in Clients, RollBack(c)
      PROVE  MergeInv'
  <2>1. /\ pc'[c] # "work" /\ UNCHANGED stored
        /\ \A o \in Clients \ {c} : /\ plan'[o] = plan[o] /\ pc'[o] = pc[o]
                                     /\ missed'[o] = missed[o] /\ input'[o] = input[o]
    BY <1>3 DEF RollBack, End, MergeInv, LinesInv, IInv
  <2> QED BY <1>1, <2>1, QuietKeepsPromises
<1>4. ASSUME NEW c \in Clients, NEW in \in Inputs, in.kind # "drop",
             Attempt(c, in), UNCHANGED stored, input'[c] = in,
             \A o \in Clients \ {c} : pc'[o] = pc[o] /\ input'[o] = input[o]
      PROVE  MergeInv'
  <2>1. PICK p : /\ plan' = [plan EXCEPT ![c] = p]
                 /\ \A h \in DOMAIN p.docs : h \in Holdings /\ "currency" \in DOMAIN p.docs[h]
                 /\ ~p.refused => Promised({}, in, p)
    BY <1>4, AttemptPromises
  <2>2. /\ plan'[c] = p /\ missed'[c] = {}
        /\ \A o \in Clients \ {c} : plan'[o] = plan[o] /\ missed'[o] = missed[o]
    BY <1>4, <2>1 DEF Attempt, MergeInv, LinesInv, IInv
  <2>3. status' = status /\ ledger' = ledger /\ doc' = doc
    BY <1>4 DEF stored
  <2>4. ~p.refused => Promised({}, in, p)'
    BY <2>1, <2>3 DEF Promised, Uploads, Clears
  <2> QED BY <1>1, <1>4, <2>1, <2>2, <2>4, QuietKeepsPromises
<1>5. ASSUME NEW c \in Clients, DropStart(c)
      PROVE  MergeInv'
  <2>1. PICK gone \in Holdings : /\ status' = [status EXCEPT ![gone] = "dropped"]
                                 /\ Written(c, {HoldingDoc(gone)})
    BY <1>5, KnownRequests DEF DropStart
  <2>2. /\ ledger' = ledger /\ doc' = doc /\ pc'[c] # "work"
        /\ \A o \in Clients \ {c} : plan'[o] = plan[o] /\ pc'[o] = pc[o] /\ input'[o] = input[o]
    BY <1>5 DEF DropStart, MergeInv, LinesInv, IInv
  <2>3. PICK docs : docs = {HoldingDoc(gone)}
    OBVIOUS
  <2>4. \A h \in Holdings : status'[h] = IF h = gone THEN "dropped" ELSE status[h]
    BY <2>1 DEF MergeInv, LinesInv, IInv
  <2>5. \A h \in Holdings : "currency" \in DOMAIN doc[h]
    BY DEF MergeInv
  <2> QED BY <1>1, <2>1, <2>2, <2>3, <2>4, <2>5, WritingKeepsPromises
<1>6. ASSUME NEW c \in Clients, Cascade(c)
      PROVE  MergeInv'
  <2>1. PICK docs, gone : /\ Written(c, docs) /\ status[gone] = "dropped"
                          /\ ledger' = [ledger EXCEPT ![gone] = <<>>]
    BY <1>6 DEF Cascade, MergeInv, LinesInv, IInv
  <2>2. /\ status' = status /\ doc' = doc /\ pc'[c] # "work"
        /\ \A o \in Clients \ {c} : plan'[o] = plan[o] /\ pc'[o] = pc[o] /\ input'[o] = input[o]
    BY <1>6 DEF Cascade, End, MergeInv, LinesInv, IInv
  <2>3. \A h \in Holdings : status'[h] # "dropped" => ledger'[h] = ledger[h]
    BY <2>1, <2>2 DEF MergeInv, LinesInv, IInv
  <2>4. \A h \in Holdings : "currency" \in DOMAIN doc[h]
    BY DEF MergeInv
  <2> QED BY <1>1, <2>1, <2>2, <2>3, <2>4, WritingKeepsPromises
<1>7. ASSUME NEW c \in Clients, Begin(c)
      PROVE  MergeInv'
  <2>1. PICK in \in Inputs : /\ in.kind # "drop" /\ Attempt(c, in)
                             /\ input' = [input EXCEPT ![c] = in]
    BY <1>7 DEF Begin
  <2>2. /\ UNCHANGED stored /\ input'[c] = in
        /\ \A o \in Clients \ {c} : pc'[o] = pc[o] /\ input'[o] = input[o]
    BY <1>7, <2>1 DEF Begin, MergeInv, LinesInv, IInv
  <2> QED BY <1>4, <2>1, <2>2
<1>8. ASSUME NEW c \in Clients, Retry(c)
      PROVE  MergeInv'
  <2>1. PICK in : in = input[c]
    OBVIOUS
  <2>2. /\ in \in Inputs /\ in.kind # "drop" /\ Attempt(c, in)
        /\ UNCHANGED stored /\ input'[c] = in
        /\ \A o \in Clients \ {c} : pc'[o] = pc[o] /\ input'[o] = input[o]
    BY <1>8, <2>1 DEF Retry, MergeInv, LinesInv, Working
  <2> QED BY <1>4, <2>2
<1>9. ASSUME NEW c \in Clients, Refuse(c) \/ GiveUp(c) \/ Abort(c)
      PROVE  MergeInv'
  BY <1>3, <1>9 DEF Refuse, GiveUp, Abort, RollBack
<1>10. CASE UNCHANGED vars
  BY <1>2, <1>10 DEF vars, stored
<1>11. ASSUME NEW c \in Clients, Expire(c)
       PROVE  MergeInv'
  BY <1>2, <1>11 DEF Expire
<1>12. ASSUME NEW c \in Clients, Commit(c)
       PROVE  MergeInv'
  BY <1>1, <1>12, CommitKeepsPromises
<1> QED
  BY <1>5, <1>6, <1>7, <1>8, <1>9, <1>10, <1>11, <1>12 DEF Next, Answer

------------------------------------------------------------------------------
(***************************************************************************)
(* The same merge in the words of the promise, whose operators are its     *)
(* own copies of the ones used here.                                       *)
(***************************************************************************)
LEMMA MergedCardinality ==
  ASSUME NEW S
  PROVE  Merged!Cardinality(S) = Cardinality(S)
BY Zenon DEF Cardinality, Merged!Cardinality

LEMMA MergedCopies ==
  ASSUME NEW events, NEW key
  PROVE  Merged!Copies(events, key) = CopiesOf(events, key)
<1>1. \A txn : Merged!Key(txn) = Key(txn)
  BY DEF Merged!Key, Key, Merged!DayOf, DayOf, Merged!SlotsPerDay, SlotsPerDay
<1>2. {k \in DOMAIN events : Merged!Key(events[k]) = key}
         = {k \in DOMAIN events : Key(events[k]) = key}
  BY <1>1
<1> QED BY <1>2, MergedCardinality DEF Merged!Copies, CopiesOf

\* Merging is what the promise says, key by key.
LEMMA MergingMerges ==
  ASSUME NEW in, in.rows \in Seq(ToSet(in.rows)), NEW rows, rows \subseteq DOMAIN in.rows,
         NEW before \in Seq(Transaction), NEW after \in Seq(Transaction),
         Merging(in, rows, before, after)
  PROVE  Merged!Merges(in, rows, before, after)
<1> DEFINE keys == {Key(in.rows[i].txn) : i \in rows} \cup {Key(txn) : txn \in ToSet(before)}
<1>1. \A txn : Merged!Key(txn) = Key(txn)
  BY DEF Merged!Key, Key, Merged!DayOf, DayOf, Merged!SlotsPerDay, SlotsPerDay
<1>2. ASSUME NEW key
      PROVE  /\ CopiesOf(before, key) \in Nat /\ CopiesOf(after, key) \in Nat
             /\ CopiesOf(before, key) # 0 <=> \E txn \in ToSet(before) : Key(txn) = key
             /\ CopiesOf(after, key) # 0 <=> \E txn \in ToSet(after) : Key(txn) = key
  BY KeysHaveCopies DEF ToSet
<1>3. ASSUME NEW key
      PROVE  /\ Cardinality(RowsOf(in, rows, key)) \in Nat
             /\ Cardinality(RowsOf(in, rows, key)) # 0 <=> \E i \in rows : Key(in.rows[i].txn) = key
  <2>1. PICK S : S = RowsOf(in, rows, key)
    OBVIOUS
  <2>2. S \subseteq DOMAIN in.rows
    BY <2>1 DEF RowsOf
  <2>3. IsFiniteSet(S) /\ Cardinality(S) \in Nat
    BY <2>2, PlacesAreFinite
  <2>4. Cardinality(S) = 0 <=> S = {}
    BY <2>3, FS_EmptySet
  <2>5. S = {} <=> ~\E i \in rows : Key(in.rows[i].txn) = key
    BY <2>1 DEF RowsOf
  <2> QED BY <2>1, <2>3, <2>4, <2>5
<1>4. ASSUME NEW key
      PROVE  CopiesOf(after, key) =
                IF CopiesOf(before, key) < Cardinality(RowsOf(in, rows, key))
                THEN Cardinality(RowsOf(in, rows, key)) ELSE CopiesOf(before, key)
  BY DEF Merging
<1>5. ASSUME NEW key
      PROVE  (\E txn \in ToSet(after) : Key(txn) = key) <=> key \in keys
  <2>1. key \in keys <=> \/ \E i \in rows : Key(in.rows[i].txn) = key
                         \/ \E txn \in ToSet(before) : Key(txn) = key
    OBVIOUS
  <2> HIDE DEF keys
  <2>2. PICK a, b, n : a = CopiesOf(after, key) /\ b = CopiesOf(before, key)
                       /\ n = Cardinality(RowsOf(in, rows, key))
    OBVIOUS
  <2>3. a \in Nat /\ b \in Nat /\ n \in Nat /\ a = IF b < n THEN n ELSE b
    BY <1>2, <1>3, <1>4, <2>2
  <2>4. a # 0 <=> b # 0 \/ n # 0
    BY <2>3
  <2> QED BY <1>2, <1>3, <2>1, <2>2, <2>4
<1>6. {Key(txn) : txn \in ToSet(after)} = keys
  <2>1. \A key : key \in {Key(txn) : txn \in ToSet(after)}
                    <=> \E txn \in ToSet(after) : Key(txn) = key
    OBVIOUS
  <2> HIDE DEF keys
  <2> QED BY <1>5, <2>1
<1>7. /\ \A s : Merged!ToSet(s) = ToSet(s)
      /\ \A m, n : Merged!Larger(m, n) = IF m < n THEN n ELSE m
  BY DEF Merged!ToSet, ToSet, Merged!Larger
<1>8. \A key : {i \in rows : Merged!Key(in.rows[i].txn) = key} = RowsOf(in, rows, key)
  BY <1>1 DEF RowsOf
<1>9. {Merged!Key(in.rows[i].txn) : i \in rows}
         \cup {Merged!Key(txn) : txn \in Merged!ToSet(before)} = keys
  BY <1>1, <1>7
<1>10. {Merged!Key(txn) : txn \in Merged!ToSet(after)} = {Key(txn) : txn \in ToSet(after)}
  BY <1>1, <1>7
<1> HIDE DEF keys
<1>11. ASSUME NEW key
       PROVE  Merged!Copies(after, key) =
                 Merged!Larger(Merged!Copies(before, key),
                               Merged!Cardinality({i \in rows : Merged!Key(in.rows[i].txn) = key}))
  BY <1>4, <1>7, <1>8, MergedCopies, MergedCardinality
<1> QED BY <1>6, <1>9, <1>10, <1>11 DEF Merged!Merges

LEMMA NothingMerges ==
  ASSUME NEW in, in.rows \in Seq(ToSet(in.rows)), NEW rows, rows = {}
  PROVE  Merged!Merges(in, rows, <<>>, <<>>)
<1>1. <<>> \in Seq(Transaction) /\ rows \subseteq DOMAIN in.rows
  OBVIOUS
<1>2. Merging(in, rows, <<>>, <<>>)
  <2>1. \A key : RowsOf(in, rows, key) = {}
    BY DEF RowsOf
  <2>2. \A key : CopiesOf(<<>>, key) = 0
    BY FS_EmptySet DEF CopiesOf
  <2> QED BY <2>1, <2>2, FS_EmptySet DEF Merging
<1> QED BY <1>1, <1>2, MergingMerges

\* What NotDividends leaves is what the promise says.
LEMMA DividendsAreLost ==
  ASSUME NEW events \in Seq(Transaction)
  PROVE  /\ NotDividends(events) \in Seq(Transaction)
         /\ Merged!LosesDividends(events, NotDividends(events))
<1> DEFINE kept == {i \in DOMAIN events : events[i].type # "dividend"}
<1>1. PICK rest, m : rest = NotDividends(events) /\ Keeps(m, rest, events, Len(events))
  BY WithoutDividends
<1>2. /\ rest \in Seq(Transaction) /\ Len(rest) \in Nat /\ DOMAIN events = 1..Len(events)
      /\ Len(events) \in Nat
  BY <1>1 DEF Keeps
<1>3. /\ m \in [1..Len(rest) -> kept]
      /\ \A i \in kept : \E a \in 1..Len(rest) : m[a] = i
      /\ \A a, b \in 1..Len(rest) : a < b <=> m[a] < m[b]
      /\ \A a \in 1..Len(rest) : rest[a] = events[m[a]]
  BY <1>1, <1>2 DEF Keeps
<1>4. \A i \in kept : i \in Nat
  BY <1>2
<1> HIDE DEF kept
<1>5. \A a, b \in 1..Len(rest) : m[a] = m[b] => a = b
  <2>1. \A a \in 1..Len(rest) : a \in Int /\ m[a] \in Int
    BY <1>3, <1>4
  <2> QED BY <1>3, <2>1
<1>6. ASSUME NEW n \in 0..Len(rest), NEW S,
             \A i : i \in S <=> \E a \in 1..n : m[a] = i
      PROVE  Cardinality(S) = n
  <2> DEFINE f == [a \in 1..n |-> m[a]]
  <2>1. \A a \in 1..n : a \in 1..Len(rest)
    BY <1>2
  <2>2. f \in [1..n -> S] /\ \A a \in 1..n : f[a] = m[a]
    BY <1>6
  <2> HIDE DEF f
  <2>3. Pairs(f, 1..n, S)
    BY <1>5, <1>6, <2>1, <2>2 DEF Pairs
  <2>4. IsFiniteSet(1..n) /\ Cardinality(1..n) = n
    BY <1>2, FS_Interval
  <2> QED BY <2>3, <2>4, SameSize
<1>7. Cardinality(kept) = Len(rest)
  <2>1. \A i : i \in kept <=> \E a \in 1..Len(rest) : m[a] = i
    BY <1>3
  <2>2. Len(rest) \in 0..Len(rest)
    BY <1>2
  <2> QED BY <1>6, <2>1, <2>2
<1>8. ASSUME NEW i \in kept
      PROVE  rest[Cardinality({j \in kept : j <= i})] = events[i]
  <2>1. PICK a \in 1..Len(rest) : m[a] = i
    BY <1>3
  <2>2. \A b \in 1..Len(rest) : b <= a <=> m[b] <= i
    <3>1. \A b \in 1..Len(rest) : b \in Int /\ m[b] \in Int
      BY <1>3, <1>4
    <3> QED BY <1>3, <2>1, <3>1
  <2>3. \A j : j \in {k \in kept : k <= i} <=> \E b \in 1..a : m[b] = j
    <3>1. \A b : b \in 1..a <=> b \in 1..Len(rest) /\ b <= a
      BY <1>2, <2>1
    <3>2. ASSUME NEW j \in kept, j <= i PROVE \E b \in 1..a : m[b] = j
      <4>1. PICK b \in 1..Len(rest) : m[b] = j
        BY <1>3
      <4> QED BY <2>2, <3>1, <3>2, <4>1
    <3>3. ASSUME NEW b \in 1..a PROVE m[b] \in kept /\ m[b] <= i
      BY <1>3, <2>2, <3>1
    <3> QED BY <3>2, <3>3, Zenon
  <2>4. a \in 0..Len(rest)
    BY <1>2
  <2>5. Cardinality({k \in kept : k <= i}) = a
    BY <1>6, <2>3, <2>4
  <2> QED BY <1>3, <2>1, <2>5
<1>9. Merged!LosesDividends(events, rest)
  BY <1>7, <1>8, MergedCardinality DEF Merged!LosesDividends, kept
<1> QED BY <1>1, <1>2, <1>9

------------------------------------------------------------------------------
(***************************************************************************)
(* The steps, as the promise sees them.                                    *)
(***************************************************************************)
Currency == [h \in Holdings |-> doc[h].currency]
SavedNow == [h \in Holdings |-> IF status[h] = "held" THEN ledger[h] ELSE <<>>]
Changed == [c \in Clients |-> {h \in Holdings : HoldingDoc(h) \in missed[c]}]

LEMMA UploadIsMerged ==
    ASSUME MergeInv, NEW c \in Clients, Commit(c), input[c].kind \in {"trades", "dividends"}
    PROVE  \E in \in Inputs : Merged!Upload(c, in)
<1>1. PICK p, in, m : p = plan[c] /\ in = input[c] /\ m = missed[c]
  OBVIOUS
<1>2. /\ Promised(m, in, p) /\ Known(p) /\ Heals(p)
      /\ \A h \in Holdings :
            /\ status'[h] = IF h \in p.born THEN "held" ELSE status[h]
            /\ doc'[h] = IF h \in DOMAIN p.docs THEN p.docs[h] ELSE doc[h]
            /\ ledger'[h] = After(p, h, ledger[h])
      /\ p.born \subseteq Unborn /\ p.born \subseteq DOMAIN p.docs
      /\ \A h \in DOMAIN p.docs : HoldingDoc(h) \in p.writes
      /\ \A h \in DOMAIN p.events : HoldingDoc(h) \in p.writes
      /\ \A h \in Holdings : HoldingDoc(h) \in p.writes => HoldingDoc(h) \notin m
  BY <1>1, CommitWritesItsDocs DEF MergeInv, LinesInv
<1>3. PICK owner : Uploads(m, in, p, owner)
  BY <1>1, <1>2 DEF Promised
<1>4. /\ status \in [Holdings -> {"unborn", "held", "dropped"}]
      /\ \A h \in Holdings : /\ ledger[h] \in Seq(Transaction)
                             /\ status[h] = "unborn" => ledger[h] = <<>>
      /\ in \in Inputs /\ in.kind \in {"trades", "dividends"}
  BY <1>1, CommitWritesItsDocs DEF MergeInv, LinesInv, IInv
<1>5. in.rows \in Seq(ToSet(in.rows))
  BY <1>4, SheetsAreRows
<1> DEFINE owners == {owner[name] : name \in SheetNames(in)}
           born == {h \in owners : status[h] = "unborn"}
<1>6. born = p.born
  <2>1. \A name \in SheetNames(in) : owner[name] \in p.born \/ status[owner[name]] # "unborn"
    BY <1>3 DEF Uploads
  <2>2. \A h \in p.born : \E name \in SheetNames(in) : owner[name] = h
    BY <1>3 DEF Uploads
  <2>3. \A h \in p.born : status[h] = "unborn"
    BY <1>2 DEF Unborn
  <2> QED BY <2>1, <2>2, <2>3
<1>7. ASSUME NEW h \in owners
      PROVE  /\ status[h] # "dropped" \/ HoldingDoc(h) \in m
             /\ doc'[h].currency = in.currency
  <2>1. PICK name \in SheetNames(in) : h = owner[name]
    OBVIOUS
  <2>2. h \in Holdings
    BY <1>3, <2>1 DEF Uploads
  <2>3. CASE h \in p.born
    <3>1. p.docs[h].currency = in.currency
      BY <1>3, <2>3 DEF Uploads
    <3>2. status[h] = "unborn"
      BY <1>2, <2>3 DEF Unborn
    <3> QED BY <1>2, <2>2, <2>3, <3>1, <3>2
  <2>4. CASE h \notin p.born
    <3>1. /\ doc[h].currency = in.currency
          /\ status[h] = "held" \/ HoldingDoc(h) \in m
      BY <1>3, <2>1, <2>4 DEF Uploads
    <3>2. h \in DOMAIN p.docs => p.docs[h].currency = doc[h].currency
      BY <1>3, <2>4 DEF Uploads
    <3> QED BY <1>2, <2>2, <3>1, <3>2
  <2> QED BY <2>3, <2>4
<1>8. \A h \in p.born : \E name \in in.create : {n \in SheetNames(in) : owner[n] = h} = {name}
  BY <1>3 DEF Uploads
<1>9. ASSUME NEW h \in Holdings
      PROVE  \/ Merged!Merges(in, Merged!Part(in, owner, h, SavedNow[h]), SavedNow[h], SavedNow'[h])
             \/ HoldingDoc(h) \in m /\ SavedNow'[h] = SavedNow[h]
  <2>1. /\ SavedNow[h] = IF status[h] = "held" THEN ledger[h] ELSE <<>>
        /\ SavedNow'[h] = IF status'[h] = "held" THEN After(p, h, ledger[h]) ELSE <<>>
    BY <1>2 DEF SavedNow
  <2>2. After(p, h, ledger[h]) \in Seq(Transaction)
    BY <1>2, <1>4, PlansMoveNoOtherLine
  <2>3. CASE HoldingDoc(h) \in m
    <3>1. h \notin DOMAIN p.events /\ h \notin p.born /\ p.cleared = {}
      BY <1>2, <1>3, <2>3 DEF Uploads
    <3>2. After(p, h, ledger[h]) = ledger[h] /\ status'[h] = status[h]
      BY <1>2, <3>1 DEF After
    <3> QED BY <2>1, <2>3, <3>2
  <2>4. CASE HoldingDoc(h) \notin m /\ status[h] # "dropped" /\ status'[h] = "held"
    <3>1. SavedNow[h] = ledger[h] /\ SavedNow'[h] = After(p, h, ledger[h])
      BY <1>4, <2>1, <2>4
    <3>2. Merging(in, Merged!Part(in, owner, h, ledger[h]), ledger[h], After(p, h, ledger[h]))
      BY <1>3, <2>4 DEF Uploads
    <3>3. Merged!Part(in, owner, h, ledger[h]) \subseteq DOMAIN in.rows
      BY DEF Merged!Part
    <3>4. Merged!Merges(in, Merged!Part(in, owner, h, ledger[h]), ledger[h], After(p, h, ledger[h]))
      BY <1>4, <1>5, <2>2, <3>2, <3>3, MergingMerges
    <3> QED BY <3>1, <3>4
  <2>5. CASE HoldingDoc(h) \notin m /\ (status[h] = "dropped" \/ status'[h] # "held")
    <3>1. SavedNow[h] = <<>> /\ SavedNow'[h] = <<>> /\ status[h] # "held" /\ h \notin p.born
      BY <1>2, <1>4, <2>1, <2>5 DEF Unborn
    <3>2. \A name \in SheetNames(in) : owner[name] # h
      BY <1>3, <2>5, <3>1 DEF Uploads
    <3>3. Merged!Part(in, owner, h, SavedNow[h]) = {}
      BY <3>2 DEF Merged!Part, SheetNames
    <3> QED BY <1>5, <3>1, <3>3, NothingMerges
  <2> QED BY <2>3, <2>4, <2>5
<1>10. ASSUME NEW h \in Held
       PROVE  doc'[h].currency = doc[h].currency
  <2>1. h \in Holdings /\ h \notin p.born
    BY <1>2 DEF Held, Unborn
  <2>2. h \in DOMAIN p.docs => p.docs[h].currency = doc[h].currency
    BY <1>3, <2>1 DEF Uploads
  <2> QED BY <1>2, <2>1, <2>2
<1>11. status' = [h \in Holdings |-> IF h \in born THEN "held" ELSE status[h]]
  BY <1>1, <1>6 DEF Commit, Apply
<1>12. Merged!SheetNames(in) = SheetNames(in) /\ owner \in [SheetNames(in) -> Holdings]
  BY <1>3 DEF Uploads, Merged!SheetNames, SheetNames
<1>13. \A h \in owners : h \in Holdings
  BY <1>3 DEF Uploads
<1>14. /\ \A h : h \in Changed[c] <=> h \in Holdings /\ HoldingDoc(h) \in m
       /\ \A h \in Holdings : Currency[h] = doc[h].currency /\ Currency'[h] = doc'[h].currency
  BY <1>1 DEF Changed, Currency
<1>15. /\ \A h \in owners : /\ status[h] # "dropped" \/ h \in Changed[c]
                            /\ Currency'[h] = in.currency
       /\ \A h \in born : \E name \in in.create : {n \in SheetNames(in) : owner[n] = h} = {name}
       /\ \A h \in Holdings :
             \/ Merged!Merges(in, Merged!Part(in, owner, h, SavedNow[h]), SavedNow[h], SavedNow'[h])
             \/ h \in Changed[c] /\ SavedNow'[h] = SavedNow[h]
  BY <1>6, <1>7, <1>8, <1>9, <1>13, <1>14
<1>16. \A h \in Held : Currency'[h] = Currency[h]
  BY <1>10, <1>14 DEF Held
<1>17. Merged!Upload(c, in)
  <2>1. Merged!Held = Held
    BY DEF Merged!Held, Held
  <2>2. \A h : Merged!LeftAlone(c, h) <=> h \in Changed[c] /\ SavedNow'[h] = SavedNow[h]
    BY DEF Merged!LeftAlone, Changed, SavedNow
  <2> DEFINE names == Merged!SheetNames(in)
             Body(o) ==
               LET os == {o[name] : name \in names}
                   bs == {h \in os : status[h] = "unborn"}
               IN  /\ \A h \in os : /\ status[h] # "dropped" \/ h \in Changed[c]
                                    /\ Currency'[h] = in.currency
                   /\ \A h \in bs : \E name \in in.create : {n \in names : o[n] = h} = {name}
                   /\ status' = [h \in Holdings |-> IF h \in bs THEN "held" ELSE status[h]]
                   /\ \A h \in Holdings :
                         \/ Merged!Merges(in, Merged!Part(in, o, h, SavedNow[h]),
                                          SavedNow[h], SavedNow'[h])
                         \/ Merged!LeftAlone(c, h)
  <2>3. Merged!Upload(c, in) <=>
          /\ in.kind \in {"trades", "dividends"}
          /\ \E o \in [names -> Holdings] : Body(o)
          /\ \A h \in Merged!Held : Currency'[h] = Currency[h]
    BY DEF Merged!Upload, Changed, SavedNow, Currency
  <2>4. names = SheetNames(in)
    BY <1>12
  <2> HIDE DEF names
  <2>5. Body(owner)
    BY <1>11, <1>15, <2>2, <2>4
  <2> HIDE DEF Body
  <2>6. owner \in [names -> Holdings]
    BY <1>12, <2>4
  <2>7. \E o \in [names -> Holdings] : Body(o)
    BY <2>5, <2>6
  <2>8. \A h \in Merged!Held : Currency'[h] = Currency[h]
    BY <1>16, <2>1
  <2>9. in.kind \in {"trades", "dividends"}
    BY <1>4
  <2> QED BY <2>3, <2>7, <2>8, <2>9
<1> QED BY <1>4, <1>17

LEMMA ClearIsMerged ==
    ASSUME MergeInv, NEW c \in Clients, Commit(c), input[c].kind = "clear"
    PROVE  \E in \in Inputs : Merged!Clear(c, in)
<1>1. PICK p, in, m : p = plan[c] /\ in = input[c] /\ m = missed[c]
  OBVIOUS
<1>2. /\ Promised(m, in, p)
      /\ \A h \in Holdings :
            /\ status'[h] = IF h \in p.born THEN "held" ELSE status[h]
            /\ doc'[h] = IF h \in DOMAIN p.docs THEN p.docs[h] ELSE doc[h]
            /\ ledger'[h] = After(p, h, ledger[h])
      /\ \A h \in p.cleared : HoldingDoc(h) \in p.writes \/ status[h] = "dropped"
      /\ \A h \in Holdings : HoldingDoc(h) \in p.writes => HoldingDoc(h) \notin m
  BY <1>1, CommitWritesItsDocs
<1>3. Clears(m, in, p)
  BY <1>1, <1>2 DEF Promised
<1>4. /\ status \in [Holdings -> {"unborn", "held", "dropped"}]
      /\ \A h \in Holdings : ledger[h] \in Seq(Transaction)
      /\ in \in Inputs /\ in.kind = "clear"
      /\ DOMAIN doc = Holdings
  BY <1>1, CommitWritesItsDocs DEF MergeInv, LinesInv, IInv, TwinInv
<1>5. status' = status /\ Currency' = Currency
  <2>1. p.born = {} /\ DOMAIN p.docs = {}
    BY <1>3 DEF Clears
  <2>2. status' = [h \in Holdings |-> status[h]]
    BY <1>1, <2>1 DEF Commit, Apply
  <2>3. \A h \in Holdings : doc'[h] = doc[h]
    BY <1>2, <2>1
  <2>4. status' = status
    BY <1>4, <2>2
  <2> QED BY <2>3, <2>4 DEF Currency
<1>6. ASSUME NEW h \in Holdings
      PROVE  \/ IF Currency[h] = in.currency THEN Merged!LosesDividends(SavedNow[h], SavedNow'[h])
                                             ELSE SavedNow'[h] = SavedNow[h]
             \/ HoldingDoc(h) \in m /\ SavedNow'[h] = SavedNow[h]
  <2>1. /\ SavedNow[h] = IF status[h] = "held" THEN ledger[h] ELSE <<>>
        /\ SavedNow'[h] = IF status[h] = "held" THEN After(p, h, ledger[h]) ELSE <<>>
        /\ Currency[h] = doc[h].currency
    BY <1>2, <1>5 DEF SavedNow, Currency
  <2>2. CASE status[h] # "held"
    <3>1. SavedNow[h] = <<>> /\ SavedNow'[h] = <<>>
      BY <2>1, <2>2
    <3>2. Merged!LosesDividends(<<>>, <<>>)
      <4>1. {i \in DOMAIN <<>> : <<>>[i].type # "dividend"} = {} /\ Len(<<>>) = 0
        OBVIOUS
      <4>2. Merged!Cardinality({}) = 0
        BY MergedCardinality, FS_EmptySet
      <4> QED BY <4>1, <4>2 DEF Merged!LosesDividends
    <3> QED BY <3>1, <3>2
  <2>3. CASE status[h] = "held" /\ HoldingDoc(h) \notin m
    <3>1. After(p, h, ledger[h]) =
             IF doc[h].currency = in.currency THEN NotDividends(ledger[h]) ELSE ledger[h]
      BY <1>3, <2>3 DEF Clears
    <3>2. Merged!LosesDividends(ledger[h], NotDividends(ledger[h]))
      BY <1>4, DividendsAreLost
    <3> QED BY <2>1, <2>3, <3>1, <3>2
  <2>4. CASE status[h] = "held" /\ HoldingDoc(h) \in m
    <3>1. h \notin p.cleared /\ DOMAIN p.events = {}
      BY <1>2, <1>3, <2>4 DEF Clears
    <3>2. After(p, h, ledger[h]) = ledger[h]
      BY <3>1 DEF After
    <3> QED BY <2>1, <2>4, <3>2
  <2> QED BY <2>2, <2>3, <2>4
<1>7. Merged!Clear(c, in)
  <2>1. \A h : h \in Changed[c] <=> h \in Holdings /\ HoldingDoc(h) \in m
    BY <1>1 DEF Changed
  <2>2. \A h : Merged!LeftAlone(c, h) <=> h \in Changed[c] /\ SavedNow'[h] = SavedNow[h]
    BY DEF Merged!LeftAlone, Changed, SavedNow
  <2>3. Merged!Clear(c, in) <=>
          /\ in.kind = "clear"
          /\ \A h \in Holdings :
               \/ IF Currency[h] = in.currency THEN Merged!LosesDividends(SavedNow[h], SavedNow'[h])
                                               ELSE SavedNow'[h] = SavedNow[h]
               \/ Merged!LeftAlone(c, h)
          /\ UNCHANGED <<status, Currency>>
    BY DEF Merged!Clear, SavedNow, Currency
  <2> QED BY <1>4, <1>5, <1>6, <2>1, <2>2, <2>3
<1> QED BY <1>4, <1>7

LEMMA DropIsMerged ==
    ASSUME MergeInv, NEW c \in Clients, DropStart(c)
    PROVE  \E in \in Inputs : Merged!Drop(in)
<1>1. PICK in \in Inputs : /\ in.kind = "drop" /\ status[in.holding] = "held"
                           /\ status' = [status EXCEPT ![in.holding] = "dropped"]
  BY DEF DropStart
<1>2. in.holding \in Holdings
  BY <1>1, KnownRequests
<1>3. ledger' = ledger /\ doc' = doc
  BY DEF DropStart
<1>4. status \in [Holdings -> {"unborn", "held", "dropped"}]
  BY DEF MergeInv, LinesInv, IInv
<1>5. SavedNow' = [SavedNow EXCEPT ![in.holding] = <<>>]
  <2>1. \A h \in Holdings : status'[h] = IF h = in.holding THEN "dropped" ELSE status[h]
    BY <1>1, <1>4
  <2> QED BY <1>2, <1>3, <2>1 DEF SavedNow
<1>6. Currency' = Currency
  BY <1>3 DEF Currency
<1>7. Merged!Drop(in) <=>
          /\ in.kind = "drop"
          /\ status[in.holding] = "held"
          /\ status' = [status EXCEPT ![in.holding] = "dropped"]
          /\ SavedNow' = [SavedNow EXCEPT ![in.holding] = <<>>]
          /\ UNCHANGED Currency
  BY DEF Merged!Drop, SavedNow, Currency
<1> QED BY <1>1, <1>5, <1>6, <1>7

\* A holding's events go only when the holding has gone.
LEMMA CascadeStutters ==
    ASSUME MergeInv, NEW c \in Clients, Cascade(c)
    PROVE  status' = status /\ Currency' = Currency /\ SavedNow' = SavedNow
<1>1. PICK gone : /\ status[gone] = "dropped" /\ ledger' = [ledger EXCEPT ![gone] = <<>>]
  BY DEF Cascade, MergeInv, LinesInv, IInv
<1>2. status' = status /\ doc' = doc /\ DOMAIN ledger = Holdings
  BY DEF Cascade, MergeInv, LinesInv, IInv
<1>3. \A h \in Holdings : status[h] = "held" => ledger'[h] = ledger[h]
  BY <1>1, <1>2
<1>4. SavedNow' = SavedNow
  BY <1>2, <1>3 DEF SavedNow
<1>5. Currency' = Currency
  BY <1>2 DEF Currency
<1> QED BY <1>2, <1>4, <1>5

\* For every set of clients, holdings, sheets and portfolios: whatever overlaps, is
\* retried or is abandoned, each upload, "delete all" and deletion takes effect in
\* one step, and an upload merges every ledger with the sheet, so that each event
\* ends up as often as the fuller of the two has it.
THEOREM ImportsMergeLedgers == Spec => ImplementsMergedLedger
<1>1. Init => MergeInv
  BY InitPromises
<1>2. MergeInv /\ [Next]_vars => MergeInv'
  BY StepKeepsPromises
<1>3. Init => Merged!Init
  <2> SUFFICES ASSUME Init PROVE Merged!Init
    OBVIOUS
  <2>1. PICK books \in InitialBooks :
           status = books.status /\ doc = books.doc /\ ledger = books.ledger
    BY DEF Init
  <2>2. /\ Currency = [h \in Holdings |-> books.doc[h].currency]
        /\ SavedNow = [h \in Holdings |-> IF books.status[h] = "held" THEN books.ledger[h] ELSE <<>>]
    BY <2>1 DEF Currency, SavedNow
  <2> QED BY <2>1, <2>2 DEF Merged!Init, Currency, SavedNow
<1>4. MergeInv /\ [Next]_vars => [Merged!Next]_(Merged!vars)
  <2> SUFFICES ASSUME MergeInv, [Next]_vars
               PROVE  Merged!Next \/ (status' = status /\ Currency' = Currency /\ SavedNow' = SavedNow)
    BY DEF Merged!vars, Currency, SavedNow
  <2>1. CASE UNCHANGED stored
    BY <2>1 DEF stored, Currency, SavedNow
  <2>2. ASSUME NEW c \in Clients, Commit(c)
        PROVE  Merged!Next
    <3>1. input[c].kind \in {"trades", "dividends", "clear"}
      BY <2>2, KnownRequests, CommitWritesItsDocs DEF MergeInv, LinesInv
    <3>2. CASE input[c].kind = "clear"
      <4>1. PICK in \in Inputs : Merged!Clear(c, in)
        BY <2>2, <3>2, ClearIsMerged
      <4> QED BY <4>1 DEF Merged!Next
    <3>3. CASE input[c].kind \in {"trades", "dividends"}
      <4>1. PICK in \in Inputs : Merged!Upload(c, in)
        BY <2>2, <3>3, UploadIsMerged
      <4> QED BY <4>1 DEF Merged!Next
    <3> QED BY <3>1, <3>2, <3>3
  <2>3. ASSUME NEW c \in Clients, DropStart(c)
        PROVE  Merged!Next
    <3>1. PICK in \in Inputs : Merged!Drop(in)
      BY <2>3, DropIsMerged
    <3> QED BY <3>1 DEF Merged!Next
  <2>4. ASSUME NEW c \in Clients, Cascade(c)
        PROVE  status' = status /\ Currency' = Currency /\ SavedNow' = SavedNow
    BY <2>4, CascadeStutters
  <2>5. ASSUME NEW c \in Clients,
               Begin(c) \/ Retry(c) \/ Refuse(c) \/ GiveUp(c) \/ Abort(c) \/ Expire(c)
        PROVE  UNCHANGED stored
    BY <2>5 DEF Begin, Retry, Refuse, GiveUp, Abort, Expire, RollBack
  <2>6. CASE UNCHANGED vars
    BY <2>1, <2>6 DEF vars, stored
  <2> QED BY <2>1, <2>2, <2>3, <2>4, <2>5, <2>6 DEF Next, Answer
<1> QED BY <1>1, <1>2, <1>3, <1>4, PTL DEF Spec, ImplementsMergedLedger, Merged!Spec

------------------------------------------------------------------------------
(***************************************************************************)
(* The monthly chart.  A sum of fractions depends on its terms alone, and  *)
(* is never negative when they are not; the cost of the shares a ledger    *)
(* leaves never is (CostHeld).  So a column whose months neither hold      *)
(* money nor change held none at the end of the year before.               *)
(***************************************************************************)
FractionSums(v, base, g) ==
    g = [t \in SUBSET base |-> IF t = {} THEN Zero ELSE Plus(g[t \ {Pick(t)}], v[Pick(t)])]

LEMMA FractionSumsExist ==
  ASSUME NEW v, NEW base, IsFiniteSet(base)
  PROVE  \E g : FractionSums(v, base, g)
<1> DEFINE Small(n) == {t \in SUBSET base : Cardinality(t) <= n}
           Upto(n, g) == g = [t \in Small(n) |->
                                IF t = {} THEN Zero ELSE Plus(g[t \ {Pick(t)}], v[Pick(t)])]
           S == {n \in Nat : \E g : Upto(n, g)}
<1>a. \A t \in SUBSET base : IsFiniteSet(t) /\ Cardinality(t) \in Nat
  BY FS_Subset, FS_CardinalityType, Zenon
<1>b. {} \in SUBSET base /\ Cardinality({}) = 0
  BY FS_EmptySet, Zenon
<1>1. 0 \in S
  <2> DEFINE g == [t \in Small(0) |-> Zero]
  <2>1. \A t \in Small(0) : t = {}
    <3>1. \A t \in SUBSET base : Cardinality(t) <= 0 => Cardinality(t) = 0
      BY <1>a
    <3>2. QED
      BY <1>a, <3>1, FS_EmptySet, Zenon
  <2>2. Upto(0, g)
    BY <2>1
  <2>3. QED
    BY <2>2, Zenon
<1>2. ASSUME NEW n \in Nat, n \in S PROVE n + 1 \in S
  <2>1. PICK f : Upto(n, f)
    BY <1>2
  <2> DEFINE g == [t \in Small(n + 1) |->
                      IF t \in Small(n) THEN f[t] ELSE Plus(f[t \ {Pick(t)}], v[Pick(t)])]
             h == [t \in Small(n + 1) |->
                      IF t = {} THEN Zero ELSE Plus(g[t \ {Pick(t)}], v[Pick(t)])]
  <2>2. ASSUME NEW t \in Small(n + 1) PROVE g[t] = h[t]
    <3>1. CASE t = {}
      <4>1. t \in Small(n)
        BY <1>b, <3>1
      <4>2. QED
        BY <2>1, <3>1, <4>1
    <3>2. CASE t # {}
      <4>1. /\ Cardinality(t) \in Nat \ {0} /\ Cardinality(t) <= n + 1
            /\ Cardinality(t \ {Pick(t)}) = Cardinality(t) - 1
        BY <1>a, <3>2, PickedIsRemoved
      <4>2. t \ {Pick(t)} \in Small(n) /\ t \ {Pick(t)} \in Small(n + 1)
        BY <4>1
      <4>3. g[t \ {Pick(t)}] = f[t \ {Pick(t)}]
        BY <4>2
      <4>4. t \in Small(n) => f[t] = Plus(f[t \ {Pick(t)}], v[Pick(t)])
        BY <2>1, <3>2
      <4>5. QED
        BY <3>2, <4>3, <4>4
    <3>3. QED
      BY <3>1, <3>2
  <2>3. Upto(n + 1, g)
    <3>1. g = h
      BY <2>2
    <3>2. QED
      BY <3>1, Zenon
  <2> HIDE DEF g
  <2>4. n + 1 \in Nat
    OBVIOUS
  <2>5. QED
    BY <2>3, <2>4, Zenon
<1>3. Cardinality(base) \in S
  <2>1. Cardinality(base) \in Nat
    BY FS_CardinalityType, Zenon
  <2> HIDE DEF S
  <2>2. QED
    BY <1>1, <1>2, <2>1, Induction
<1>4. PICK g : Upto(Cardinality(base), g)
  BY <1>3
<1>5. Small(Cardinality(base)) = SUBSET base
  BY FS_Subset, Zenon
<1>6. QED
  BY <1>4, <1>5, Zenon DEF FractionSums

LEMMA SumIsAFractionSum ==
  ASSUME NEW v, NEW base, IsFiniteSet(base)
  PROVE  \E g : FractionSums(v, base, g) /\ SumOfFractions(v, base) = g[base]
<1> DEFINE iter == CHOOSE g : g = [t \in SUBSET base |->
                      IF t = {} THEN Zero ELSE Plus(g[t \ {Pick(t)}], v[Pick(t)])]
<1>1. PICK g : FractionSums(v, base, g)
  BY FractionSumsExist, Zenon
<1>2. FractionSums(v, base, iter)
  BY <1>1, Zenon DEF FractionSums
<1>3. SumOfFractions(v, base) = iter[base]
  BY Zenon DEF SumOfFractions, FoldSet, MapThenFoldSet, Pick
<1>4. QED
  BY <1>2, <1>3, Zenon

LEMMA SameFractionSums ==
  ASSUME NEW v, NEW w, NEW base, IsFiniteSet(base), \A h \in base : v[h] = w[h]
  PROVE  SumOfFractions(v, base) = SumOfFractions(w, base)
<1>1. PICK f : FractionSums(v, base, f) /\ SumOfFractions(v, base) = f[base]
  BY SumIsAFractionSum, Zenon
<1>2. PICK g : FractionSums(w, base, g) /\ SumOfFractions(w, base) = g[base]
  BY SumIsAFractionSum, Zenon
<1>3. \A t \in SUBSET base : t # {} => Pick(t) \in base
  <2>1. \A t \in SUBSET base : t # {} => Pick(t) \in t
    BY Zenon DEF Pick
  <2>2. QED
    BY <2>1
<1>4. \A t \in SUBSET base :
         (IF t = {} THEN Zero ELSE Plus(f[t \ {Pick(t)}], v[Pick(t)]))
         = (IF t = {} THEN Zero ELSE Plus(f[t \ {Pick(t)}], w[Pick(t)]))
  BY <1>3, Zenon
<1>5. FractionSums(w, base, f)
  BY <1>1, <1>4, Zenon DEF FractionSums
<1> DEFINE S == {n \in Nat : \A t \in SUBSET base : Cardinality(t) = n => f[t] = g[t]}
<1>a. \A t \in SUBSET base : IsFiniteSet(t) /\ Cardinality(t) \in Nat
  BY FS_Subset, FS_CardinalityType, Zenon
<1>6. 0 \in S
  <2>1. \A t \in SUBSET base : Cardinality(t) = 0 => t = {}
    BY <1>a, FS_EmptySet, Zenon
  <2>2. {} \in SUBSET base
    OBVIOUS
  <2>3. f[{}] = Zero /\ g[{}] = Zero
    BY <1>2, <1>5, <2>2, Zenon DEF FractionSums
  <2>4. QED
    BY <2>1, <2>3
<1>7. ASSUME NEW n \in Nat, n \in S PROVE n + 1 \in S
  <2>1. ASSUME NEW t \in SUBSET base, Cardinality(t) = n + 1 PROVE f[t] = g[t]
    <3>1. t # {}
      BY <2>1, FS_EmptySet
    <3>2. Cardinality(t \ {Pick(t)}) = Cardinality(t) - 1
      BY <1>a, <3>1, PickedIsRemoved, Zenon
    <3>3. t \ {Pick(t)} \in SUBSET base /\ Cardinality(t \ {Pick(t)}) = n
      BY <2>1, <3>2
    <3>4. f[t \ {Pick(t)}] = g[t \ {Pick(t)}]
      BY <1>7, <3>3
    <3>5. /\ f[t] = Plus(f[t \ {Pick(t)}], w[Pick(t)])
          /\ g[t] = Plus(g[t \ {Pick(t)}], w[Pick(t)])
      BY <1>2, <1>5, <3>1, Zenon DEF FractionSums
    <3>6. QED
      BY <3>4, <3>5, Zenon
  <2>2. n + 1 \in Nat
    OBVIOUS
  <2>3. QED
    BY <2>1, <2>2, Zenon
<1>8. Cardinality(base) \in S
  <2>1. Cardinality(base) \in Nat
    BY <1>a
  <2> HIDE DEF S
  <2>2. QED
    BY <1>6, <1>7, <2>1, Induction
<1>9. base \in SUBSET base
  OBVIOUS
<1>10. QED
  BY <1>1, <1>2, <1>8, <1>9, Zenon

LEMMA FractionSumSign ==
  ASSUME NEW v, NEW base, IsFiniteSet(base), \A h \in base : Reduced(v[h]) /\ v[h][1] >= 0
  PROVE  Reduced(SumOfFractions(v, base)) /\ SumOfFractions(v, base)[1] >= 0
<1> DEFINE NotBelow(x) == Reduced(x) /\ x[1] >= 0
<1>1. PICK g : FractionSums(v, base, g) /\ SumOfFractions(v, base) = g[base]
  BY SumIsAFractionSum, Zenon
<1> DEFINE S == {n \in Nat : \A t \in SUBSET base : Cardinality(t) = n => NotBelow(g[t])}
<1>a. \A t \in SUBSET base : IsFiniteSet(t) /\ Cardinality(t) \in Nat
  BY FS_Subset, FS_CardinalityType, Zenon
<1>b. \A x, y : NotBelow(x) /\ NotBelow(y) => NotBelow(Plus(x, y))
  <2>1. ASSUME NEW x, NEW y, NotBelow(x), NotBelow(y) PROVE NotBelow(Plus(x, y))
    <3>1. x \in Rational /\ y \in Rational
      BY <2>1 DEF Reduced
    <3>2. QED
      BY <2>1, <3>1, NotNegative, ResultsAreReduced
  <2>2. QED
    BY <2>1
<1>2. 0 \in S
  <2>1. \A t \in SUBSET base : Cardinality(t) = 0 => t = {}
    BY <1>a, FS_EmptySet, Zenon
  <2>2. {} \in SUBSET base
    OBVIOUS
  <2>3. g[{}] = Zero
    BY <1>1, <2>2, Zenon DEF FractionSums
  <2>4. NotBelow(Zero)
    BY WholesAreReduced DEF Zero, Whole
  <2>5. QED
    BY <2>1, <2>3, <2>4
<1>3. ASSUME NEW n \in Nat, n \in S PROVE n + 1 \in S
  <2>1. ASSUME NEW t \in SUBSET base, Cardinality(t) = n + 1 PROVE NotBelow(g[t])
    <3>1. t # {}
      BY <2>1, FS_EmptySet
    <3>2. Pick(t) \in t /\ Cardinality(t \ {Pick(t)}) = Cardinality(t) - 1
      BY <1>a, <3>1, PickedIsRemoved, Zenon
    <3>3. t \ {Pick(t)} \in SUBSET base /\ Cardinality(t \ {Pick(t)}) = n
      BY <2>1, <3>2
    <3>4. NotBelow(g[t \ {Pick(t)}]) /\ NotBelow(v[Pick(t)])
      BY <1>3, <3>2, <3>3
    <3>5. g[t] = Plus(g[t \ {Pick(t)}], v[Pick(t)])
      BY <1>1, <3>1, Zenon DEF FractionSums
    <3> HIDE DEF NotBelow
    <3>6. QED
      BY <1>b, <3>4, <3>5, Zenon
  <2>2. n + 1 \in Nat
    OBVIOUS
  <2> HIDE DEF NotBelow
  <2>3. QED
    BY <2>1, <2>2, Zenon
<1>4. Cardinality(base) \in S
  <2>1. Cardinality(base) \in Nat
    BY <1>a
  <2> HIDE DEF S
  <2>2. QED
    BY <1>2, <1>3, <2>1, Induction
<1>5. base \in SUBSET base
  OBVIOUS
<1>6. QED
  BY <1>1, <1>4, <1>5

\* A year that has begun has a day before it and a month that has begun.
LEMMA YearHasMonths ==
  ASSUME NEW year \in 1..((MonthOf(Today) - 1) \div MonthsPerYear + 1)
  PROVE  LET days == monthEnds(year, Today)
         IN  \E n \in Nat : n >= 2 /\ DOMAIN days = 1..n
<1> DEFINE before == (year - 1) * MonthsPerYear
           begun == {i \in 1..MonthsPerYear : LastDayOf(before + i - 1) + 1 <= Today}
           months == [i \in 1..Cardinality(begun) |->
                         IF LastDayOf(before + i) > Today THEN Today ELSE LastDayOf(before + i)]
<1>1. Today \in Nat
  BY RowsArePast
<1>2. 1 \in begun
  <2> DEFINE m == (Today + 1) \div 2
  <2>1. MonthOf(Today) = m /\ MonthsPerYear = 2 /\ m \in Int /\ 2 * m <= Today + 1
    BY <1>1 DEF MonthOf, DaysPerMonth, MonthsPerYear
  <2>2. year \in Int /\ year - 1 <= (m - 1) \div 2
    BY <2>1
  <2>3. 2 * ((m - 1) \div 2) <= m - 1 /\ (m - 1) \div 2 \in Int
    BY <2>1
  <2> HIDE DEF m
  <2>4. 4 * (year - 1) + 1 <= Today
    BY <1>1, <2>1, <2>2, <2>3
  <2>5. LastDayOf(before + 1 - 1) = 4 * (year - 1)
    BY <2>2 DEF LastDayOf, DaysPerMonth, MonthsPerYear
  <2>6. QED
    BY <2>4, <2>5 DEF MonthsPerYear
<1>3. IsFiniteSet(begun)
  <2>1. IsFiniteSet(1..MonthsPerYear)
    <3>1. 1 \in Int /\ MonthsPerYear \in Int
      BY DEF MonthsPerYear
    <3>2. QED
      BY <3>1, FS_Interval
  <2>2. QED
    BY <2>1, FS_Subset
<1> HIDE DEF begun
<1>4. Cardinality(begun) \in Nat /\ Cardinality(begun) # 0
  BY <1>2, <1>3, FS_CardinalityType, FS_EmptySet
<1>5. monthEnds(year, Today) = <<LastDayOf(before)>> \o months
  BY DEF monthEnds, begun
<1>6. /\ year \in Int
      /\ LastDayOf(before) \in Int /\ \A i \in 1..Cardinality(begun) : months[i] \in Int
  BY <1>1 DEF LastDayOf, DaysPerMonth, MonthsPerYear
<1>7. <<LastDayOf(before)>> \in Seq(Int) /\ Len(<<LastDayOf(before)>>) = 1
  BY <1>6
<1>8. months \in Seq(Int) /\ Len(months) = Cardinality(begun)
  BY <1>4, <1>6
<1> HIDE DEF months, before
<1>9. DOMAIN monthEnds(year, Today) = 1..(1 + Cardinality(begun))
  BY <1>4, <1>5, <1>7, <1>8
<1>10. QED
  BY <1>4, <1>9

\* What is invested at the end of a day: the cost of the shares then held.
Basis(hs, day) == [h \in hs |-> CostBasis(RecomputePosition(AsOfLedger(ledger[h], day)))]

LEMMA InvestedIsTheBasis ==
  ASSUME LinesInv, NEW currency, NEW day
  PROVE  LET held == Held \cap Of(currency)
             invested == investedOn(Books, currency, day)
         IN  /\ IsFiniteSet(held)
             /\ invested = SumOfFractions(Basis(Held, day), held)
             /\ Reduced(invested) /\ invested[1] >= 0
<1> DEFINE held == Held \cap Of(currency)
<1>1. /\ Books.status = status /\ Books.doc = doc /\ Books.ledger = ledger
      /\ HeldIn(Books) = Held
  <2>1. status \in [Holdings -> {"unborn", "held", "dropped"}]
    BY DEF LinesInv, IInv
  <2>2. QED
    BY <2>1 DEF Books, HeldIn, Held
<1>2. held = {h \in HeldIn(Books) : Books.doc[h].currency = currency}
  BY <1>1 DEF Held, Of
<1>3. IsFiniteSet(held)
  <2>1. held \subseteq Holdings
    BY DEF Held
  <2>2. QED
    BY <2>1, HoldingsAreFinite, FS_Subset
<1>4. investedOn(Books, currency, day) = SumOfFractions(Basis(Held, day), held)
  BY <1>1, <1>2 DEF investedOn, Basis
<1>5. \A h \in held : Reduced(Basis(Held, day)[h]) /\ Basis(Held, day)[h][1] >= 0
  <2>1. ASSUME NEW h \in held
        PROVE  Reduced(Basis(Held, day)[h]) /\ Basis(Held, day)[h][1] >= 0
    <3>1. ledger[h] \in Seq(Transaction) /\ h \in Held
      BY DEF LinesInv, Held
    <3>2. IsLedger(AsOfLedger(ledger[h], day))
      BY <3>1, SequenceIsALedger, AsOfIsALedger
    <3>3. Basis(Held, day)[h] = CostBasis(RecomputePosition(AsOfLedger(ledger[h], day)))
      BY <3>1 DEF Basis
    <3>4. QED
      BY <3>2, <3>3, CostHeld DEF CostBasis
  <2>2. QED
    BY <2>1
<1> HIDE DEF held
<1>6. QED
  BY <1>3, <1>4, <1>5, FractionSumSign DEF held

\* A column without activity held no money.
LEMMA InactiveIsEmpty ==
  ASSUME NEW n \in Nat, n >= 2, NEW values, DOMAIN values = 1..n, values \in Seq(Rational),
         \A i \in 1..n : Reduced(values[i]) /\ values[i][1] >= 0,
         ~hasActivity(values)
  PROVE  \A i \in 1..n : values[i] = Zero
<1>1. Len(values) = n
  OBVIOUS
<1>2. \A i \in 2..n : ~Positive(values[i]) /\ Minus(values[i], values[i - 1]) = Zero
  BY <1>1 DEF hasActivity
<1>3. \A i \in 2..n : values[i] = Zero
  <2>1. ASSUME NEW i \in 2..n PROVE values[i] = Zero
    <3> DEFINE x == values[i]
    <3>1. Reduced(x) /\ x[1] >= 0 /\ ~(x[1] > 0)
      BY <1>2 DEF Positive
    <3>2. Reduced(Zero) /\ Zero[1] = 0 /\ Zero[2] = 1
      BY WholesAreReduced DEF Zero, Whole
    <3>3. x[1] = 0 /\ x[2] \in Int
      BY <3>1 DEF Reduced, Rational
    <3>4. x[1] * Zero[2] = Zero[1] * x[2]
      BY <3>2, <3>3
    <3> HIDE DEF x
    <3>5. x = Zero
      BY <3>1, <3>2, <3>4, ReducedAreEqual
    <3>6. QED
      BY <3>5 DEF x
  <2>2. QED
    BY <2>1
<1>4. values[1] = Zero
  <2> DEFINE x == values[1]
  <2>1. Reduced(x) /\ x[1] >= 0
    OBVIOUS
  <2>2. Minus(Zero, x) = Zero
    <3>1. 2 \in 2..n /\ 2 - 1 = 1
      OBVIOUS
    <3>2. Minus(values[2], values[1]) = Zero /\ values[2] = Zero
      BY <1>2, <1>3, <3>1
    <3>3. QED
      BY <3>2
  <2>3. Reduced(Zero) /\ Zero[1] = 0 /\ Zero[2] = 1 /\ Zero \in Rational
    BY WholesAreReduced DEF Zero, Whole, Reduced
  <2> HIDE DEF x
  <2>4. x \in Rational /\ x[1] \in Int /\ x[2] \in Int
    BY <2>1 DEF Reduced, Rational
  <2>5. ~(x[1] > 0)
    <3>1. x[1] > 0 => Below(Zero, x)
      BY <2>3, <2>4 DEF Below
    <3>2. x[1] = 0 \/ x[1] > 0
      BY <2>1, <2>4
    <3>3. SUFFICES ASSUME x[1] > 0 PROVE FALSE
      OBVIOUS
    <3>4. x = Plus(Zero, x)
      BY <2>1, <2>3, <2>4, PlusCommutes, ResultsAreReduced
    <3>5. Plus(Minus(Zero, x), x) = Zero
      <4>1. Opposite(x) \in Rational /\ Minus(Zero, x) = Plus(Zero, Opposite(x))
            /\ Minus(x, x) = Plus(x, Opposite(x)) /\ Minus(x, x) = Zero
        BY <2>3, <2>4, MinusIsPlus
      <4>2. Plus(Plus(Zero, Opposite(x)), x) = Plus(Plus(Zero, x), Opposite(x))
        BY <2>3, <2>4, <4>1, PlusExchanges
      <4>3. QED
        BY <3>4, <4>1, <4>2
    <3>6. x = Zero
      BY <2>2, <3>4, <3>5
    <3>7. QED
      BY <2>3, <3>3, <3>6
  <2>6. x[1] * Zero[2] = Zero[1] * x[2]
    BY <2>1, <2>3, <2>4, <2>5
  <2>7. x = Zero
    BY <2>1, <2>3, <2>6, ReducedAreEqual
  <2>8. QED
    BY <2>7 DEF x
<1>5. \A i \in 1..n : i = 1 \/ i \in 2..n
  OBVIOUS
<1>6. QED
  BY <1>3, <1>4, <1>5

\* For every set of clients, holdings and sheets: with nobody at work the monthly
\* chart shows at a month end what the stored row of that day shows as invested,
\* and today what the positions hold; no money is ever negative, so a column it
\* leaves out held none (investment_delta.go:15-20, 73-83).
THEOREM ChartReadsHistoryHolds == Spec => []ChartReadsHistory
<1>1. ASSUME LinesInv PROVE ChartReadsHistory
  <2>1. ASSUME NEW currency \in Currencies,
               NEW year \in 1..((MonthOf(Today) - 1) \div MonthsPerYear + 1)
        PROVE  LET days    == monthEnds(year, Today)
                   figures == Figures(Books, currency, year, Today)
                   held    == Held \cap Of(currency)
                   ahead   == \E h \in held : AsOfLedger(ledger[h], Today) # ledger[h]
                   shown(row) == [h \in held |-> Times(lines[row][h].quantity, lines[row][h].avgCost)]
                   today   == [h \in held |-> CostBasis(position[h])]
               IN  /\ \A i \in DOMAIN days :
                       /\ days[i] \in Rows => figures[i] = SumOfFractions(shown(days[i]), held)
                       /\ days[i] = Today /\ ~ahead => figures[i] = SumOfFractions(today, held)
                   /\ DOMAIN deltaColumns([column \in {currency} |-> figures]) = {}
                          => \A i \in DOMAIN figures : figures[i] = Zero
    <3> DEFINE days == monthEnds(year, Today)
               figures == Figures(Books, currency, year, Today)
               held == Held \cap Of(currency)
               ahead == \E h \in held : AsOfLedger(ledger[h], Today) # ledger[h]
               shown(row) == [h \in held |-> Times(lines[row][h].quantity, lines[row][h].avgCost)]
               today == [h \in held |-> CostBasis(position[h])]
    <3>1. PICK n \in Nat : n >= 2 /\ DOMAIN days = 1..n
      BY YearHasMonths
    <3>2. DOMAIN figures = 1..n /\ \A i \in 1..n : figures[i] = investedOn(Books, currency, days[i])
      BY <3>1 DEF Figures
    <3>3. \A h \in held : /\ h \in Held /\ h \in Holdings /\ status[h] = "held"
                          /\ position[h] = RecomputePosition(ledger[h])
      BY <1>1 DEF Held, LinesInv, IInv, Exact
    <3>4. IsFiniteSet(held)
      BY <1>1, InvestedIsTheBasis
    <3> HIDE DEF figures, days, held
    <3>5. ASSUME NEW i \in DOMAIN days, days[i] \in Rows
          PROVE  figures[i] = SumOfFractions(shown(days[i]), held)
      <4>1. \A h \in held : Basis(Held, days[i])[h] = shown(days[i])[h]
        <5>1. ASSUME NEW h \in held PROVE Basis(Held, days[i])[h] = shown(days[i])[h]
          <6>1. lines[days[i]][h] = LineAsOf(ledger[h], days[i])
            BY <1>1, <3>3, <3>5 DEF LinesInv
          <6>2. QED
            BY <3>3, <6>1 DEF Basis, CostBasis, LineAsOf
        <5>2. QED
          BY <5>1
      <4>2. figures[i] = SumOfFractions(Basis(Held, days[i]), held)
        BY <1>1, <3>1, <3>2, <3>5, InvestedIsTheBasis DEF held
      <4> HIDE DEF shown
      <4>3. SumOfFractions(Basis(Held, days[i]), held) = SumOfFractions(shown(days[i]), held)
        BY <3>4, <4>1, SameFractionSums
      <4>4. QED
        BY <4>2, <4>3
    <3>6. ASSUME NEW i \in DOMAIN days, days[i] = Today, ~ahead
          PROVE  figures[i] = SumOfFractions(today, held)
      <4>1. \A h \in held : Basis(Held, Today)[h] = today[h]
        BY <3>3, <3>6 DEF Basis
      <4>2. figures[i] = SumOfFractions(Basis(Held, Today), held)
        BY <1>1, <3>1, <3>2, <3>6, InvestedIsTheBasis DEF held
      <4> HIDE DEF today
      <4>3. SumOfFractions(Basis(Held, Today), held) = SumOfFractions(today, held)
        BY <3>4, <4>1, SameFractionSums
      <4>4. QED
        BY <4>2, <4>3
    <3>7. ASSUME DOMAIN deltaColumns([column \in {currency} |-> figures]) = {}
          PROVE  \A i \in DOMAIN figures : figures[i] = Zero
      <4>1. ~hasActivity(figures)
        BY <3>7 DEF deltaColumns
      <4>2. \A i \in 1..n : Reduced(figures[i]) /\ figures[i][1] >= 0
        BY <1>1, <3>2, InvestedIsTheBasis
      <4>3. figures \in Seq(Rational)
        <5>1. figures = [i \in 1..n |-> figures[i]]
          BY <3>1 DEF figures, Figures, days
        <5>2. \A i \in 1..n : figures[i] \in Rational
          BY <4>2 DEF Reduced
        <5>3. QED
          BY <5>1, <5>2
      <4>4. QED
        BY <3>1, <3>2, <4>1, <4>2, <4>3, InactiveIsEmpty
    <3>8. QED
      BY <3>5, <3>6, <3>7 DEF figures, days, held
  <2>2. QED
    BY <2>1 DEF ChartReadsHistory
<1>2. Init => LinesInv
  BY InitLines
<1>3. LinesInv /\ [Next]_vars => LinesInv'
  BY StepKeepsLines
<1>4. QED
  BY <1>1, <1>2, <1>3, PTL DEF Spec
==============================================================================
