---------------------------- MODULE MergedLedger ----------------------------
(***************************************************************************)
(* What an owner is promised of imports: the ledger of a holding merges    *)
(* with a sheet, so that each event ends up as often as the fuller of the  *)
(* two has it.  Nothing saved is lost, nothing is added twice, and each    *)
(* upload, "delete all" and deletion of a holding is one step.             *)
(*                                                                         *)
(* A transaction only defends the documents it writes.  A holding it found *)
(* nothing to do for, and that another request changed while it ran, may   *)
(* be left as it stands.                                                   *)
(***************************************************************************)
EXTENDS ImportPlan

CONSTANTS Clients, Holdings, Inputs, InitialBooks

VARIABLES status,    \* "unborn", "held" or "dropped"
          currency,  \* of each holding
          saved,     \* the events of each held holding
          changed    \* holdings that others have written while a client's
                     \* request ran; left to the environment

vars == <<status, currency, saved>>

Held == {h \in Holdings : status[h] = "held"}

Init ==
    \E books \in InitialBooks :
        /\ status = books.status
        /\ currency = [h \in Holdings |-> books.doc[h].currency]
        /\ saved = [h \in Holdings |->
                       IF books.status[h] = "held" THEN books.ledger[h] ELSE <<>>]

Copies(events, key) == Cardinality({k \in DOMAIN events : Key(events[k]) = key})

Larger(m, n) == IF m < n THEN n ELSE m

\* An opening already stands for the trades up to its date.
InOpening(events, txn) ==
    \E opening \in ToSet(events) :
        /\ IsOpening(opening) /\ opening.quantity > 0
        /\ DayOf(txn.date) <= opening.openingDate

\* The rows of a sheet that are about h, owner being the holding of each name.
Part(input, owner, h, events) ==
    {i \in DOMAIN input.rows :
        /\ owner[input.rows[i].name] = h
        /\ input.kind = "trades" => ~InOpening(events, input.rows[i].txn)}

Merges(input, rows, before, after) ==
    LET keys == {Key(input.rows[i].txn) : i \in rows} \cup {Key(txn) : txn \in ToSet(before)}
    IN  /\ {Key(txn) : txn \in ToSet(after)} = keys
        /\ \A key \in keys :
               Copies(after, key) =
                   Larger(Copies(before, key),
                          Cardinality({i \in rows : Key(input.rows[i].txn) = key}))

\* after is before without its dividends, in the same order.
LosesDividends(before, after) ==
    LET kept == {i \in DOMAIN before : before[i].type # "dividend"}
    IN  /\ Len(after) = Cardinality(kept)
        /\ \A i \in kept : after[Cardinality({j \in kept : j <= i})] = before[i]

LeftAlone(c, h) == h \in changed[c] /\ saved'[h] = saved[h]

Upload(c, input) ==
    /\ input.kind \in {"trades", "dividends"}
    /\ \E owner \in [SheetNames(input) -> Holdings] :
        LET owners == {owner[name] : name \in SheetNames(input)}
            born   == {h \in owners : status[h] = "unborn"}
        IN  /\ \A h \in owners :
                   /\ status[h] # "dropped" \/ h \in changed[c]
                   /\ currency'[h] = input.currency
            /\ \A h \in born : \E name \in input.create :
                   {n \in SheetNames(input) : owner[n] = h} = {name}
            /\ status' = [h \in Holdings |-> IF h \in born THEN "held" ELSE status[h]]
            /\ \A h \in Holdings :
                   \/ Merges(input, Part(input, owner, h, saved[h]), saved[h], saved'[h])
                   \/ LeftAlone(c, h)
    /\ \A h \in Held : currency'[h] = currency[h]

Clear(c, input) ==
    /\ input.kind = "clear"
    /\ \A h \in Holdings :
           \/ IF currency[h] = input.currency THEN LosesDividends(saved[h], saved'[h])
                                              ELSE saved'[h] = saved[h]
           \/ LeftAlone(c, h)
    /\ UNCHANGED <<status, currency>>

Drop(input) ==
    /\ input.kind = "drop"
    /\ status[input.holding] = "held"
    /\ status' = [status EXCEPT ![input.holding] = "dropped"]
    /\ saved' = [saved EXCEPT ![input.holding] = <<>>]
    /\ UNCHANGED currency

Next ==
    \E c \in Clients, input \in Inputs : Upload(c, input) \/ Clear(c, input) \/ Drop(input)

Spec == Init /\ [][Next]_vars
==============================================================================
