---------------------------- MODULE AtomicLedger ----------------------------
(***************************************************************************)
(* What the ledger of one holding promises its single user: every request  *)
(* either changes one event and leaves an accepted ledger with the         *)
(* position derived from it, or changes nothing.                           *)
(*                                                                         *)
(* Only two kinds of failure may damage this: one that takes a compensation*)
(* with it leaves another ledger beside the position, and one that loses   *)
(* the answer of a stored position leaves the position of a change that is *)
(* taken back.  The next accepted request, or the one that failed, repairs *)
(* whatever was left.                                                      *)
(***************************************************************************)
CONSTANTS Ids,      \* event ids
          NoEvent,  \* what an id without an event stands for
          Opening,  \* the ledger and status the period may start from
          RecomputePosition(_), Oversells(_)  \* the replay of a ledger

VARIABLES ledger,    \* the committed events
          status,    \* "absent", "held" or "deleted"
          position,  \* the derived fields
          derived,   \* the ledger they were derived from
          damaged    \* a failure has broken the promise and nothing repaired it

vars == <<ledger, status, position, derived, damaged>>

NoEvents == [i \in Ids |-> NoEvent]

\* next is the ledger after a change: accepted, and the position is its replay.
Accept(next) ==
    /\ ~Oversells(next)
    /\ position' = RecomputePosition(next)
    /\ derived' = next

Init ==
    /\ <<ledger, status>> \in Opening
    /\ ~Oversells(ledger)
    /\ position = RecomputePosition(ledger)
    /\ derived = ledger
    /\ damaged = FALSE

Open ==
    /\ status = "absent" /\ status' = "held"
    /\ ledger' = NoEvents /\ Accept(NoEvents)
    /\ UNCHANGED damaged

Commit ==
    /\ status = "held" /\ UNCHANGED status
    /\ \E i \in Ids : \A j \in Ids \ {i} : ledger'[j] = ledger[j]
    /\ Accept(ledger')
    /\ UNCHANGED damaged

Drop ==
    /\ status = "held" /\ status' = "deleted"
    /\ ledger' = NoEvents
    /\ UNCHANGED <<position, derived, damaged>>

Damage ==
    /\ damaged' = TRUE
    /\ UNCHANGED <<status, position, derived>>

LoseAnswer ==
    /\ damaged' = TRUE
    /\ status = "held"
    /\ \E i \in Ids : \A j \in Ids \ {i} : derived'[j] = ledger[j]
    /\ Accept(derived')
    /\ UNCHANGED <<ledger, status>>

Repair ==
    /\ damaged /\ ~damaged'
    /\ status = "held" /\ UNCHANGED status
    /\ Accept(ledger')

Next == Open \/ Commit \/ Drop \/ Damage \/ LoseAnswer \/ Repair

Spec == Init /\ [][Next]_vars
==============================================================================
