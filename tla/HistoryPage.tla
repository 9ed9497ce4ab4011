----------------------------- MODULE HistoryPage -----------------------------
(***************************************************************************)
(* The snapshot rows of several users over several days: the daily job     *)
(* walking the users, a user pasting, adding, overriding and deleting rows *)
(* of a month, each of them call by call, on three clocks (the server's    *)
(* UTC day, the Indian day of the gold pages and the trading day of the    *)
(* job); and the page that lists the rows under the gold of each day.      *)
(***************************************************************************)
EXTENDS GoldService, SnapshotBuckets

CONSTANTS
    Clients,      \* requests and runs in flight at once
    Users,        \* ids, which the job takes in order
    Editors,      \* the users who edit their rows
    Month,        \* the days of the month a page shows and a paste names
    Pasted,       \* the lists of rows a paste may carry
    FormAmounts,  \* what a form may carry
    JobAmounts,   \* what the job may find
    InitialSnaps, \* what the collection may hold at the start
    MaxRequests   \* bound on the requests and runs

ASSUME UsersAreOrdered == Users \subseteq Nat /\ Editors \subseteq Users
ASSUME MonthIsOfDays == Month \subseteq Days
ASSUME SnapsAreRows == InitialSnaps \subseteq [Users -> [Days -> RowType]]

\* The calendar starts on day 0, and what is stored then was written by then.
ASSUME SnapsAreNotAhead ==
    \A rows \in InitialSnaps, user \in Users, day \in Days \ {0} : rows[user][day] = NoRow

ASSUME PastesAreRows == Pasted \subseteq Seq([date : Days, amounts : Forms \cup {<<>>}])
ASSUME RequestBound == MaxRequests \in Nat

VARIABLES
    edited,   \* what this behaviour edits: the gold tables, or the rows
    hour,     \* of the Indian day: before 5:30, before 8:00, after
    snaps,    \* the rows of portfolio_snapshots
    req,      \* the request or run of each client
    begun     \* how many there have been

rowVars == <<hour, snaps, req, begun>>
vars == <<edited, goldVars, rowVars>>

\* "todo" are the rows a paste has still to look at, "left" the users a run has
\* still to reach of those "asked"; "touched" the rows others wrote since this
\* request looked at them.
NoRequest ==
    [op |-> None, pc |-> "idle", user |-> 0, date |-> 0, amounts |-> <<>>, todo |-> <<>>,
     left |-> {}, seen |-> NoRow, written |-> {}, refused |-> {}, asked |-> {}, touched |-> {}]

Init ==
    /\ edited \in {"gold", "rows"}
    /\ GoldInit
    /\ edited = "rows" => DOMAIN txns = {}
    /\ hour = "day"
    /\ snaps \in InitialSnaps
    /\ edited = "gold" => snaps = [user \in Users |-> [day \in Days |-> NoRow]]
    /\ req = [c \in Clients |-> NoRequest]
    /\ begun = 0

-----------------------------------------------------------------------------
\* Midnight in India, then in UTC, then the cut-over of the trading day.
HourPasses ==
    /\ \/ hour = "day" /\ today < LastDay /\ today' = today + 1 /\ hour' = "night"
       \/ hour = "night" /\ hour' = "dawn" /\ UNCHANGED today
       \/ hour = "dawn" /\ hour' = "day" /\ UNCHANGED today
    /\ UNCHANGED <<txns, prices, unused, page, snaps, req, begun>>

UTCDay == IF hour = "night" THEN today - 1 ELSE today

\* Faulty variant: without the cut-over at 8:00.
tradingDate_Midnight == today

tradingDate == IF hour = "day" THEN today ELSE today - 1

At(c, pc) == req[c].pc = pc
Doing(c, ops, pc) == req[c].op \in ops /\ req[c].pc = pc
Stored(c) == snaps[req[c].user][req[c].date]

Unchanged == UNCHANGED <<goldVars, hour, begun>>
Go(c, r) == req' = [req EXCEPT ![c] = r] /\ UNCHANGED snaps
Finish(c) == Go(c, NoRequest)

\* Client c writes its row and goes on as r.
Write(c, row, r) ==
    LET at == <<req[c].user, req[c].date>>
    IN  /\ snaps' = [snaps EXCEPT ![at[1]][at[2]] = row]
        /\ req' = [d \in Clients |->
                      IF d = c THEN r
                      ELSE IF At(d, "idle") THEN NoRequest
                      ELSE [req[d] EXCEPT !.touched = @ \cup {at}]]

\* The row under way is looked at: unless the request has reported on it before,
\* whatever others did to it is known by now.
Reported(r, user, date) ==
    \/ \E w \in r.written : w.user = user /\ w.date = date
    \/ r.op # "run" /\ \E x \in r.refused : x.date = date

LooksAt(r, user, date) ==
    [r EXCEPT !.user = user, !.date = date,
              !.touched = IF Reported(r, user, date) THEN @ ELSE @ \ {<<user, date>>}]

\* What the handlers pass on, of the day or the days of a body.
PasteOf(user, list) ==
    [NoRequest EXCEPT !.op = "paste", !.pc = "look", !.user = user, !.todo = list]
AddOf(user, day, form) ==
    [NoRequest EXCEPT !.op = "add", !.pc = "look", !.user = user,
                      !.todo = <<[date |-> day, amounts |-> form]>>]
OverrideOf(user, day, form) ==
    [NoRequest EXCEPT !.op = "override", !.pc = "look", !.user = user, !.date = day,
                      !.amounts = form]
DeleteOf(op, user, day) ==
    [NoRequest EXCEPT !.op = op, !.pc = "look", !.user = user, !.date = day]

PageRequests ==
    {PasteOf(user, list) : user \in Editors, list \in Pasted}
    \cup {AddOf(user, day, form) : user \in Editors, day \in Days, form \in FormAmounts}
    \cup {OverrideOf(user, day, form) : user \in Editors, day \in Days, form \in FormAmounts}
    \cup {DeleteOf(op, user, day) :
              op \in {"delete", "forceDelete"}, user \in Editors, day \in Days}

\* Any of the users may be disabled when the job lists them; --user names one.
activeUsers == SUBSET Users

RunOf(active, date) ==
    [NoRequest EXCEPT !.op = "run", !.pc = "next", !.date = date, !.asked = active,
                      !.left = active]

\* The job is for the trading day, or for an earlier one that --date names.  The
\* command does not check the flag: that no later day is named is the operator's part.
runSnapshot == {RunOf(active, date) : active \in activeUsers, date \in 0..tradingDate}

Begin(c) ==
    /\ At(c, "idle")
    /\ begun < MaxRequests
    /\ begun' = begun + 1
    /\ \E r \in PageRequests \cup runSnapshot : Go(c, r)
    /\ UNCHANGED <<goldVars, hour>>

-----------------------------------------------------------------------------
\* Paste and Add: each row is refused for its date or its amounts, found to
\* conflict, or upserted, before the next one is looked at.
parseDateNotFuture(date) == date <= UTCDay
validateRegions(amounts) == amounts \in Forms
InMonth(r, date) == r.op = "add" \/ date \in Month

Rejects(c) ==
    LET r == req[c]
        next == Head(r.todo)
    IN  /\ Doing(c, {"paste", "add"}, "look")
        /\ r.todo # <<>>
        /\ ~(parseDateNotFuture(next.date) /\ InMonth(r, next.date) /\ validateRegions(next.amounts))
        /\ Go(c, [r EXCEPT !.todo = Tail(@)])
        /\ Unchanged

\* Faulty variant: a row that exists is no conflict.
Looks_Unchecked(c) ==
    LET r == req[c]
        next == Head(r.todo)
    IN  /\ Doing(c, {"paste", "add"}, "look")
        /\ r.todo # <<>>
        /\ parseDateNotFuture(next.date)
        /\ InMonth(r, next.date)
        /\ validateRegions(next.amounts)
        /\ Go(c, [LooksAt(r, r.user, next.date) EXCEPT
                     !.todo = Tail(@), !.amounts = next.amounts, !.pc = "find"])
        /\ Unchanged

Looks(c) ==
    LET r == req[c]
        next == Head(r.todo)
        looking == [LooksAt(r, r.user, next.date) EXCEPT !.todo = Tail(@)]
        row == snaps[r.user][next.date]
    IN  /\ Doing(c, {"paste", "add"}, "look")
        /\ r.todo # <<>>
        /\ parseDateNotFuture(next.date)
        /\ InMonth(r, next.date)
        /\ validateRegions(next.amounts)
        /\ Go(c, IF row = NoRow
                 THEN [looking EXCEPT !.amounts = next.amounts, !.pc = "find"]
                 ELSE [looking EXCEPT !.refused = @ \cup {[date |-> next.date, row |-> row]}])
        /\ Unchanged

\* SnapshotStore.Upsert: the row is read, and replaced in a second call.
UpsertFinds(c) ==
    /\ Doing(c, {"paste", "add", "run"}, "find")
    /\ LET found == [req[c] EXCEPT !.seen = Stored(c), !.pc = "write"]
       IN  Go(c, IF req[c].op = "run" THEN LooksAt(found, found.user, found.date) ELSE found)
    /\ Unchanged

Incoming(r) ==
    IF r.op = "run" THEN [buckets |-> CronBuckets(r.amounts), backed |-> TRUE]
                    ELSE [buckets |-> ManualBuckets(r.amounts), backed |-> FALSE]

Upserted(c) ==
    LET r == req[c]
        done == [user |-> r.user, date |-> r.date, amounts |-> r.amounts]
    IN  [r EXCEPT !.written = @ \cup {done}, !.seen = NoRow, !.amounts = <<>>,
                  !.pc = IF r.op = "run" THEN "next" ELSE "look"]

UpsertWrites(c) ==
    LET seen == req[c].seen
        new == Incoming(req[c])
    IN  /\ Doing(c, {"paste", "add", "run"}, "write")
        /\ seen # NoRow \/ Stored(c) = NoRow
        /\ IF seen # NoRow /\ Stored(c) = NoRow
           THEN Go(c, Upserted(c))
           ELSE Write(c, IF seen = NoRow THEN new
                         ELSE [new EXCEPT !.buckets = Merged(seen.buckets, @)], Upserted(c))
        /\ Unchanged

\* The unique index refuses the insert, or a call fails: the job notes the user
\* and goes on to the next, a paste ends with what it has done.
\* Faulty variant: the job ends as well.
CallFails_EndsTheRun(c) ==
    /\ req[c].pc \in {"look", "find", "write"}
    /\ Go(c, IF req[c].op # "run" THEN NoRequest ELSE [req[c] EXCEPT !.pc = "report"])
    /\ Unchanged

CallFails(c) ==
    LET r == req[c]
    IN  /\ r.pc \in {"look", "find", "write"}
        /\ Go(c, IF r.op # "run" THEN NoRequest
                 ELSE [r EXCEPT !.refused = @ \cup {r.user}, !.seen = NoRow,
                                !.amounts = <<>>, !.pc = "next"])
        /\ Unchanged

PasteEnds(c) ==
    /\ Doing(c, {"paste", "add"}, "look")
    /\ req[c].todo = <<>>
    /\ Go(c, [req[c] EXCEPT !.pc = "report"])
    /\ Unchanged

-----------------------------------------------------------------------------
\* PatchRegions and Delete, of a day that is not in the future.
OverrideLooks(c) ==
    /\ Doing(c, {"override"}, "look")
    /\ IF parseDateNotFuture(req[c].date) /\ Stored(c) # NoRow
       THEN Go(c, [req[c] EXCEPT !.seen = Stored(c), !.pc = "write"])
       ELSE Finish(c)
    /\ Unchanged

OverrideWrites(c) ==
    LET r == req[c]
        patched == Overridden(r.seen.buckets, r.amounts)
        row == [Stored(c) EXCEPT !.buckets =
                    [k \in Keys |-> IF k \in DOMAIN r.amounts THEN patched[k] ELSE @[k]]]
    IN  /\ Doing(c, {"override"}, "write")
        /\ IF Stored(c) = NoRow THEN Finish(c) ELSE Write(c, row, NoRequest)
        /\ Unchanged

DeleteLooks(c) ==
    /\ Doing(c, {"delete", "forceDelete"}, "look")
    /\ IF /\ parseDateNotFuture(req[c].date)
          /\ Stored(c) # NoRow
          /\ req[c].op = "forceDelete" \/ ~HasCron(Stored(c))
       THEN Go(c, [req[c] EXCEPT !.pc = "write"])
       ELSE Finish(c)
    /\ Unchanged

DeleteWrites(c) ==
    /\ Doing(c, {"delete", "forceDelete"}, "write")
    /\ Write(c, NoRow, NoRequest)
    /\ Unchanged

-----------------------------------------------------------------------------
\* SnapshotService.Run: the row of the next user, in the order of their ids, is
\* built, then upserted.
Nearest(left) == {user \in left : \A other \in left : user <= other}

Builds(c) ==
    LET r == req[c]
    IN  /\ Doing(c, {"run"}, "next")
        /\ \E user \in Nearest(r.left), amounts \in [Currencies -> JobAmounts] :
            Go(c, [r EXCEPT !.user = user, !.left = @ \ {user},
                            !.amounts = amounts, !.pc = "find"])
        /\ Unchanged

BuildFails(c) ==
    LET r == req[c]
    IN  /\ Doing(c, {"run"}, "next")
        /\ \E user \in Nearest(r.left) :
            Go(c, [r EXCEPT !.left = @ \ {user}, !.refused = @ \cup {user}])
        /\ Unchanged

RunEnds(c) ==
    /\ Doing(c, {"run"}, "next")
    /\ req[c].left = {}
    /\ Go(c, [req[c] EXCEPT !.pc = "report"])
    /\ Unchanged

\* The report is answered; or the context of a run ends before it is.
Leaves(c) ==
    /\ At(c, "report") \/ req[c].op = "run"
    /\ Finish(c)
    /\ Unchanged

Requests ==
    \E c \in Clients :
        \/ Begin(c) \/ Rejects(c) \/ Looks(c) \/ PasteEnds(c)
        \/ UpsertFinds(c) \/ UpsertWrites(c) \/ CallFails(c)
        \/ OverrideLooks(c) \/ OverrideWrites(c) \/ DeleteLooks(c) \/ DeleteWrites(c)
        \/ Builds(c) \/ BuildFails(c) \/ RunEnds(c) \/ Leaves(c)

Next ==
    /\ \/ edited = "gold" /\ GoldNext /\ UNCHANGED rowVars
       \/ edited = "rows" /\ (HourPasses \/ Requests)
    /\ UNCHANGED edited

Spec == Init /\ [][Next]_vars

-----------------------------------------------------------------------------
\* HistoryService.List: the rows of a range, newest first, then the latest one
\* before it, under the gold of their days and without the bucket of old versions.
List(rows, from, to) ==
    Sorted({day \in from..to : rows[day] # NoRow}, LAMBDA a, b : a > b)

\* Faulty variant: the row of the day before.
LatestBefore_Yesterday(rows, from) ==
    IF from - 1 \in Days /\ rows[from - 1] # NoRow THEN <<from - 1>> ELSE <<>>

LatestBefore(rows, from) ==
    LET earlier == {day \in Days : day < from /\ rows[day] # NoRow}
    IN  IF earlier = {} THEN <<>> ELSE <<Max(earlier)>>

historyRowFromSnapshot(row) ==
    [regions |-> [k \in {k \in Currencies : row.buckets[k] # NoBucket} |-> row.buckets[k]],
     holdings |-> row.backed]

attachGoldOverlay(day, gold) == IF day \in DOMAIN gold THEN {gold[day]} ELSE {}

ListHistory(rows, from, to) ==
    LET days == List(rows, from, to) \o LatestBefore(rows, from)
        gold == IF days = <<>> THEN NoOverlay ELSE Overlay(ToSet(days))
    IN  [k \in DOMAIN days |->
            [date |-> days[k], row |-> historyRowFromSnapshot(rows[days[k]]),
             gold |-> attachGoldOverlay(days[k], gold)]]

-----------------------------------------------------------------------------
\* What a paste and a run report is so, unless another request wrote the row
\* since they looked at it: what is applied carries what was pasted, a conflict
\* is with the row as it stands, a user the job counts as done has its values
\* under what was overridden, and every user it was to reach is done or failed
\* ("the run continues past a single user's failure", snapshot.go:255).
ReportsAreTrue ==
    \A c \in Clients :
        LET r == req[c]
            Known(user, date) == <<user, date>> \notin r.touched
        IN  /\ Doing(c, {"paste", "add"}, "report") =>
                 /\ \A w \in r.written : Known(w.user, w.date) =>
                      snaps[w.user][w.date] = [buckets |-> ManualBuckets(w.amounts), backed |-> FALSE]
                 /\ \A x \in r.refused : Known(r.user, x.date) => snaps[r.user][x.date] = x.row
            /\ Doing(c, {"run"}, "report") =>
                 /\ \A w \in r.written : Known(w.user, w.date) =>
                      LET row == snaps[w.user][w.date]
                      IN  /\ row.backed
                          /\ \A k \in Currencies :
                               IsManual(row.buckets[k]) \/ row.buckets[k] = Cron(w.amounts[k])
                 /\ r.asked = r.refused \cup {w.user : w \in r.written}

\* The job dates a row by the Indian trading day, the pages refuse a date after
\* the server's UTC day: no row is ever dated where its user could not override
\* or delete it (cmd/snapshot.go:127, history.go:414), however long a request lasts and
\* whichever past day an operator names.
RowsAreNeverAhead ==
    \A user \in Users, day \in Days : snaps[user][day] # NoRow => day <= UTCDay

\* "A month's opening baseline must not depend on a snapshot existing on the
\* previous month's last calendar day" (history.go:131-135): whatever days have
\* rows, every row of a month shows what it shows in the whole history, and the
\* volatility of its gold is taken against the same earlier row, unless the gold
\* shown before had all been sold by the baseline.
PagingIsInvisible ==
    edited = "gold" /\ page.pc = "idle" =>
        \A kept \in SUBSET (0..today) :
            LET rows == [day \in Days |->
                           IF day \in kept THEN [buckets |-> CronBuckets([k \in Currencies |-> None]),
                                                 backed |-> TRUE]
                                           ELSE NoRow]
                whole == ListHistory(rows, 0, today)
                Shown(shown, day) == CHOOSE x \in ToSet(shown) : x.date = day
                Golden(days) == {day \in days : Shown(whole, day).gold # {}}
            IN  \A from \in 1..today :
                  LET month == ListHistory(rows, from, today)
                      earlier == {day \in kept : day < from}
                      soldOut == Golden(earlier) # {} /\ Max(earlier) \notin Golden(earlier)
                  IN  soldOut \/ \A day \in kept \ earlier : Shown(month, day) = Shown(whole, day)
==============================================================================
