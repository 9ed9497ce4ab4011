----------------------------- MODULE PagesProofs -----------------------------
(***************************************************************************)
(* Theorems about HistoryPage, for any users, days, amounts and pastes and *)
(* any number of requests and runs: no row is dated ahead of its user, and *)
(* a paste and a run report what is stored.  And about PortfolioService:   *)
(* no page is ever served a quote older than an entry of the cache may be  *)
(* and a fetch may take, and what a page says above its table is what the  *)
(* table and the day's snapshot say.  And about the gold of HistoryPage:   *)
(* the walk of goldOverlay is the as-of value of every day, and paging and *)
(* days without a price change nothing of it that they should not.  The    *)
(* two systems share only this module.                                     *)
(***************************************************************************)
EXTENDS HistoryPage, PortfolioService, LedgerProofs

PostedRow == [date : Days, amounts : Forms \cup {<<>>} \cup FormAmounts]

\* A request is a record of the fields of NoRequest.
Shaped(r) ==
    r = [op |-> r.op, pc |-> r.pc, user |-> r.user, date |-> r.date, amounts |-> r.amounts,
         todo |-> r.todo, left |-> r.left, seen |-> r.seen, written |-> r.written,
         refused |-> r.refused, asked |-> r.asked, touched |-> r.touched]

PasteRow(amounts) == [buckets |-> ManualBuckets(amounts), backed |-> FALSE]
CarriesRun(row, amounts) ==
    /\ row.backed
    /\ \A k \in Currencies : IsManual(row.buckets[k]) \/ row.buckets[k] = Cron(amounts[k])

\* A paste, with the rows as they are and on the server's day: nobody else wrote
\* a row since it was looked at, unless "touched" says so.
PasteSound(r, rows, day) ==
    /\ r.pc \in {"look", "find", "write", "report"}
    /\ r.user \in Users
    /\ r.todo \in Seq(PostedRow)
    /\ \A w \in r.written :
          /\ w.user = r.user /\ w.date \in Days /\ w.amounts \in Forms
          /\ <<w.user, w.date>> \notin r.touched => rows[w.user][w.date] = PasteRow(w.amounts)
    /\ \A x \in r.refused :
          /\ x.date \in Days /\ x.row # NoRow
          /\ <<r.user, x.date>> \notin r.touched => rows[r.user][x.date] = x.row
    /\ r.pc \in {"find", "write"} =>
          /\ r.amounts \in Forms
          /\ r.date <= day
          /\ <<r.user, r.date>> \notin r.touched => rows[r.user][r.date] = NoRow
    /\ r.pc = "write" /\ <<r.user, r.date>> \notin r.touched => r.seen = NoRow

\* A run: each user asked for is still to come, under way, done or failed.
Reaches(r) ==
    r.asked = r.left \cup r.refused \cup {w.user : w \in r.written}
                     \cup (IF r.pc \in {"find", "write"} THEN {r.user} ELSE {})

RunSound(r, rows, day) ==
    /\ r.pc \in {"next", "find", "write", "report"}
    /\ r.date <= day
    /\ r.left \subseteq Users
    /\ r.pc = "report" => r.left = {}
    /\ Reaches(r)
    /\ \A w \in r.written :
          /\ w.user \in Users \ r.left /\ w.date = r.date
          /\ <<w.user, w.date>> \notin r.touched => CarriesRun(rows[w.user][w.date], w.amounts)
    /\ r.pc \in {"find", "write"} =>
          /\ r.user \in Users \ r.left
          /\ \A w \in r.written : w.user # r.user
    /\ r.pc = "write" /\ <<r.user, r.date>> \notin r.touched => r.seen = rows[r.user][r.date]

Sound(r, rows, day) ==
    /\ Shaped(r)
    /\ r.date \in Days
    /\ r.op \in {None, "paste", "add", "override", "delete", "forceDelete", "run"}
    /\ r.pc = "idle" <=> r = NoRequest
    /\ r.op = None => r = NoRequest
    /\ r.op \in {"paste", "add"} => PasteSound(r, rows, day)
    /\ r.op = "run" => RunSound(r, rows, day)
    /\ r.op \in {"override", "delete", "forceDelete"} =>
          r.pc \in {"look", "write"} /\ r.user \in Users

ClockInv ==
    /\ hour \in {"day", "night", "dawn"}
    /\ today \in Days
    /\ hour # "day" => today # 0

RowsOf(rows) == rows = [user \in Users |-> [day \in Days |-> rows[user][day]]]
NotAhead(rows, present) == \A user \in Users, day \in Days : rows[user][day] # NoRow => day <= present

PageInv ==
    /\ ClockInv
    /\ RowsOf(snaps)
    /\ NotAhead(snaps, UTCDay)
    /\ req = [c \in Clients |-> req[c]]
    /\ \A c \in Clients : Sound(req[c], snaps, UTCDay)

LEMMA DayIsADay == 0 \in Days
    BY PricesArePositive DEF Days

LEMMA SeqsGrow ==
    ASSUME NEW S, NEW T, S \subseteq T, NEW list \in Seq(S)
    PROVE  list \in Seq(T)
<1>1. PICK n \in Nat : n = Len(list)
    OBVIOUS
<1>2. list = [i \in 1..n |-> list[i]] /\ \A i \in 1..n : list[i] \in T
    BY <1>1
<1>3. list \in [1..n -> T]
    BY <1>2
<1> QED
    BY <1>3

LEMMA PasteRowIsARow ==
    ASSUME NEW amounts \in Forms
    PROVE  PasteRow(amounts) # NoRow
<1>1. PICK S \in (SUBSET Currencies) \ {{}} : amounts \in [S -> Amounts]
    BY DEF Forms
<1>2. PICK k \in S : TRUE
    OBVIOUS
<1>3. k \in Keys /\ k \in DOMAIN amounts
    BY <1>1, <1>2 DEF Keys
<1>4. ManualBuckets(amounts)[k].source = "manual"
    BY <1>3 DEF ManualBuckets, Manual
<1>5. NoRow.buckets[k].source = "none"
    BY <1>3 DEF NoRow, NoBucket, None
<1> QED
    BY <1>4, <1>5 DEF PasteRow

LEMMA IdleIsSound ==
    ASSUME NEW rows, NEW day
    PROVE  Sound(NoRequest, rows, day)
<1>1. Shaped(NoRequest)
    BY DEF Shaped, NoRequest
<1>2. NoRequest.date \in Days /\ NoRequest.op = None /\ NoRequest.pc = "idle"
    BY DayIsADay DEF NoRequest
<1> QED
    BY <1>1, <1>2, Zenon DEF Sound, None

LEMMA LaterIsSound ==
    ASSUME NEW r, NEW rows, NEW day \in Int, NEW later \in Int,
           Sound(r, rows, day), day <= later
    PROVE  Sound(r, rows, later)
<1>0. r.date \in Int
    BY DEF Sound, Days
<1>1. r.date <= day => r.date <= later
    BY <1>0
<1>2. PasteSound(r, rows, day) => PasteSound(r, rows, later)
    BY <1>1 DEF PasteSound
<1>3. RunSound(r, rows, day) => RunSound(r, rows, later)
    BY <1>1 DEF RunSound
<1> QED
    BY <1>2, <1>3 DEF Sound

-----------------------------------------------------------------------------
(***************************************************************************)
(* What a request looks at it knows; what it writes, the others know as     *)
(* touched.                                                                *)
(***************************************************************************)
LEMMA LookedFields ==
    ASSUME NEW r, Shaped(r), NEW user, NEW date
    PROVE  LooksAt(r, user, date) =
               [op |-> r.op, pc |-> r.pc, user |-> user, date |-> date, amounts |-> r.amounts,
                todo |-> r.todo, left |-> r.left, seen |-> r.seen, written |-> r.written,
                refused |-> r.refused, asked |-> r.asked,
                touched |-> IF Reported(r, user, date) THEN r.touched
                            ELSE r.touched \ {<<user, date>>}]
<1>1. PICK known : known = IF Reported(r, user, date) THEN r.touched
                           ELSE r.touched \ {<<user, date>>}
    OBVIOUS
<1>2. LooksAt(r, user, date) = [r EXCEPT !.user = user, !.date = date, !.touched = known]
    BY <1>1 DEF LooksAt
<1> QED
    BY <1>1, <1>2 DEF Shaped

Known(r, at) == [r EXCEPT !.touched = @ \cup {at}]

LEMMA KnownFields ==
    ASSUME NEW r, Shaped(r), NEW at
    PROVE  LET s == Known(r, at)
           IN  /\ Shaped(s)
               /\ s.op = r.op /\ s.pc = r.pc /\ s.user = r.user /\ s.date = r.date
               /\ s.amounts = r.amounts /\ s.todo = r.todo /\ s.left = r.left
               /\ s.seen = r.seen /\ s.written = r.written /\ s.refused = r.refused
               /\ s.asked = r.asked /\ s.touched = r.touched \cup {at}
<1> DEFINE s == Known(r, at)
<1>1. s = [op |-> r.op, pc |-> r.pc, user |-> r.user, date |-> r.date, amounts |-> r.amounts,
           todo |-> r.todo, left |-> r.left, seen |-> r.seen, written |-> r.written,
           refused |-> r.refused, asked |-> r.asked, touched |-> r.touched \cup {at}]
    BY DEF Known, Shaped
<1> HIDE DEF s
<1>2. Shaped(s)
    BY <1>1 DEF Shaped
<1> QED
    BY <1>1, <1>2 DEF s

LEMMA OthersStaySound ==
    ASSUME NEW rows, NEW user \in Users, NEW date \in Days, NEW rows2,
           \A u \in Users, d \in Days :
               u # user \/ d # date => rows2[u][d] = rows[u][d],
           NEW r, NEW day, Sound(r, rows, day), r.pc # "idle"
    PROVE  Sound(Known(r, <<user, date>>), rows2, day)
<1> DEFINE at == <<user, date>>
           s == Known(r, at)
<1>1. /\ Shaped(s)
      /\ s.op = r.op /\ s.pc = r.pc /\ s.user = r.user /\ s.date = r.date
      /\ s.amounts = r.amounts /\ s.todo = r.todo /\ s.left = r.left
      /\ s.seen = r.seen /\ s.written = r.written /\ s.refused = r.refused
      /\ s.asked = r.asked /\ s.touched = r.touched \cup {at}
    BY KnownFields DEF Sound
<1>2. \A u \in Users, d \in Days :
         <<u, d>> \notin s.touched => <<u, d>> \notin r.touched /\ rows2[u][d] = rows[u][d]
    BY <1>1
<1>3. s.pc # "idle" /\ s # NoRequest /\ r # NoRequest
    BY <1>1 DEF NoRequest
<1> HIDE DEF s, at
<1>4. ASSUME PasteSound(r, rows, day), r.date \in Days
      PROVE  PasteSound(s, rows2, day)
  <2>1. \A w \in s.written :
           /\ w.user = s.user /\ w.date \in Days /\ w.amounts \in Forms
           /\ <<w.user, w.date>> \notin s.touched =>
                 rows2[w.user][w.date] = PasteRow(w.amounts)
    <3> SUFFICES ASSUME NEW w \in s.written
                 PROVE  /\ w.user = s.user /\ w.date \in Days /\ w.amounts \in Forms
                        /\ <<w.user, w.date>> \notin s.touched =>
                              rows2[w.user][w.date] = PasteRow(w.amounts)
        OBVIOUS
    <3>1. /\ w.user = r.user /\ w.date \in Days /\ w.amounts \in Forms
          /\ <<w.user, w.date>> \notin r.touched => rows[w.user][w.date] = PasteRow(w.amounts)
        BY <1>1, <1>4 DEF PasteSound
    <3>2. w.user \in Users /\ w.user = s.user
        BY <1>1, <1>4, <3>1 DEF PasteSound
    <3> QED
        BY <1>2, <3>1, <3>2
  <2>2. \A x \in s.refused :
           /\ x.date \in Days /\ x.row # NoRow
           /\ <<s.user, x.date>> \notin s.touched => rows2[s.user][x.date] = x.row
      BY <1>1, <1>2, <1>4 DEF PasteSound
  <2>3. s.pc \in {"find", "write"} /\ <<s.user, s.date>> \notin s.touched =>
           rows2[s.user][s.date] = NoRow
      BY <1>1, <1>2, <1>4 DEF PasteSound
  <2>4. s.pc = "write" /\ <<s.user, s.date>> \notin s.touched => s.seen = NoRow
      BY <1>1, <1>2, <1>4 DEF PasteSound
  <2> QED
      BY <1>1, <1>4, <2>1, <2>2, <2>3, <2>4 DEF PasteSound
<1>5. ASSUME RunSound(r, rows, day), r.date \in Days
      PROVE  RunSound(s, rows2, day)
  <2>1. \A w \in s.written :
           /\ w.user \in Users \ s.left /\ w.date = s.date
           /\ <<w.user, w.date>> \notin s.touched =>
                 CarriesRun(rows2[w.user][w.date], w.amounts)
    <3> SUFFICES ASSUME NEW w \in s.written
                 PROVE  /\ w.user \in Users \ s.left /\ w.date = s.date
                        /\ <<w.user, w.date>> \notin s.touched =>
                              CarriesRun(rows2[w.user][w.date], w.amounts)
        OBVIOUS
    <3>1. /\ w.user \in Users \ s.left /\ w.date = s.date
          /\ <<w.user, w.date>> \notin r.touched =>
                CarriesRun(rows[w.user][w.date], w.amounts)
        BY <1>1, <1>5 DEF RunSound
    <3>2. w.date \in Days
        BY <1>1, <1>5, <3>1
    <3> QED
        BY <1>2, <3>1, <3>2
  <2>2. s.pc = "write" /\ <<s.user, s.date>> \notin s.touched =>
           s.seen = rows2[s.user][s.date]
      BY <1>1, <1>2, <1>5 DEF RunSound
  <2>3. Reaches(s)
      BY <1>1, <1>5 DEF RunSound, Reaches
  <2> QED
      BY <1>1, <1>5, <2>1, <2>2, <2>3 DEF RunSound
<1>6. Sound(s, rows2, day)
    BY <1>1, <1>3, <1>4, <1>5 DEF Sound
<1> QED
    BY <1>6 DEF s, at

-----------------------------------------------------------------------------
(***************************************************************************)
(* Steps of a request that write no row, and steps that write one.         *)
(***************************************************************************)
LEMMA ClockFacts ==
    ASSUME ClockInv
    PROVE  /\ UTCDay \in Int /\ tradingDate \in Days
           /\ tradingDate <= UTCDay /\ 0 <= UTCDay
    BY PricesArePositive DEF ClockInv, Days, UTCDay, tradingDate

LEMMA GoKeeps ==
    ASSUME PageInv, NEW c \in Clients, NEW r, Go(c, r), UNCHANGED <<goldVars, hour>>,
           Sound(r, snaps, UTCDay)
    PROVE  PageInv'
<1>1. UTCDay' = UTCDay /\ ClockInv' /\ snaps' = snaps
    BY DEF PageInv, ClockInv, UTCDay, Go, goldVars
<1>2. req' = [d \in Clients |-> IF d = c THEN r ELSE req[d]]
    BY DEF PageInv, Go
<1>3. req' = [d \in Clients |-> req'[d]]
    BY <1>2
<1>4. \A d \in Clients : Sound(req'[d], snaps, UTCDay)
    BY <1>2 DEF PageInv
<1>5. \A d \in Clients : Sound(req'[d], snaps', UTCDay')
    BY <1>1, <1>4
<1>6. RowsOf(snaps') /\ NotAhead(snaps', UTCDay')
    BY <1>1 DEF PageInv
<1> QED
    BY <1>1, <1>3, <1>5, <1>6 DEF PageInv

LEMMA WriteKeeps ==
    ASSUME PageInv, NEW c \in Clients, NEW r, NEW row, Write(c, row, r),
           UNCHANGED <<goldVars, hour>>,
           req[c].user \in Users, req[c].date \in Days,
           row # NoRow => req[c].date <= UTCDay,
           Sound(r, snaps', UTCDay)
    PROVE  PageInv'
<1> DEFINE at == <<req[c].user, req[c].date>>
<1>1. UTCDay' = UTCDay /\ ClockInv'
    BY DEF PageInv, ClockInv, UTCDay, goldVars
<1>2. PICK user \in Users, date \in Days : user = req[c].user /\ date = req[c].date
    OBVIOUS
<1>3. snaps' = [snaps EXCEPT ![user][date] = row]
    BY <1>2 DEF Write
<1>4. /\ RowsOf(snaps')
      /\ \A u \in Users, d \in Days :
            snaps'[u][d] = IF u = user /\ d = date THEN row ELSE snaps[u][d]
  <2>1. snaps = [u \in Users |-> [d \in Days |-> snaps[u][d]]]
      BY DEF PageInv, RowsOf
  <2>2. snaps' = [u \in Users |-> [d \in Days |->
                     IF u = user /\ d = date THEN row ELSE snaps[u][d]]]
      BY <1>3, <2>1
  <2>3. \A u \in Users, d \in Days :
            snaps'[u][d] = IF u = user /\ d = date THEN row ELSE snaps[u][d]
      BY <2>2
  <2>4. RowsOf(snaps')
      BY <2>2, <2>3 DEF RowsOf
  <2> QED
      BY <2>3, <2>4
<1>5. NotAhead(snaps', UTCDay')
    BY <1>1, <1>2, <1>4 DEF PageInv, NotAhead
<1>6. req' = [d \in Clients |->
                  IF d = c THEN r
                  ELSE IF At(d, "idle") THEN NoRequest
                  ELSE Known(req[d], <<user, date>>)]
    BY <1>2 DEF Write, Known
<1>7. req' = [d \in Clients |-> req'[d]]
    BY <1>6
<1>8. ASSUME NEW d \in Clients
      PROVE  Sound(req'[d], snaps', UTCDay')
  <2>1. CASE d = c
      BY <1>1, <1>6, <2>1
  <2>2. CASE d # c /\ At(d, "idle")
    <3>1. req'[d] = NoRequest
        BY <1>6, <2>2
    <3> QED
        BY <3>1, IdleIsSound
  <2>3. CASE d # c /\ ~At(d, "idle")
    <3>1. req'[d] = Known(req[d], <<user, date>>)
        BY <1>6, <2>3
    <3>2. Sound(req[d], snaps, UTCDay) /\ req[d].pc # "idle"
        BY <2>3 DEF PageInv, At
    <3>3. \A u \in Users, e \in Days :
             u # user \/ e # date => snaps'[u][e] = snaps[u][e]
        BY <1>4
    <3>4. Sound(Known(req[d], <<user, date>>), snaps', UTCDay)
        BY <3>2, <3>3, OthersStaySound
    <3> QED
        BY <1>1, <3>1, <3>4
  <2> QED
      BY <2>1, <2>2, <2>3
<1> QED
    BY <1>1, <1>4, <1>5, <1>7, <1>8 DEF PageInv

LEMMA PasteIsSound ==
    ASSUME NEW r, NEW rows, NEW day, Shaped(r), r.date \in Days, r.op \in {"paste", "add"},
           PasteSound(r, rows, day)
    PROVE  Sound(r, rows, day)
<1>1. r.pc # "idle" /\ r # NoRequest
    BY DEF PasteSound, NoRequest, None
<1> QED
    BY <1>1, Zenon DEF Sound, None

LEMMA RunIsSound ==
    ASSUME NEW r, NEW rows, NEW day, Shaped(r), r.date \in Days, r.op = "run",
           RunSound(r, rows, day)
    PROVE  Sound(r, rows, day)
<1>1. r.pc # "idle" /\ r # NoRequest
    BY DEF RunSound, NoRequest, None
<1> QED
    BY <1>1, Zenon DEF Sound, None

LEMMA FinishKeeps ==
    ASSUME PageInv, NEW c \in Clients, Finish(c), Unchanged
    PROVE  PageInv'
    BY IdleIsSound, GoKeeps DEF Finish, Unchanged

-----------------------------------------------------------------------------
(***************************************************************************)
(* A paste, call by call.                                                  *)
(***************************************************************************)
LEMMA RejectsKeeps ==
    ASSUME PageInv, NEW c \in Clients, Rejects(c)
    PROVE  PageInv'
<1>1. PICK r : r = req[c]
    OBVIOUS
<1>2. /\ Shaped(r) /\ r.date \in Days /\ r.op \in {"paste", "add"} /\ r.pc = "look"
      /\ PasteSound(r, snaps, UTCDay) /\ r.todo # <<>>
    BY <1>1 DEF PageInv, Sound, Rejects, Doing
<1>3. PICK s : s = [r EXCEPT !.todo = Tail(@)] /\ Go(c, s) /\ Unchanged
    BY <1>1 DEF Rejects
<1>4. s = [op |-> r.op, pc |-> r.pc, user |-> r.user, date |-> r.date, amounts |-> r.amounts,
           todo |-> Tail(r.todo), left |-> r.left, seen |-> r.seen, written |-> r.written,
           refused |-> r.refused, asked |-> r.asked, touched |-> r.touched]
    BY <1>2, <1>3 DEF Shaped
<1>5. Tail(r.todo) \in Seq(PostedRow)
    BY <1>2 DEF PasteSound
<1>6. Shaped(s) /\ PasteSound(s, snaps, UTCDay)
    BY <1>2, <1>4, <1>5 DEF Shaped, PasteSound
<1> QED
    BY <1>2, <1>3, <1>4, <1>6, PasteIsSound, GoKeeps DEF Unchanged

LEMMA PasteEndsKeeps ==
    ASSUME PageInv, NEW c \in Clients, PasteEnds(c)
    PROVE  PageInv'
<1>1. PICK r : r = req[c]
    OBVIOUS
<1>2. /\ Shaped(r) /\ r.date \in Days /\ r.op \in {"paste", "add"} /\ r.pc = "look"
      /\ PasteSound(r, snaps, UTCDay)
    BY <1>1 DEF PageInv, Sound, PasteEnds, Doing
<1>3. PICK s : s = [r EXCEPT !.pc = "report"] /\ Go(c, s) /\ Unchanged
    BY <1>1 DEF PasteEnds
<1>4. s = [op |-> r.op, pc |-> "report", user |-> r.user, date |-> r.date, amounts |-> r.amounts,
           todo |-> r.todo, left |-> r.left, seen |-> r.seen, written |-> r.written,
           refused |-> r.refused, asked |-> r.asked, touched |-> r.touched]
    BY <1>2, <1>3 DEF Shaped
<1>5. Shaped(s) /\ PasteSound(s, snaps, UTCDay)
    BY <1>2, <1>4 DEF Shaped, PasteSound
<1> QED
    BY <1>2, <1>3, <1>4, <1>5, PasteIsSound, GoKeeps DEF Unchanged

LEMMA LooksKeeps ==
    ASSUME PageInv, NEW c \in Clients, Looks(c)
    PROVE  PageInv'
<1>1. PICK r : r = req[c]
    OBVIOUS
<1>2. /\ Shaped(r) /\ r.date \in Days /\ r.op \in {"paste", "add"} /\ r.pc = "look"
      /\ PasteSound(r, snaps, UTCDay) /\ r.todo # <<>>
    BY <1>1 DEF PageInv, Sound, Looks, Doing
<1>3. PICK next : next = Head(r.todo)
    OBVIOUS
<1>4. /\ next \in PostedRow /\ Tail(r.todo) \in Seq(PostedRow)
      /\ next.date \in Days
  <2>1. r.todo \in Seq(PostedRow) /\ r.todo # <<>>
      BY <1>2 DEF PasteSound
  <2>2. next \in PostedRow /\ Tail(r.todo) \in Seq(PostedRow)
      BY <1>3, <2>1
  <2>3. next.date \in Days
      BY <2>2 DEF PostedRow
  <2> QED
      BY <2>2, <2>3
<1>5. next.date <= UTCDay /\ next.amounts \in Forms
    BY <1>1, <1>3 DEF Looks, parseDateNotFuture, validateRegions
<1>6. PICK row : row = snaps[r.user][next.date]
    OBVIOUS
<1>7. PICK known : known = IF Reported(r, r.user, next.date) THEN r.touched
                           ELSE r.touched \ {<<r.user, next.date>>}
    OBVIOUS
<1> DEFINE looked == LooksAt(r, r.user, next.date)
           looking == [looked EXCEPT !.todo = Tail(@)]
<1>8. looked =
          [op |-> r.op, pc |-> r.pc, user |-> r.user, date |-> next.date, amounts |-> r.amounts,
           todo |-> r.todo, left |-> r.left, seen |-> r.seen, written |-> r.written,
           refused |-> r.refused, asked |-> r.asked, touched |-> known]
    BY <1>2, <1>7, LookedFields
<1>9. PICK s : /\ s = IF row = NoRow
                      THEN [looking EXCEPT !.amounts = next.amounts, !.pc = "find"]
                      ELSE [looking EXCEPT !.refused = @ \cup {[date |-> next.date, row |-> row]}]
               /\ Go(c, s) /\ Unchanged
    BY <1>1, <1>3, <1>6 DEF Looks
<1> HIDE DEF looked
<1>10. looking =
          [op |-> r.op, pc |-> r.pc, user |-> r.user, date |-> next.date, amounts |-> r.amounts,
           todo |-> Tail(r.todo), left |-> r.left, seen |-> r.seen, written |-> r.written,
           refused |-> r.refused, asked |-> r.asked, touched |-> known]
  <2>1. PICK rest : rest = Tail(looked.todo)
      OBVIOUS
  <2>2. rest = Tail(r.todo)
      BY <1>8, <2>1
  <2>3. looking = [looked EXCEPT !.todo = rest]
      BY <2>1
  <2> HIDE DEF looking
  <2> QED
      BY <1>8, <2>2, <2>3
<1> HIDE DEF looking
<1>11. \A w \in r.written :
          <<w.user, w.date>> \notin known => <<w.user, w.date>> \notin r.touched
    BY <1>7 DEF Reported
<1>12. \A x \in r.refused :
          <<r.user, x.date>> \notin known => <<r.user, x.date>> \notin r.touched
    BY <1>2, <1>7 DEF Reported
<1>13. /\ \A w \in r.written :
            /\ w.user = r.user /\ w.date \in Days /\ w.amounts \in Forms
            /\ <<w.user, w.date>> \notin known => snaps[w.user][w.date] = PasteRow(w.amounts)
       /\ \A x \in r.refused :
            /\ x.date \in Days /\ x.row # NoRow
            /\ <<r.user, x.date>> \notin known => snaps[r.user][x.date] = x.row
       /\ r.user \in Users
    BY <1>2, <1>11, <1>12 DEF PasteSound
<1>14. CASE row = NoRow
  <2>1. s = [op |-> r.op, pc |-> "find", user |-> r.user, date |-> next.date,
             amounts |-> next.amounts,
             todo |-> Tail(r.todo), left |-> r.left, seen |-> r.seen, written |-> r.written,
             refused |-> r.refused, asked |-> r.asked, touched |-> known]
      BY <1>10, <1>9, <1>14
  <2>2. Shaped(s)
      BY <2>1 DEF Shaped
  <2>3. PasteSound(s, snaps, UTCDay)
      BY <1>4, <1>5, <1>6, <1>13, <1>14, <2>1 DEF PasteSound
  <2> QED
      BY <1>2, <1>4, <1>9, <2>1, <2>2, <2>3, PasteIsSound, GoKeeps DEF Unchanged
<1>15. CASE row # NoRow
  <2> DEFINE x == [date |-> next.date, row |-> row]
  <2>1. s = [op |-> r.op, pc |-> "look", user |-> r.user, date |-> next.date,
             amounts |-> r.amounts,
             todo |-> Tail(r.todo), left |-> r.left, seen |-> r.seen, written |-> r.written,
             refused |-> r.refused \cup {x}, asked |-> r.asked, touched |-> known]
      BY <1>2, <1>10, <1>9, <1>15
  <2>2. Shaped(s)
      BY <2>1 DEF Shaped
  <2>3. x.date \in Days /\ x.row # NoRow /\ snaps[r.user][x.date] = x.row
      BY <1>4, <1>6, <1>15
  <2> HIDE DEF x
  <2>4. PasteSound(s, snaps, UTCDay)
      BY <1>4, <1>13, <2>1, <2>3 DEF PasteSound
  <2> QED
      BY <1>2, <1>4, <1>9, <2>1, <2>2, <2>4, PasteIsSound, GoKeeps DEF Unchanged
<1> QED
    BY <1>14, <1>15

-----------------------------------------------------------------------------
(***************************************************************************)
(* The two calls of an upsert, and a call that fails.                      *)
(***************************************************************************)
LEMMA UpsertFindsKeeps ==
    ASSUME PageInv, NEW c \in Clients, UpsertFinds(c)
    PROVE  PageInv'
<1>1. PICK r : r = req[c]
    OBVIOUS
<1>2. /\ Shaped(r) /\ r.date \in Days /\ r.pc = "find" /\ r.op \in {"paste", "add", "run"}
      /\ r.op \in {"paste", "add"} => PasteSound(r, snaps, UTCDay)
      /\ r.op = "run" => RunSound(r, snaps, UTCDay)
    BY <1>1 DEF PageInv, Sound, UpsertFinds, Doing
<1>3. PICK row : row = snaps[r.user][r.date]
    OBVIOUS
<1>4. PICK found : found = [r EXCEPT !.seen = row, !.pc = "write"]
    OBVIOUS
<1>5. found =
          [op |-> r.op, pc |-> "write", user |-> r.user, date |-> r.date, amounts |-> r.amounts,
           todo |-> r.todo, left |-> r.left, seen |-> row, written |-> r.written,
           refused |-> r.refused, asked |-> r.asked, touched |-> r.touched]
    BY <1>2, <1>4 DEF Shaped
<1>6. /\ Go(c, IF r.op = "run" THEN LooksAt(found, found.user, found.date) ELSE found)
      /\ UNCHANGED <<goldVars, hour>>
    BY <1>1, <1>3, <1>4 DEF UpsertFinds, Stored, Unchanged
<1>7. Shaped(found)
    BY <1>5 DEF Shaped
<1>8. CASE r.op \in {"paste", "add"}
  <2>1. PasteSound(found, snaps, UTCDay)
      BY <1>2, <1>3, <1>5, <1>8 DEF PasteSound
  <2>2. Go(c, found)
      BY <1>6, <1>8
  <2>3. Sound(found, snaps, UTCDay)
      BY <1>2, <1>5, <1>7, <1>8, <2>1, PasteIsSound
  <2> QED
      BY <1>6, <2>2, <2>3, GoKeeps
<1>9. CASE r.op = "run"
  <2>1. PICK s : s = LooksAt(found, found.user, found.date)
      OBVIOUS
  <2>2. PICK known : known = IF Reported(found, found.user, found.date) THEN found.touched
                             ELSE found.touched \ {<<found.user, found.date>>}
      OBVIOUS
  <2>3. s = [op |-> r.op, pc |-> "write", user |-> r.user, date |-> r.date,
             amounts |-> r.amounts,
             todo |-> r.todo, left |-> r.left, seen |-> row, written |-> r.written,
             refused |-> r.refused, asked |-> r.asked, touched |-> known]
    <3>1. s = [op |-> found.op, pc |-> found.pc, user |-> found.user, date |-> found.date,
               amounts |-> found.amounts, todo |-> found.todo, left |-> found.left,
               seen |-> found.seen, written |-> found.written,
               refused |-> found.refused, asked |-> found.asked, touched |-> known]
        BY <1>7, <2>1, <2>2, LookedFields
    <3> QED
        BY <1>5, <3>1
  <2>4. RunSound(r, snaps, UTCDay)
      BY <1>2, <1>9
  <2>5. \A w \in r.written :
            <<w.user, w.date>> \notin known => <<w.user, w.date>> \notin r.touched
      BY <1>2, <1>5, <2>2, <2>4 DEF RunSound
  <2>6. Shaped(s)
      BY <2>3 DEF Shaped
  <2>7. Reaches(s)
      BY <1>2, <2>3, <2>4 DEF RunSound, Reaches
  <2>8. \A w \in s.written :
            /\ w.user \in Users \ s.left /\ w.date = s.date
            /\ <<w.user, w.date>> \notin s.touched =>
                  CarriesRun(snaps[w.user][w.date], w.amounts)
      BY <2>3, <2>4, <2>5 DEF RunSound
  <2>9. RunSound(s, snaps, UTCDay)
      BY <1>2, <1>3, <2>3, <2>4, <2>7, <2>8 DEF RunSound
  <2>10. Sound(s, snaps, UTCDay)
      BY <1>2, <1>9, <2>3, <2>6, <2>9, RunIsSound
  <2>11. Go(c, s)
      BY <1>6, <1>9, <2>1
  <2> QED
      BY <1>6, <2>10, <2>11, GoKeeps
<1> QED
    BY <1>2, <1>8, <1>9

LEMMA UpsertedFields ==
    ASSUME NEW c, Shaped(req[c])
    PROVE  LET r == req[c]
           IN  Upserted(c) =
                  [op |-> r.op, pc |-> IF r.op = "run" THEN "next" ELSE "look", user |-> r.user,
                   date |-> r.date, amounts |-> <<>>, todo |-> r.todo, left |-> r.left,
                   seen |-> NoRow,
                   written |-> r.written \cup
                       {[user |-> r.user, date |-> r.date, amounts |-> r.amounts]},
                   refused |-> r.refused, asked |-> r.asked, touched |-> r.touched]
<1>1. PICK r : r = req[c]
    OBVIOUS
<1>2. PICK done : done = [user |-> r.user, date |-> r.date, amounts |-> r.amounts]
    OBVIOUS
<1>3. Upserted(c) =
          [r EXCEPT !.written = @ \cup {done}, !.seen = NoRow, !.amounts = <<>>,
                    !.pc = IF r.op = "run" THEN "next" ELSE "look"]
    BY <1>1, <1>2 DEF Upserted
<1>4. Upserted(c) =
          [op |-> r.op, pc |-> IF r.op = "run" THEN "next" ELSE "look", user |-> r.user,
           date |-> r.date, amounts |-> <<>>, todo |-> r.todo, left |-> r.left,
           seen |-> NoRow, written |-> r.written \cup {done},
           refused |-> r.refused, asked |-> r.asked, touched |-> r.touched]
    BY <1>1, <1>3 DEF Shaped
<1> QED
    BY <1>1, <1>2, <1>4

\* What has been upserted is reported, wherever nobody else wrote: rows are the
\* rows before, rows2 the rows after it.
LEMMA PastedIsSound ==
    ASSUME NEW c, NEW rows, NEW rows2, NEW day,
           Shaped(req[c]), req[c].date \in Days, req[c].op \in {"paste", "add"},
           req[c].pc = "write", PasteSound(req[c], rows, day),
           \A u \in Users, d \in Days :
               u # req[c].user \/ d # req[c].date => rows2[u][d] = rows[u][d],
           <<req[c].user, req[c].date>> \notin req[c].touched =>
               rows2[req[c].user][req[c].date] = PasteRow(req[c].amounts)
    PROVE  Sound(Upserted(c), rows2, day)
<1>1. PICK r : r = req[c]
    OBVIOUS
<1>2. PICK done : done = [user |-> r.user, date |-> r.date, amounts |-> r.amounts]
    OBVIOUS
<1>3. PICK s : s = Upserted(c)
    OBVIOUS
<1>4. s = [op |-> r.op, pc |-> "look", user |-> r.user,
           date |-> r.date, amounts |-> <<>>, todo |-> r.todo, left |-> r.left,
           seen |-> NoRow, written |-> r.written \cup {done},
           refused |-> r.refused, asked |-> r.asked, touched |-> r.touched]
    BY <1>1, <1>2, <1>3, UpsertedFields
<1>5. /\ r.user \in Users /\ r.amounts \in Forms /\ r.todo \in Seq(PostedRow)
      /\ <<r.user, r.date>> \notin r.touched => rows[r.user][r.date] = NoRow
    BY <1>1 DEF PasteSound
<1>6. ASSUME NEW w \in s.written
      PROVE  /\ w.user = s.user /\ w.date \in Days /\ w.amounts \in Forms
             /\ <<w.user, w.date>> \notin s.touched =>
                   rows2[w.user][w.date] = PasteRow(w.amounts)
  <2>1. CASE w = done
      BY <1>1, <1>2, <1>4, <1>5, <2>1
  <2>2. CASE w \in r.written
    <3>1. /\ w.user = r.user /\ w.date \in Days /\ w.amounts \in Forms
          /\ <<w.user, w.date>> \notin r.touched => rows[w.user][w.date] = PasteRow(w.amounts)
        BY <1>1, <2>2 DEF PasteSound
    <3>2. w.date = r.date => <<w.user, w.date>> \in r.touched
        BY <1>5, <3>1, PasteRowIsARow
    <3> QED
        BY <1>1, <1>4, <1>5, <3>1, <3>2
  <2> QED
      BY <1>4, <2>1, <2>2
<1>7. ASSUME NEW x \in s.refused
      PROVE  /\ x.date \in Days /\ x.row # NoRow
             /\ <<s.user, x.date>> \notin s.touched => rows2[s.user][x.date] = x.row
  <2>1. /\ x.date \in Days /\ x.row # NoRow
        /\ <<r.user, x.date>> \notin r.touched => rows[r.user][x.date] = x.row
      BY <1>1, <1>4 DEF PasteSound
  <2>2. x.date = r.date => <<r.user, x.date>> \in r.touched
      BY <1>5, <2>1
  <2> QED
      BY <1>1, <1>4, <1>5, <2>1, <2>2
<1>8. Shaped(s)
    BY <1>4 DEF Shaped
<1>9. PasteSound(s, rows2, day)
    BY <1>4, <1>5, <1>6, <1>7 DEF PasteSound
<1>10. Sound(s, rows2, day)
    BY <1>1, <1>4, <1>8, <1>9, PasteIsSound
<1> QED
    BY <1>3, <1>10

LEMMA RanIsSound ==
    ASSUME NEW c, NEW rows, NEW rows2, NEW day,
           Shaped(req[c]), req[c].date \in Days, req[c].op = "run",
           req[c].pc = "write", RunSound(req[c], rows, day),
           \A u \in Users, d \in Days :
               u # req[c].user \/ d # req[c].date => rows2[u][d] = rows[u][d],
           <<req[c].user, req[c].date>> \notin req[c].touched =>
               CarriesRun(rows2[req[c].user][req[c].date], req[c].amounts)
    PROVE  Sound(Upserted(c), rows2, day)
<1>1. PICK r : r = req[c]
    OBVIOUS
<1>2. PICK done : done = [user |-> r.user, date |-> r.date, amounts |-> r.amounts]
    OBVIOUS
<1>3. PICK s : s = Upserted(c)
    OBVIOUS
<1>4. s = [op |-> r.op, pc |-> "next", user |-> r.user,
           date |-> r.date, amounts |-> <<>>, todo |-> r.todo, left |-> r.left,
           seen |-> NoRow, written |-> r.written \cup {done},
           refused |-> r.refused, asked |-> r.asked, touched |-> r.touched]
    BY <1>1, <1>2, <1>3, UpsertedFields
<1>5. r.user \in Users \ r.left /\ r.left \subseteq Users /\ r.date <= day
    BY <1>1 DEF RunSound
<1>6. ASSUME NEW w \in s.written
      PROVE  /\ w.user \in Users \ s.left /\ w.date = s.date
             /\ <<w.user, w.date>> \notin s.touched =>
                   CarriesRun(rows2[w.user][w.date], w.amounts)
  <2>1. CASE w = done
      BY <1>1, <1>2, <1>4, <1>5, <2>1
  <2>2. CASE w \in r.written
    <3>1. /\ w.user \in Users \ r.left /\ w.date = r.date /\ w.user # r.user
          /\ <<w.user, w.date>> \notin r.touched =>
                CarriesRun(rows[w.user][w.date], w.amounts)
        BY <1>1, <2>2 DEF RunSound
    <3> QED
        BY <1>1, <1>4, <3>1
  <2> QED
      BY <1>4, <2>1, <2>2
<1>7. Reaches(s)
  <2>1. r.asked = r.left \cup r.refused \cup {w.user : w \in r.written} \cup {r.user}
      BY <1>1 DEF RunSound, Reaches
  <2>2. {w.user : w \in r.written \cup {done}} = {w.user : w \in r.written} \cup {r.user}
      BY <1>2
  <2> QED
      BY <1>4, <2>1, <2>2 DEF Reaches
<1>8. Shaped(s)
    BY <1>4 DEF Shaped
<1>9. RunSound(s, rows2, day)
    BY <1>4, <1>5, <1>6, <1>7 DEF RunSound
<1>10. Sound(s, rows2, day)
    BY <1>1, <1>4, <1>8, <1>9, RunIsSound
<1> QED
    BY <1>3, <1>10

LEMMA UpsertWritesKeeps ==
    ASSUME PageInv, NEW c \in Clients, UpsertWrites(c)
    PROVE  PageInv'
<1>1. PICK r : r = req[c]
    OBVIOUS
<1>2. /\ Shaped(r) /\ r.date \in Days /\ r.pc = "write" /\ r.op \in {"paste", "add", "run"}
      /\ r.op \in {"paste", "add"} => PasteSound(r, snaps, UTCDay)
      /\ r.op = "run" => RunSound(r, snaps, UTCDay)
    BY <1>1 DEF PageInv, Sound, UpsertWrites, Doing
<1>3. /\ r.user \in Users /\ r.date <= UTCDay
      /\ UNCHANGED <<goldVars, hour>>
    BY <1>1, <1>2 DEF PasteSound, RunSound, UpsertWrites, Unchanged
<1>4. PICK new : new = Incoming(r)
    OBVIOUS
<1>5. r.seen # NoRow \/ snaps[r.user][r.date] = NoRow
    BY <1>1 DEF UpsertWrites, Stored
<1>6. CASE r.seen # NoRow /\ snaps[r.user][r.date] = NoRow
  <2>1. Go(c, Upserted(c))
      BY <1>1, <1>6 DEF UpsertWrites, Stored
  <2>2. <<r.user, r.date>> \in r.touched
      BY <1>2, <1>6 DEF PasteSound, RunSound
  <2>3. Sound(Upserted(c), snaps, UTCDay)
    <3>1. CASE r.op = "run"
        BY <1>1, <1>2, <2>2, <3>1, RanIsSound
    <3>2. CASE r.op \in {"paste", "add"}
        BY <1>1, <1>2, <2>2, <3>2, PastedIsSound
    <3> QED
        BY <1>2, <3>1, <3>2
  <2> QED
      BY <1>3, <2>1, <2>3, GoKeeps
<1>7. CASE ~(r.seen # NoRow /\ snaps[r.user][r.date] = NoRow)
  <2>1. PICK row : row = IF r.seen = NoRow THEN new
                         ELSE [new EXCEPT !.buckets = Merged(r.seen.buckets, @)]
      OBVIOUS
  <2>2. Write(c, row, Upserted(c))
      BY <1>1, <1>4, <1>7, <2>1 DEF UpsertWrites, Stored
  <2>3. snaps' = [snaps EXCEPT ![r.user][r.date] = row]
      BY <1>1, <2>2 DEF Write
  <2>4. /\ \A u \in Users, d \in Days :
              u # r.user \/ d # r.date => snaps'[u][d] = snaps[u][d]
        /\ snaps'[r.user][r.date] = row
      BY <1>2, <1>3, <2>3 DEF PageInv, RowsOf
  <2>5. CASE r.op = "run"
    <3>1. PICK buckets : buckets = CronBuckets(r.amounts)
        OBVIOUS
    <3>2. new = [buckets |-> buckets, backed |-> TRUE]
        BY <1>4, <2>5, <3>1 DEF Incoming
    <3>3. /\ row.backed
          /\ row.buckets = IF r.seen = NoRow THEN buckets ELSE Merged(r.seen.buckets, buckets)
        BY <2>1, <3>2
    <3>4. \A k \in Currencies : k \in Keys /\ buckets[k] = Cron(r.amounts[k])
        BY <3>1 DEF CronBuckets, Keys
    <3>5. \A k \in Currencies : IsManual(row.buckets[k]) \/ row.buckets[k] = Cron(r.amounts[k])
        BY <3>3, <3>4 DEF Merged
    <3>6. CarriesRun(row, r.amounts)
        BY <3>3, <3>5 DEF CarriesRun
    <3>7. Sound(Upserted(c), snaps', UTCDay)
      <4>1. CarriesRun(snaps'[r.user][r.date], r.amounts)
          BY <2>4, <3>6
      <4>2. /\ Shaped(req[c]) /\ req[c].date \in Days /\ req[c].op = "run"
            /\ req[c].pc = "write" /\ RunSound(req[c], snaps, UTCDay)
          BY <1>1, <1>2, <2>5
      <4>3. \A u \in Users, d \in Days :
                u # req[c].user \/ d # req[c].date => snaps'[u][d] = snaps[u][d]
          BY <1>1, <2>4
      <4>4. <<req[c].user, req[c].date>> \notin req[c].touched =>
                CarriesRun(snaps'[req[c].user][req[c].date], req[c].amounts)
          BY <1>1, <4>1
      <4>5. PICK rows, rows2 : rows = snaps /\ rows2 = snaps'
          OBVIOUS
      <4>6. /\ RunSound(req[c], rows, UTCDay)
            /\ \A u \in Users, d \in Days :
                  u # req[c].user \/ d # req[c].date => rows2[u][d] = rows[u][d]
            /\ <<req[c].user, req[c].date>> \notin req[c].touched =>
                  CarriesRun(rows2[req[c].user][req[c].date], req[c].amounts)
          BY <4>2, <4>3, <4>4, <4>5
      <4>7. Sound(Upserted(c), rows2, UTCDay)
          BY <4>2, <4>6, RanIsSound
      <4> QED
          BY <4>5, <4>7
    <3> QED
        BY <1>1, <1>2, <1>3, <2>2, <3>7, WriteKeeps
  <2>6. CASE r.op \in {"paste", "add"}
    <3>1. <<r.user, r.date>> \notin r.touched => row = PasteRow(r.amounts)
        BY <1>2, <1>4, <2>1, <2>6 DEF PasteSound, Incoming, PasteRow
    <3>2. Sound(Upserted(c), snaps', UTCDay)
        BY <1>1, <1>2, <2>4, <2>6, <3>1, PastedIsSound
    <3> QED
        BY <1>1, <1>2, <1>3, <2>2, <3>2, WriteKeeps
  <2> QED
      BY <1>2, <2>5, <2>6
<1> QED
    BY <1>6, <1>7

LEMMA CallFailsKeeps ==
    ASSUME PageInv, NEW c \in Clients, CallFails(c)
    PROVE  PageInv'
<1>1. PICK r : r = req[c]
    OBVIOUS
<1>2. /\ Shaped(r) /\ r.date \in Days /\ r.pc \in {"look", "find", "write"}
      /\ r.op = "run" => RunSound(r, snaps, UTCDay)
      /\ UNCHANGED <<goldVars, hour>>
    BY <1>1 DEF PageInv, Sound, CallFails, Unchanged
<1>3. CASE r.op # "run"
  <2>1. Go(c, NoRequest)
      BY <1>1, <1>3 DEF CallFails
  <2> QED
      BY <1>2, <2>1, IdleIsSound, GoKeeps
<1>4. CASE r.op = "run"
  <2>1. PICK s : s = [r EXCEPT !.refused = @ \cup {r.user}, !.seen = NoRow,
                               !.amounts = <<>>, !.pc = "next"]
      OBVIOUS
  <2>2. Go(c, s)
      BY <1>1, <1>4, <2>1 DEF CallFails
  <2>3. s = [op |-> r.op, pc |-> "next", user |-> r.user, date |-> r.date, amounts |-> <<>>,
             todo |-> r.todo, left |-> r.left, seen |-> NoRow, written |-> r.written,
             refused |-> r.refused \cup {r.user}, asked |-> r.asked, touched |-> r.touched]
      BY <1>2, <2>1 DEF Shaped
  <2>4. RunSound(r, snaps, UTCDay) /\ r.pc \in {"find", "write"}
      BY <1>2, <1>4 DEF RunSound
  <2>5. Reaches(s)
      BY <2>3, <2>4 DEF RunSound, Reaches
  <2>6. RunSound(s, snaps, UTCDay)
      BY <2>3, <2>4, <2>5 DEF RunSound
  <2>7. Shaped(s)
      BY <2>3 DEF Shaped
  <2>8. Sound(s, snaps, UTCDay)
      BY <1>2, <1>4, <2>3, <2>6, <2>7, RunIsSound
  <2> QED
      BY <1>2, <2>2, <2>8, GoKeeps
<1> QED
    BY <1>3, <1>4

-----------------------------------------------------------------------------
(***************************************************************************)
(* Overrides and deletions.                                                *)
(***************************************************************************)
LEMMA OverrideLooksKeeps ==
    ASSUME PageInv, NEW c \in Clients, OverrideLooks(c)
    PROVE  PageInv'
<1>1. PICK r : r = req[c]
    OBVIOUS
<1>2. /\ Shaped(r) /\ r.date \in Days /\ r.op = "override"
      /\ r.user \in Users /\ Unchanged
    BY <1>1 DEF PageInv, Sound, OverrideLooks, Doing
<1>3. CASE parseDateNotFuture(r.date) /\ Stored(c) # NoRow
  <2>1. PICK s : s = [r EXCEPT !.seen = Stored(c), !.pc = "write"]
      OBVIOUS
  <2>2. Go(c, s)
      BY <1>1, <1>3, <2>1 DEF OverrideLooks
  <2>3. Sound(s, snaps, UTCDay)
    <3>1. s = [op |-> r.op, pc |-> "write", user |-> r.user, date |-> r.date,
               amounts |-> r.amounts, todo |-> r.todo, left |-> r.left, seen |-> Stored(c),
               written |-> r.written, refused |-> r.refused, asked |-> r.asked,
               touched |-> r.touched]
        BY <1>2, <2>1 DEF Shaped
    <3>2. Shaped(s) /\ s.pc # "idle" /\ s # NoRequest
        BY <3>1 DEF Shaped, NoRequest
    <3> QED
        BY <1>2, <3>1, <3>2 DEF Sound, None
  <2> QED
      BY <1>2, <2>2, <2>3, GoKeeps DEF Unchanged
<1>4. CASE ~(parseDateNotFuture(r.date) /\ Stored(c) # NoRow)
  <2>1. Finish(c)
      BY <1>1, <1>4 DEF OverrideLooks
  <2> QED
      BY <1>2, <2>1, FinishKeeps
<1> QED
    BY <1>3, <1>4

LEMMA OverrideWritesKeeps ==
    ASSUME PageInv, NEW c \in Clients, OverrideWrites(c)
    PROVE  PageInv'
<1>1. PICK r : r = req[c]
    OBVIOUS
<1>2. /\ r.date \in Days /\ r.op = "override" /\ Unchanged /\ r.user \in Users
    BY <1>1 DEF PageInv, Sound, OverrideWrites, Doing
<1>3. CASE Stored(c) = NoRow
  <2>1. Finish(c)
      BY <1>3 DEF OverrideWrites
  <2> QED
      BY <1>2, <2>1, FinishKeeps
<1>4. CASE Stored(c) # NoRow
  <2>1. PICK row : Write(c, row, NoRequest)
      BY <1>4, Zenon DEF OverrideWrites
  <2>2. r.date <= UTCDay
      BY <1>1, <1>2, <1>4 DEF PageInv, NotAhead, Stored
  <2>3. Sound(NoRequest, snaps', UTCDay)
      BY IdleIsSound
  <2> QED
      BY <1>1, <1>2, <2>1, <2>2, <2>3, WriteKeeps DEF Unchanged
<1> QED
    BY <1>3, <1>4

LEMMA DeleteLooksKeeps ==
    ASSUME PageInv, NEW c \in Clients, DeleteLooks(c)
    PROVE  PageInv'
<1>1. PICK r : r = req[c]
    OBVIOUS
<1>2. /\ Shaped(r) /\ r.date \in Days /\ r.op \in {"delete", "forceDelete"}
      /\ r.user \in Users /\ Unchanged
    BY <1>1 DEF PageInv, Sound, DeleteLooks, Doing
<1>3. PICK s : s = [r EXCEPT !.pc = "write"]
    OBVIOUS
<1>4. Go(c, s) \/ Finish(c)
    BY <1>1, <1>3 DEF DeleteLooks
<1>5. Sound(s, snaps, UTCDay)
  <2>1. s = [op |-> r.op, pc |-> "write", user |-> r.user, date |-> r.date,
             amounts |-> r.amounts, todo |-> r.todo, left |-> r.left, seen |-> r.seen,
             written |-> r.written, refused |-> r.refused, asked |-> r.asked,
             touched |-> r.touched]
      BY <1>2, <1>3 DEF Shaped
  <2>2. Shaped(s) /\ s.pc # "idle" /\ s # NoRequest
      BY <2>1 DEF Shaped, NoRequest
  <2> QED
      BY <1>2, <2>1, <2>2 DEF Sound, None
<1> QED
    BY <1>2, <1>4, <1>5, GoKeeps, FinishKeeps DEF Unchanged

LEMMA DeleteWritesKeeps ==
    ASSUME PageInv, NEW c \in Clients, DeleteWrites(c)
    PROVE  PageInv'
<1>1. /\ Write(c, NoRow, NoRequest) /\ Unchanged
      /\ req[c].date \in Days /\ req[c].user \in Users
    BY DEF PageInv, Sound, DeleteWrites, Doing
<1>2. Sound(NoRequest, snaps', UTCDay)
    BY IdleIsSound
<1> QED
    BY <1>1, <1>2, WriteKeeps DEF Unchanged

-----------------------------------------------------------------------------
(***************************************************************************)
(* A run of the job.                                                       *)
(***************************************************************************)
LEMMA BuildsKeeps ==
    ASSUME PageInv, NEW c \in Clients, Builds(c)
    PROVE  PageInv'
<1>1. PICK r : r = req[c]
    OBVIOUS
<1>2. /\ Shaped(r) /\ r.date \in Days /\ r.op = "run" /\ r.pc = "next"
      /\ RunSound(r, snaps, UTCDay) /\ Unchanged
    BY <1>1 DEF PageInv, Sound, Builds, Doing
<1>3. PICK user \in Nearest(r.left), amounts \in [Currencies -> JobAmounts] :
          Go(c, [r EXCEPT !.user = user, !.left = @ \ {user},
                          !.amounts = amounts, !.pc = "find"])
    BY <1>1, Zenon DEF Builds
<1>4. user \in r.left
    BY DEF Nearest
<1>5. PICK s : s = [r EXCEPT !.user = user, !.left = @ \ {user},
                             !.amounts = amounts, !.pc = "find"]
    OBVIOUS
<1>6. s = [op |-> r.op, pc |-> "find", user |-> user, date |-> r.date, amounts |-> amounts,
           todo |-> r.todo, left |-> r.left \ {user}, seen |-> r.seen, written |-> r.written,
           refused |-> r.refused, asked |-> r.asked, touched |-> r.touched]
    BY <1>2, <1>5 DEF Shaped
<1>7. Shaped(s)
    BY <1>6 DEF Shaped
<1>8. Reaches(s)
    BY <1>2, <1>4, <1>6 DEF RunSound, Reaches
<1>9. RunSound(s, snaps, UTCDay)
    BY <1>2, <1>4, <1>6, <1>8 DEF RunSound
<1>10. Sound(s, snaps, UTCDay)
    BY <1>2, <1>6, <1>7, <1>9, RunIsSound
<1> QED
    BY <1>2, <1>3, <1>5, <1>10, GoKeeps DEF Unchanged

LEMMA BuildFailsKeeps ==
    ASSUME PageInv, NEW c \in Clients, BuildFails(c)
    PROVE  PageInv'
<1>1. PICK r : r = req[c]
    OBVIOUS
<1>2. /\ Shaped(r) /\ r.date \in Days /\ r.op = "run" /\ r.pc = "next"
      /\ RunSound(r, snaps, UTCDay) /\ Unchanged
    BY <1>1 DEF PageInv, Sound, BuildFails, Doing
<1>3. PICK user \in Nearest(r.left) :
          Go(c, [r EXCEPT !.left = @ \ {user}, !.refused = @ \cup {user}])
    BY <1>1, Zenon DEF BuildFails
<1>4. user \in r.left
    BY DEF Nearest
<1>5. PICK s : s = [r EXCEPT !.left = @ \ {user}, !.refused = @ \cup {user}]
    OBVIOUS
<1>6. s = [op |-> r.op, pc |-> r.pc, user |-> r.user, date |-> r.date, amounts |-> r.amounts,
           todo |-> r.todo, left |-> r.left \ {user}, seen |-> r.seen, written |-> r.written,
           refused |-> r.refused \cup {user}, asked |-> r.asked, touched |-> r.touched]
    BY <1>2, <1>5 DEF Shaped
<1>7. Shaped(s)
    BY <1>6 DEF Shaped
<1>8. Reaches(s)
    BY <1>2, <1>4, <1>6 DEF RunSound, Reaches
<1>9. RunSound(s, snaps, UTCDay)
    BY <1>2, <1>4, <1>6, <1>8 DEF RunSound
<1>10. Sound(s, snaps, UTCDay)
    BY <1>2, <1>6, <1>7, <1>9, RunIsSound
<1> QED
    BY <1>2, <1>3, <1>5, <1>10, GoKeeps DEF Unchanged

LEMMA RunEndsKeeps ==
    ASSUME PageInv, NEW c \in Clients, RunEnds(c)
    PROVE  PageInv'
<1>1. PICK r : r = req[c]
    OBVIOUS
<1>2. /\ Shaped(r) /\ r.date \in Days /\ r.op = "run" /\ r.pc = "next" /\ r.left = {}
      /\ RunSound(r, snaps, UTCDay) /\ Unchanged
    BY <1>1 DEF PageInv, Sound, RunEnds, Doing
<1>3. PICK s : s = [r EXCEPT !.pc = "report"] /\ Go(c, s)
    BY <1>1 DEF RunEnds
<1>4. s = [op |-> r.op, pc |-> "report", user |-> r.user, date |-> r.date, amounts |-> r.amounts,
           todo |-> r.todo, left |-> r.left, seen |-> r.seen, written |-> r.written,
           refused |-> r.refused, asked |-> r.asked, touched |-> r.touched]
    BY <1>2, <1>3 DEF Shaped
<1>5. Shaped(s)
    BY <1>4 DEF Shaped
<1>6. Reaches(s)
    BY <1>2, <1>4 DEF RunSound, Reaches
<1>7. RunSound(s, snaps, UTCDay)
    BY <1>2, <1>4, <1>6 DEF RunSound
<1>8. Sound(s, snaps, UTCDay)
    BY <1>2, <1>4, <1>5, <1>7, RunIsSound
<1> QED
    BY <1>2, <1>3, <1>8, GoKeeps DEF Unchanged

LEMMA BeginKeeps ==
    ASSUME PageInv, NEW c \in Clients, Begin(c)
    PROVE  PageInv'
<1>1. PICK s \in PageRequests \cup runSnapshot : Go(c, s)
    BY DEF Begin
<1>2. UNCHANGED <<goldVars, hour>>
    BY DEF Begin
<1>3. Sound(s, snaps, UTCDay)
  <2>1. CASE s \in runSnapshot
    <3>1. PICK active \in SUBSET Users, date \in 0..tradingDate : s = RunOf(active, date)
        BY <2>1 DEF runSnapshot, activeUsers
    <3>2. s = [op |-> "run", pc |-> "next", user |-> 0, date |-> date, amounts |-> <<>>,
               todo |-> <<>>, left |-> active, seen |-> NoRow, written |-> {},
               refused |-> {}, asked |-> active, touched |-> {}]
        BY <3>1 DEF NoRequest, RunOf
    <3>3. date \in Days /\ date <= UTCDay
      <4>1. UTCDay \in Int /\ tradingDate \in Days /\ tradingDate <= UTCDay
          BY ClockFacts DEF PageInv
      <4>2. PICK present, trading : present = UTCDay /\ trading = tradingDate
          OBVIOUS
      <4>3. date \in 0..trading /\ present \in Int /\ trading \in 0..LastDay /\ trading <= present
          BY <4>1, <4>2 DEF Days
      <4>4. date \in 0..LastDay /\ date <= present
          BY <4>3, PricesArePositive
      <4> QED
          BY <4>2, <4>4 DEF Days
    <3>4. Shaped(s)
        BY <3>2 DEF Shaped
    <3>5. RunSound(s, snaps, UTCDay)
        BY <3>2, <3>3 DEF RunSound, Reaches
    <3> QED
        BY <3>2, <3>3, <3>4, <3>5, RunIsSound
  <2>2. CASE s \in PageRequests
    <3> DEFINE Asks(op, user, date, amounts, todo) ==
                  s = [op |-> op, pc |-> "look", user |-> user, date |-> date,
                       amounts |-> amounts, todo |-> todo, left |-> {}, seen |-> NoRow,
                       written |-> {}, refused |-> {}, asked |-> {}, touched |-> {}]
    <3>1. ASSUME NEW op \in {"paste", "add"}, NEW user \in Users, NEW todo \in Seq(PostedRow),
                 Asks(op, user, 0, <<>>, todo)
          PROVE  Sound(s, snaps, UTCDay)
      <4>1. Shaped(s)
          BY <3>1 DEF Shaped
      <4>2. PasteSound(s, snaps, UTCDay)
          BY <3>1 DEF PasteSound
      <4> QED
          BY <3>1, <4>1, <4>2, DayIsADay, PasteIsSound
    <3>2. ASSUME NEW op \in {"override", "delete", "forceDelete"}, NEW user \in Users,
                 NEW date \in Days, NEW amounts, Asks(op, user, date, amounts, <<>>)
          PROVE  Sound(s, snaps, UTCDay)
      <4>1. Shaped(s) /\ s.pc # "idle" /\ s # NoRequest
          BY <3>2 DEF Shaped, NoRequest
      <4> QED
          BY <3>2, <4>1 DEF Sound, None
    <3>3. ASSUME NEW user \in Editors, NEW list \in Pasted, s = PasteOf(user, list)
          PROVE  Sound(s, snaps, UTCDay)
      <4>1. Asks("paste", user, 0, <<>>, list)
          BY <3>3 DEF NoRequest, PasteOf
      <4>2. [date : Days, amounts : Forms \cup {<<>>}] \subseteq PostedRow
          BY DEF PostedRow
      <4>3. list \in Seq([date : Days, amounts : Forms \cup {<<>>}])
          BY PastesAreRows
      <4>4. list \in Seq(PostedRow)
          BY <4>2, <4>3, SeqsGrow
      <4> QED
          BY <3>1, <4>1, <4>4, UsersAreOrdered
    <3>4. ASSUME NEW user \in Editors, NEW day \in Days, NEW form \in FormAmounts,
                 s = AddOf(user, day, form)
          PROVE  Sound(s, snaps, UTCDay)
      <4>1. Asks("add", user, 0, <<>>, <<[date |-> day, amounts |-> form]>>)
          BY <3>4 DEF NoRequest, AddOf
      <4>2. <<[date |-> day, amounts |-> form]>> \in Seq(PostedRow)
          BY DEF PostedRow
      <4> QED
          BY <3>1, <4>1, <4>2, UsersAreOrdered
    <3>5. ASSUME NEW user \in Editors, NEW day \in Days, NEW form \in FormAmounts,
                 s = OverrideOf(user, day, form)
          PROVE  Sound(s, snaps, UTCDay)
      <4>1. Asks("override", user, day, form, <<>>)
          BY <3>5 DEF NoRequest, OverrideOf
      <4> QED
          BY <3>2, <4>1, UsersAreOrdered
    <3>6. ASSUME NEW op \in {"delete", "forceDelete"}, NEW user \in Editors, NEW day \in Days,
                 s = DeleteOf(op, user, day)
          PROVE  Sound(s, snaps, UTCDay)
      <4>1. Asks(op, user, day, <<>>, <<>>)
          BY <3>6 DEF NoRequest, DeleteOf
      <4> QED
          BY <3>2, <4>1, UsersAreOrdered
    <3> QED
        BY <2>2, <3>3, <3>4, <3>5, <3>6 DEF PageRequests
  <2> QED
      BY <1>1, <2>1, <2>2
<1> QED
    BY <1>1, <1>2, <1>3, GoKeeps

LEMMA LeavesKeeps ==
    ASSUME PageInv, NEW c \in Clients, Leaves(c)
    PROVE  PageInv'
    BY FinishKeeps DEF Leaves

-----------------------------------------------------------------------------
(***************************************************************************)
(* The clocks, the gold pages, and all of it together.                     *)
(***************************************************************************)

\* The server's day never goes back, so nothing dated by it gets ahead.
LEMMA LaterKeeps ==
    ASSUME PageInv, ClockInv', UTCDay <= UTCDay', UTCDay' \in Int, UNCHANGED <<snaps, req>>
    PROVE  PageInv'
<1>1. UTCDay \in Int
    BY ClockFacts DEF PageInv
<1>2. PICK present, later : present = UTCDay /\ later = UTCDay'
    OBVIOUS
<1>3. present \in Int /\ later \in Int /\ present <= later
    BY <1>1, <1>2
<1>4. NotAhead(snaps, later)
    BY <1>2, <1>3 DEF PageInv, NotAhead, Days
<1>5. \A c \in Clients : Sound(req[c], snaps, later)
    BY <1>2, <1>3, LaterIsSound DEF PageInv
<1>6. snaps' = snaps /\ req' = req
    OBVIOUS
<1> QED
    BY <1>2, <1>4, <1>5, <1>6 DEF PageInv

LEMMA HourPassesKeeps ==
    ASSUME PageInv, HourPasses
    PROVE  PageInv'
<1>1. ClockInv'
    BY PricesArePositive DEF PageInv, ClockInv, HourPasses, Days
<1>2. UTCDay \in Int /\ UTCDay' \in Int /\ UTCDay <= UTCDay'
    BY PricesArePositive DEF PageInv, ClockInv, HourPasses, UTCDay, Days
<1> QED
    BY <1>1, <1>2, LaterKeeps DEF HourPasses

LEMMA GoldKeeps ==
    ASSUME PageInv, GoldNext, UNCHANGED rowVars
    PROVE  PageInv'
<1>1. \/ today' = today
      \/ today < LastDay /\ today' = today + 1
    BY DEF GoldNext, Edit, CreateTransaction, UpdateTransaction, DeleteTransaction, PutPrices,
           DeleteAllByUser, DayPasses, ReadLedger, ReadPrices
<1>2. hour' = hour /\ UNCHANGED <<snaps, req>>
    BY DEF rowVars
<1>3. ClockInv'
    BY <1>1, <1>2, PricesArePositive DEF PageInv, ClockInv, Days
<1>4. UTCDay' \in Int /\ UTCDay <= UTCDay'
    BY <1>1, <1>2, PricesArePositive DEF PageInv, ClockInv, UTCDay, Days
<1> QED
    BY <1>2, <1>3, <1>4, LaterKeeps

LEMMA PageInvInit == Init => PageInv
<1> SUFFICES ASSUME Init PROVE PageInv
    OBVIOUS
<1>1. ClockInv /\ UTCDay = 0
    BY PricesArePositive DEF Init, GoldInit, ClockInv, Days, UTCDay
<1>2. RowsOf(snaps) /\ NotAhead(snaps, 0)
  <2>1. snaps \in InitialSnaps
      BY DEF Init
  <2>2. RowsOf(snaps)
      BY <2>1, SnapsAreRows DEF RowsOf
  <2>3. \A user \in Users, day \in Days : snaps[user][day] # NoRow => day = 0
      BY <2>1, SnapsAreNotAhead
  <2>4. NotAhead(snaps, 0)
      BY <2>3 DEF NotAhead, Days
  <2> QED
      BY <2>2, <2>4
<1>3. req = [c \in Clients |-> NoRequest]
    BY DEF Init
<1>4. req = [c \in Clients |-> req[c]] /\ \A c \in Clients : req[c] = NoRequest
    BY <1>3
<1>5. \A c \in Clients : Sound(req[c], snaps, UTCDay)
    BY <1>4, IdleIsSound
<1> QED
    BY <1>1, <1>2, <1>4, <1>5 DEF PageInv

LEMMA PageInvStep == PageInv /\ [Next]_vars => PageInv'
<1> SUFFICES ASSUME PageInv, [Next]_vars PROVE PageInv'
    OBVIOUS
<1>1. CASE GoldNext /\ UNCHANGED rowVars
    BY <1>1, GoldKeeps
<1>2. CASE HourPasses
    BY <1>2, HourPassesKeeps
<1>3. CASE Requests
  <2> SUFFICES ASSUME NEW c \in Clients,
                      \/ Begin(c) \/ Rejects(c) \/ Looks(c) \/ PasteEnds(c)
                      \/ UpsertFinds(c) \/ UpsertWrites(c) \/ CallFails(c)
                      \/ OverrideLooks(c) \/ OverrideWrites(c) \/ DeleteLooks(c)
                      \/ DeleteWrites(c)
                      \/ Builds(c) \/ BuildFails(c) \/ RunEnds(c) \/ Leaves(c)
               PROVE  PageInv'
      BY <1>3 DEF Requests
  <2> QED
      BY BeginKeeps, RejectsKeeps, LooksKeeps, PasteEndsKeeps, UpsertFindsKeeps,
         UpsertWritesKeeps, CallFailsKeeps, OverrideLooksKeeps, OverrideWritesKeeps,
         DeleteLooksKeeps, DeleteWritesKeeps, BuildsKeeps, BuildFailsKeeps, RunEndsKeeps,
         LeavesKeeps
<1>4. CASE UNCHANGED vars
  <2>1. UNCHANGED <<today, hour, snaps, req>>
      BY <1>4 DEF vars, rowVars, goldVars
  <2>2. ClockInv' /\ UTCDay' = UTCDay
      BY <2>1 DEF PageInv, ClockInv, UTCDay
  <2> QED
      BY <2>1, <2>2, ClockFacts, LaterKeeps DEF PageInv
<1> QED
    BY <1>1, <1>2, <1>3, <1>4 DEF Next

LEMMA PageInvHolds == Spec => []PageInv
    BY PageInvInit, PageInvStep, PTL DEF Spec

\* No row is dated after the server's UTC day (cmd/snapshot.go:127, history.go:414):
\* neither by a paste or an add, refused on that clock before a write that may come
\* days later, nor by a run of the job, dated by the trading day it began on or by an
\* earlier one of the operator's.
THEOREM RowsAreNeverAheadHolds == Spec => []RowsAreNeverAhead
<1>1. PageInv => RowsAreNeverAhead
    BY DEF PageInv, NotAhead, RowsAreNeverAhead
<1> QED
    BY <1>1, PageInvHolds, PTL

\* A paste reports as applied what is stored and as a conflict the row that stands
\* (history.go:371-401), and a run counts as done only users whose row has its values
\* under what was overridden, and loses no user (snapshot.go:282-312), however many
\* requests and runs overlap, fail and end early: but for rows another has written since.
THEOREM ReportsAreTrueHolds == Spec => []ReportsAreTrue
<1>1. ASSUME PageInv
      PROVE  ReportsAreTrue
  <2> SUFFICES
        ASSUME NEW c \in Clients
        PROVE  LET r == req[c]
                   Unseen(user, date) == <<user, date>> \notin r.touched
               IN  /\ Doing(c, {"paste", "add"}, "report") =>
                        /\ \A w \in r.written : Unseen(w.user, w.date) =>
                             snaps[w.user][w.date] =
                                [buckets |-> ManualBuckets(w.amounts), backed |-> FALSE]
                        /\ \A x \in r.refused :
                             Unseen(r.user, x.date) => snaps[r.user][x.date] = x.row
                   /\ Doing(c, {"run"}, "report") =>
                        /\ \A w \in r.written : Unseen(w.user, w.date) =>
                             LET row == snaps[w.user][w.date]
                             IN  /\ row.backed
                                 /\ \A k \in Currencies :
                                      \/ IsManual(row.buckets[k])
                                      \/ row.buckets[k] = Cron(w.amounts[k])
                        /\ r.asked = r.refused \cup {w.user : w \in r.written}
      BY DEF ReportsAreTrue
  <2>1. PICK r : r = req[c]
      OBVIOUS
  <2>2. Sound(r, snaps, UTCDay)
      BY <1>1, <2>1 DEF PageInv
  <2>3. ASSUME Doing(c, {"paste", "add"}, "report")
        PROVE  PasteSound(r, snaps, UTCDay)
      BY <2>1, <2>2, <2>3 DEF Sound, Doing
  <2>4. ASSUME Doing(c, {"run"}, "report")
        PROVE  /\ RunSound(r, snaps, UTCDay)
               /\ r.asked = r.refused \cup {w.user : w \in r.written}
    <3>1. RunSound(r, snaps, UTCDay) /\ r.pc = "report"
        BY <2>1, <2>2, <2>4 DEF Sound, Doing
    <3>2. r.left = {} /\ Reaches(r)
        BY <3>1 DEF RunSound
    <3> QED
        BY <3>1, <3>2 DEF Reaches
  <2>5. ASSUME Doing(c, {"paste", "add"}, "report")
        PROVE  /\ \A w \in r.written : <<w.user, w.date>> \notin r.touched =>
                     snaps[w.user][w.date] =
                        [buckets |-> ManualBuckets(w.amounts), backed |-> FALSE]
               /\ \A x \in r.refused :
                     <<r.user, x.date>> \notin r.touched => snaps[r.user][x.date] = x.row
      BY <2>3, <2>5 DEF PasteSound, PasteRow
  <2>6. ASSUME Doing(c, {"run"}, "report")
        PROVE  \A w \in r.written : <<w.user, w.date>> \notin r.touched =>
                   /\ snaps[w.user][w.date].backed
                   /\ \A k \in Currencies :
                        \/ IsManual(snaps[w.user][w.date].buckets[k])
                        \/ snaps[w.user][w.date].buckets[k] = Cron(w.amounts[k])
      BY <2>4, <2>6 DEF RunSound, CarriesRun
  <2> QED
      BY <2>1, <2>4, <2>5, <2>6
<1> QED
    BY <1>1, PageInvHolds, PTL

------------------------------------------------------------------------------
(***************************************************************************)
(* The pages of quotes, for any number of pages, tickers and holdings.     *)
(* They use the cache by its own operations only, so the theorem is proved *)
(* of the cache and carried over.                                          *)
(***************************************************************************)

Entry == [quotedAt : Nat, fetchedAt : Nat]

\* A quote is stored within a fetch's time of being given, and a fetch in
\* progress has not outlived the client's timeout.
EntriesAreRecent ==
    \A s \in DOMAIN cache :
        /\ cache[s] \in Entry
        /\ cache[s].quotedAt <= cache[s].fetchedAt
        /\ cache[s].fetchedAt <= cache[s].quotedAt + Timeout
        /\ cache[s].fetchedAt <= now

FetchesEnd ==
    \A c \in Callers :
        /\ Fetching(c) => call[c].since <= now /\ now <= call[c].since + Timeout
        /\ call[c].pc = "answer" => call[c].since <= call[c].quotedAt /\ call[c].quotedAt <= now

CacheInv ==
    /\ now \in Nat
    /\ call \in [Callers -> Call]
    /\ EntriesAreRecent
    /\ FetchesEnd

LEMMA NoCallIsACall == NoCall \in Call
BY PairIsATicker DEF NoCall, Call

LEMMA CacheInvInit == CacheInit => CacheInv
<1> SUFFICES ASSUME CacheInit PROVE CacheInv
    OBVIOUS
<1>1. \A c \in Callers : call[c] = NoCall /\ call[c].pc = "none"
    BY DEF CacheInit, NoCall
<1>2. FetchesEnd
    BY <1>1 DEF FetchesEnd, Fetching
<1>3. EntriesAreRecent
    BY DEF CacheInit, EntriesAreRecent
<1> QED
    BY <1>2, <1>3, NoCallIsACall DEF CacheInit, CacheInv

\* Each operation of the cache keeps the invariant.
LEMMA CacheInvStep == CacheInv /\ [CacheNext]_cacheVars => CacheInv'
<1> SUFFICES ASSUME CacheInv, [CacheNext]_cacheVars PROVE CacheInv'
    OBVIOUS
<1> USE TimesAreNatural
<1>1. CASE Tick
    BY <1>1 DEF Tick, CacheInv, EntriesAreRecent, FetchesEnd, Fetching, Call, Entry
<1>2. CASE \E callers \in SUBSET Callers : Return(callers)
    <2> PICK callers \in SUBSET Callers : Return(callers)
        BY <1>2
    <2>1. call' \in [Callers -> Call]
        BY NoCallIsACall DEF Return, CacheInv
    <2>2. FetchesEnd'
        BY DEF Return, CacheInv, FetchesEnd, Fetching, NoCall
    <2> QED
        BY <2>1, <2>2 DEF Return, CacheInv, EntriesAreRecent
<1>3. ASSUME NEW c \in Callers, Fetch(c) PROVE CacheInv'
    <2> call[c] \in Call
        BY DEF CacheInv
    <2>1. CASE Quote(c)
        <3>1. call' \in [Callers -> Call]
            BY <2>1 DEF Quote, CacheInv, Call
        <3>2. FetchesEnd'
            BY <2>1 DEF Quote, CacheInv, FetchesEnd, Fetching, Call
        <3> QED
            BY <2>1, <3>1, <3>2 DEF Quote, CacheInv, EntriesAreRecent
    <2>2. CASE CacheSet(c)
        <3>1. call' \in [Callers -> Call]
            BY <2>2 DEF CacheSet, CacheInv, Call
        <3>2. FetchesEnd'
            BY <2>2 DEF CacheSet, CacheInv, FetchesEnd, Fetching, Call
        <3>3. EntriesAreRecent'
            <4> SUFFICES ASSUME NEW s \in DOMAIN cache'
                         PROVE  /\ cache'[s] \in Entry
                                /\ cache'[s].quotedAt <= cache'[s].fetchedAt
                                /\ cache'[s].fetchedAt <= cache'[s].quotedAt + Timeout
                                /\ cache'[s].fetchedAt <= now'
                BY DEF EntriesAreRecent
            <4>1. CASE s = call[c].symbol
                <5>1. cache'[s] = [quotedAt |-> call[c].quotedAt, fetchedAt |-> now]
                    BY <2>2, <4>1 DEF CacheSet
                <5>2. /\ call[c].quotedAt <= now /\ now <= call[c].since + Timeout
                      /\ call[c].since <= call[c].quotedAt
                      /\ call[c].quotedAt \in Nat /\ call[c].since \in Nat
                    BY <2>2 DEF CacheSet, CacheInv, FetchesEnd, Fetching, Call
                <5> QED
                    BY <2>2, <5>1, <5>2 DEF CacheSet, CacheInv, Entry
            <4>2. CASE s # call[c].symbol
                <5>1. s \in DOMAIN cache /\ cache'[s] = cache[s]
                    BY <2>2, <4>2 DEF CacheSet
                <5> QED
                    BY <2>2, <5>1 DEF CacheSet, CacheInv, EntriesAreRecent
            <4> QED
                BY <4>1, <4>2
        <3> QED
            BY <2>2, <3>1, <3>2, <3>3 DEF CacheSet, CacheInv
    <2>3. CASE FetchFails(c)
        <3>1. [NoCall EXCEPT !.pc = "failed"] \in Call
            BY NoCallIsACall DEF Call
        <3>2. call' \in [Callers -> Call]
            BY <2>3, <3>1 DEF FetchFails, CacheInv
        <3>3. FetchesEnd'
            BY <2>3 DEF FetchFails, CacheInv, FetchesEnd, Fetching, NoCall
        <3> QED
            BY <2>3, <3>2, <3>3 DEF FetchFails, CacheInv, EntriesAreRecent
    <2> QED
        BY <1>3, <2>1, <2>2, <2>3 DEF Fetch
<1>4. ASSUME NEW c \in Callers, NEW s \in Symbols, GetPrice(c, s) PROVE CacheInv'
    <2>1. CASE Hit(c, s)
        <3>1. cache[s].quotedAt \in Nat
            BY <2>1 DEF Hit, Valid, CacheInv, EntriesAreRecent, Entry
        <3>2. call' \in [Callers -> Call]
            BY <2>1, <3>1 DEF Hit, CacheInv, Call
        <3>3. FetchesEnd'
            BY <2>1 DEF Hit, CacheInv, FetchesEnd, Fetching, Call
        <3> QED
            BY <2>1, <3>2, <3>3 DEF Hit, CacheInv, EntriesAreRecent
    <2>2. CASE Miss(c, s)
        <3>1. call' \in [Callers -> Call]
            BY <2>2 DEF Miss, CacheInv, Call
        <3>2. FetchesEnd'
            BY <2>2 DEF Miss, CacheInv, FetchesEnd, Fetching, Call
        <3> QED
            BY <2>2, <3>1, <3>2 DEF Miss, CacheInv, EntriesAreRecent
    <2> QED
        BY <1>4, <2>1, <2>2 DEF GetPrice
<1>5. CASE UNCHANGED cacheVars
    BY <1>5 DEF cacheVars, CacheInv, EntriesAreRecent, FetchesEnd, Fetching
<1> QED
    BY <1>1, <1>2, <1>3, <1>4, <1>5 DEF CacheNext

\* A call that a step serves is served the entry's quote, which is younger than
\* an entry's life and a fetch together, or its own, younger than a fetch.
LEMMA ServedFresh ==
    ASSUME CacheInv, CacheNext, NEW c \in Callers,
           call'[c] # call[c], call'[c].pc = "served"
    PROVE  \/ now - call'[c].quotedAt < cacheTTL + Timeout
           \/ now - call'[c].quotedAt <= Timeout
<1> USE TimesAreNatural
<1>0. call[c] \in Call
    BY DEF CacheInv
<1>1. ASSUME NEW d \in Callers, NEW s \in Symbols, Hit(d, s) PROVE now - call'[c].quotedAt < cacheTTL + Timeout
    <2>1. c = d /\ call'[c].quotedAt = cache[s].quotedAt
        BY <1>1 DEF Hit, CacheInv
    <2> QED
        BY <1>1, <2>1 DEF Hit, Valid, CacheInv, EntriesAreRecent, Entry
<1>2. ASSUME NEW d \in Callers, CacheSet(d) PROVE now - call'[c].quotedAt <= Timeout
    <2>1. c = d /\ call'[c].quotedAt = call[c].quotedAt /\ call[c].pc = "answer"
        BY <1>2 DEF CacheSet, CacheInv, Call
    <2>2. /\ now <= call[c].since + Timeout /\ call[c].since <= call[c].quotedAt
          /\ call[c].since \in Nat /\ call[c].quotedAt \in Nat /\ now \in Nat
        BY <1>0, <2>1 DEF CacheInv, FetchesEnd, Fetching, Call
    <2> QED
        BY <2>1, <2>2
<1>3. ASSUME NEW d \in Callers, Quote(d) PROVE FALSE
    BY <1>3, <1>0 DEF Quote, CacheInv, Call
<1>4. ASSUME NEW d \in Callers, FetchFails(d) PROVE FALSE
    BY <1>4, <1>0, NoCallIsACall DEF FetchFails, CacheInv, Call
<1>5. ASSUME NEW d \in Callers, NEW s \in Symbols, Miss(d, s) PROVE FALSE
    BY <1>5, <1>0 DEF Miss, CacheInv, Call
<1>6. ASSUME NEW callers \in SUBSET Callers, Return(callers) PROVE FALSE
    BY <1>6 DEF Return, CacheInv, NoCall
<1>7. ~Tick
    BY DEF Tick
<1> QED
    BY <1>1, <1>2, <1>3, <1>4, <1>5, <1>6, <1>7 DEF CacheNext, Fetch, GetPrice

\* The cache by itself keeps the promise.
THEOREM CacheServesFreshQuotes == CacheSpec => QuotesAreFresh
<1>1. CacheInv /\ [CacheNext]_cacheVars =>
          [\A c \in Callers :
              call'[c] # call[c] /\ call'[c].pc = "served" =>
                  \/ now - call'[c].quotedAt < cacheTTL + Timeout
                  \/ now - call'[c].quotedAt <= Timeout]_cacheVars
    BY ServedFresh
<1> QED
    BY CacheInvInit, CacheInvStep, <1>1, PTL DEF CacheSpec, QuotesAreFresh

\* A step of a page is an operation of the cache or leaves it alone.
LEMMA PagesUseTheCache ==
    portfolio \in Portfolios /\ PortfolioNext => [CacheNext]_cacheVars
<1> SUFFICES ASSUME portfolio \in Portfolios, PortfolioNext PROVE [CacheNext]_cacheVars
    OBVIOUS
<1> USE OneGoroutinePerTicker, PairIsATicker
<1>1. CASE Pass
    BY <1>1 DEF Pass, CacheNext
<1>2. ASSUME NEW r \in Readers, NEW s \in Symbols, FetchStep(<<r, s>>) PROVE CacheNext
    BY <1>2 DEF FetchStep, CacheNext
<1>3. ASSUME NEW r \in Readers, NEW s \in Symbols, GetPrice(<<r, s>>, s) PROVE CacheNext
    BY <1>3 DEF CacheNext
<1>4. ASSUME NEW callers \in SUBSET Callers, Return(callers) PROVE CacheNext
    BY <1>4 DEF CacheNext
<1>5. ASSUME NEW r \in Readers, PageStep(r) PROVE [CacheNext]_cacheVars
    <2>1. CASE AskRate(r)
        BY <2>1, <1>3 DEF AskRate, Ask
    <2>2. CASE RateKnown(r) \/ RateMissing(r)
        <3>1. {<<r, Pair>>} \in SUBSET Callers
            OBVIOUS
        <3> QED
            BY <2>2, <3>1, <1>4 DEF RateKnown, RateMissing
    <2>3. CASE \E s \in Symbols : Prefetch(r, s)
        BY <2>3, <1>3 DEF Prefetch
    <2>4. CASE Warmed(r)
        <3>1. {r} \X Symbols \in SUBSET Callers
            OBVIOUS
        <3> QED
            BY <2>4, <3>1, <1>4 DEF Warmed
    <2>5. CASE AskHolding(r) \/ PriceHolding(r)
        <3> DEFINE symbol == portfolio[Current(r)].symbol
        <3>1. symbol \in Symbols \cup {NoSymbol}
            <4>1. Current(r) \in DOMAIN portfolio
                BY <2>5 DEF AskHolding, PriceHolding, Remaining
            <4> DEFINE Holdings == [symbol : Symbols \cup {NoSymbol}, currency : BucketKeys \cup {""},
                                    stocksOwned : Nat, avgCostPrice : Nat, realizedPnL : Int]
            <4>2. portfolio \in Seq(Holdings)
                BY PortfoliosAreHoldings
            <4> HIDE DEF Holdings
            <4>3. portfolio[Current(r)] \in Holdings
                BY <4>1, <4>2
            <4> QED
                BY <4>3 DEF Holdings
        <3>2. CASE AskHolding(r)
            BY <3>1, <3>2, <1>3 DEF AskHolding, Ask, IsPriced
        <3>3. CASE PriceHolding(r)
            BY <3>1, <3>3, <1>4 DEF PriceHolding, IsPriced
        <3> QED
            BY <2>5, <3>2, <3>3
    <2>6. CASE SkipHolding(r) \/ Compute(r) \/ Respond(r)
        BY <2>6 DEF SkipHolding, Compute, Respond
    <2> QED
        BY <1>5, <2>1, <2>2, <2>3, <2>4, <2>5, <2>6 DEF PageStep
<1>6. ASSUME NEW r \in Readers, NEW op \in {"summary", "prices"}, Load(r, op)
      PROVE  UNCHANGED cacheVars
    BY <1>6 DEF Load
<1> QED
    BY <1>1, <1>2, <1>5, <1>6 DEF PortfolioNext, Serve
\* No page is served a quote as old as an entry may be and a fetch may take
\* together, whatever pages overlap and whatever fetches fail: the code's five
\* minutes and twelve seconds (price.go:40-43).
THEOREM PagesAreServedFreshQuotes == PortfolioSpec => QuotesAreFresh
<1>1. PortfolioInit => CacheInit /\ portfolio \in Portfolios
    BY DEF PortfolioInit
<1>2. portfolio \in Portfolios /\ [PortfolioNext]_portfolioVars =>
          (portfolio \in Portfolios)' /\ [CacheNext]_cacheVars
    <2> SUFFICES ASSUME portfolio \in Portfolios, [PortfolioNext]_portfolioVars
                 PROVE  (portfolio \in Portfolios)' /\ [CacheNext]_cacheVars
        OBVIOUS
    <2>1. UNCHANGED portfolio
        BY DEF PortfolioNext, Pass, Load, Serve, FetchStep, PageStep, AskRate, RateKnown,
               RateMissing, Prefetch, Warmed, SkipHolding, AskHolding, PriceHolding,
               Compute, Respond, portfolioVars
    <2>2. [CacheNext]_cacheVars
        BY PagesUseTheCache DEF portfolioVars, cacheVars
    <2> QED
        BY <2>1, <2>2
<1>3. PortfolioSpec => CacheSpec
    BY <1>1, <1>2, PTL DEF PortfolioSpec, CacheSpec
<1> QED
    BY <1>3, CacheServesFreshQuotes, PTL

------------------------------------------------------------------------------
(***************************************************************************)
(* The sums of the pages, for any holdings at any prices: those of the     *)
(* rows, of the headline and of the daily snapshot.                        *)
(***************************************************************************)
HoldingDocs ==
    [symbol : Symbols \cup {NoSymbol}, currency : BucketKeys \cup {""},
     stocksOwned : Nat, avgCostPrice : Nat, realizedPnL : Int]

\* The sums of the pages are those of LedgerProofs.
LEMMA TotalsAreSums ==
    ASSUME NEW amounts, NEW items
    PROVE  TotalOf(amounts, items) = SumOver(amounts, items)
BY Zenon DEF TotalOf, MapThenSumSet, MapThenFoldSet, SumOver, Sums, Pick

\* Amounts at a rate add up to their sum at the rate.
LEMMA SumAtARate ==
    ASSUME NEW v, NEW w, NEW rate \in Int, NEW ids, IsFiniteSet(ids),
           \A i \in ids : v[i] \in Int /\ w[i] = v[i] * rate
    PROVE  SumOver(w, ids) = SumOver(v, ids) * rate
<1> DEFINE Fits(t) == SumOver(w, t) = SumOver(v, t) * rate
           S == {n \in Nat : \A t \in SUBSET ids : Cardinality(t) = n => Fits(t)}
<1>a. \A t \in SUBSET ids : IsFiniteSet(t) /\ Cardinality(t) \in Nat
    BY FS_Subset, FS_CardinalityType, Zenon
<1>1. 0 \in S
    <2>1. \A t \in SUBSET ids : Cardinality(t) = 0 => t = {}
        BY <1>a, FS_EmptySet, Zenon
    <2>2. Fits({})
        <3>1. SumOver(w, {}) = 0 /\ SumOver(v, {}) = 0 /\ 0 = 0 * rate
            BY EmptySum
        <3>2. QED
            BY <3>1, Zenon
    <2> HIDE DEF Fits
    <2>3. QED
        BY <2>1, <2>2, Zenon
<1>2. ASSUME NEW n \in Nat, n \in S PROVE n + 1 \in S
    <2>1. ASSUME NEW t \in SUBSET ids, Cardinality(t) = n + 1 PROVE Fits(t)
        <3> DEFINE p == Pick(t)
                   rest == t \ {p}
        <3>1. t # {}
            BY <2>1, FS_EmptySet
        <3>2. p \in t /\ Cardinality(rest) = Cardinality(t) - 1
            BY <1>a, <3>1, PickedIsRemoved, Zenon
        <3>3. SumOver(w, t) = w[p] + SumOver(w, rest) /\ SumOver(v, t) = v[p] + SumOver(v, rest)
            BY <1>a, <3>1, PickedSum, Zenon
        <3> HIDE DEF p
        <3>4. rest \in SUBSET ids /\ Cardinality(rest) = n
            BY <2>1, <3>2
        <3>5. SumOver(v, rest) \in Int
            <4>1. IsFiniteSet(rest) /\ \A i \in rest : v[i] \in Int
                BY <1>a, <3>4
            <4>2. QED
                BY <4>1, SumType, Zenon
        <3> HIDE DEF rest
        <3>6. SumOver(w, rest) = SumOver(v, rest) * rate
            BY <1>2, <3>4
        <3>7. v[p] \in Int /\ w[p] = v[p] * rate
            BY <3>2
        <3>8. \A x, y \in Int : x * rate + y * rate = (x + y) * rate
            OBVIOUS
        <3>9. w[p] + SumOver(w, rest) = (v[p] + SumOver(v, rest)) * rate
            BY <3>5, <3>6, <3>7, <3>8
        <3>10. QED
            BY <3>3, <3>9, Zenon
    <2> HIDE DEF Fits
    <2>2. n + 1 \in Nat
        OBVIOUS
    <2>3. QED
        BY <2>1, <2>2, Zenon
<1>3. Cardinality(ids) \in S
    <2>1. Cardinality(ids) \in Nat
        BY <1>a
    <2> HIDE DEF S
    <2>2. QED
        BY <1>1, <1>2, <2>1, Induction
<1>4. QED
    BY <1>3

\* What the code's documents and prices say of one holding.
LEMMA AHolding ==
    ASSUME NEW portfolio_, portfolio_ \in Seq(HoldingDocs), NEW i \in DOMAIN portfolio_
    PROVE  /\ portfolio_[i].symbol \in Symbols \cup {NoSymbol}
           /\ portfolio_[i].currency \in {"INR", "EUR", "USD", ""}
           /\ portfolio_[i].stocksOwned \in Nat /\ portfolio_[i].avgCostPrice \in Nat
           /\ portfolio_[i].realizedPnL \in Int
           /\ Cost(portfolio_[i]) \in Nat
<1> HIDE DEF HoldingDocs
<1>1. portfolio_[i] \in HoldingDocs
    OBVIOUS
<1>2. portfolio_[i].stocksOwned \in Nat /\ portfolio_[i].avgCostPrice \in Nat
    BY <1>1 DEF HoldingDocs
<1>3. \A x, y \in Nat : x * y \in Nat
    OBVIOUS
<1> QED
    BY <1>1, <1>2, <1>3 DEF HoldingDocs, BucketKeys, AllCurrencies, Cost

\* A row's gain is its value less its cost.
LEMMA WorthOfARow ==
    ASSUME NEW p, p \in Seq(HoldingDocs), NEW i \in DOMAIN p, NEW price \in Nat, NEW inr \in Nat
    PROVE  /\ Native(p[i], price) \in Nat
           /\ Native(p[i], price) = p[i].stocksOwned * price
           /\ InBase(p[i], Native(p[i], price), inr) \in Nat
           /\ InBase(p[i], Cost(p[i]), inr) \in Nat
           /\ InBase(p[i], p[i].stocksOwned * price - Cost(p[i]), inr)
                = InBase(p[i], Native(p[i], price), inr) - InBase(p[i], Cost(p[i]), inr)
<1>1. /\ p[i].stocksOwned \in Nat /\ p[i].avgCostPrice \in Nat /\ Cost(p[i]) \in Nat
    BY AHolding
<1>2. PICK own \in Nat, cost \in Nat : own = p[i].stocksOwned /\ cost = Cost(p[i])
    BY <1>1
<1>3. own * price \in Nat /\ (price = 0 => own * price = 0) /\ (own = 0 => own * price = 0)
    OBVIOUS
<1>4. Native(p[i], price) = own * price
    BY <1>2, <1>3 DEF Native
<1>5. own = 0 => cost = 0
    BY <1>1, <1>2 DEF Cost
<1>6. PICK worth \in Nat : worth = own * price
    BY <1>3
<1>7. worth * inr \in Nat /\ cost * inr \in Nat /\ 0 * inr = 0
      /\ (worth - cost) * inr = worth * inr - cost * inr
    OBVIOUS
<1> QED
    BY <1>2, <1>3, <1>4, <1>5, <1>6, <1>7 DEF InBase

\* A holding sold out is worth nothing and costs nothing.
LEMMA NothingOwned ==
    ASSUME NEW p, p \in Seq(HoldingDocs), NEW i \in DOMAIN p, NEW price \in Nat, NEW inr \in Nat,
           p[i].stocksOwned = 0
    PROVE  /\ Native(p[i], price) = 0 /\ InBase(p[i], Native(p[i], price), inr) = 0
           /\ Cost(p[i]) = 0 /\ InBase(p[i], Cost(p[i]), inr) = 0
<1>2. \A x \in Nat : 0 * x = 0
    OBVIOUS
<1>a. p[i].avgCostPrice \in Nat
    BY AHolding
<1>1. p[i].avgCostPrice \in Nat /\ 0 * price = 0 /\ 0 * inr = 0
    BY <1>2, <1>a
<1>3. Native(p[i], price) = 0
    BY <1>1 DEF Native
<1>4. Cost(p[i]) = 0
    BY <1>1, <1>2 DEF Cost
<1> QED
    BY <1>1, <1>3, <1>4 DEF InBase

\* The totals of the summary are the sums of the rows, at the same prices.
RowsAddUp(p, price, inr) ==
    LET rows == [i \in DOMAIN p |-> HoldingWithPrice(p[i], price[i], inr)]
        priced == {i \in DOMAIN rows : rows[i].priced}
        totals == Summary(p, price, inr)
    IN  /\ totals.totalCost = TotalOf([i \in DOMAIN rows |-> rows[i].costPrice], DOMAIN rows)
        /\ totals.totalRealized
             = TotalOf([i \in DOMAIN rows |-> rows[i].realizedPnlEur], DOMAIN rows)
        /\ totals.totalRealized
             = TotalOf([i \in DOMAIN rows |-> InBase(p[i], rows[i].realizedPnl, inr)], DOMAIN rows)
        /\ totals.totalCurrentValue
             = TotalOf([i \in DOMAIN rows |-> rows[i].currentValue], priced)
        /\ totals.totalUnrealized
             = TotalOf([i \in DOMAIN rows |-> rows[i].unrealizedPnl], priced)

LEMMA SummaryIsItsRows ==
    ASSUME NEW p, p \in Seq(HoldingDocs), NEW price, price \in Seq(Nat), Len(price) = Len(p),
           NEW inr \in Nat
    PROVE  RowsAddUp(p, price, inr)
<1> DEFINE rows == [i \in DOMAIN p |-> HoldingWithPrice(p[i], price[i], inr)]
           priced == {i \in DOMAIN p : p[i].symbol # NoSymbol}
           valued == Valued(p, price)
           cost == [i \in DOMAIN p |-> InBase(p[i], Cost(p[i]), inr)]
           realized == [i \in DOMAIN p |-> InBase(p[i], p[i].realizedPnL, inr)]
           native == [i \in DOMAIN p |-> Native(p[i], price[i])]
           value == [i \in DOMAIN p |-> InBase(p[i], native[i], inr)]
           gain == [i \in DOMAIN p |-> value[i] - cost[i]]
           values == [i \in DOMAIN p |-> InBase(p[i], p[i].stocksOwned * price[i], inr)]
           gains == [i \in DOMAIN p |->
                        InBase(p[i], p[i].stocksOwned * price[i] - Cost(p[i]), inr)]
<1>1. DOMAIN p = 1..Len(p) /\ IsFiniteSet(DOMAIN p)
    BY FS_Interval
<1>2. valued \in SUBSET priced /\ priced \in SUBSET DOMAIN p /\ IsFiniteSet(priced) /\ IsFiniteSet(valued)
    <2>1. valued \subseteq priced /\ priced \subseteq DOMAIN p
        BY DEF Valued, Active
    <2> QED
        BY <1>1, <2>1, FS_Subset
<1>3. \A i \in DOMAIN p : price[i] \in Nat
    BY <1>1
<1>4. ASSUME NEW i \in DOMAIN p
      PROVE  /\ value[i] \in Nat /\ cost[i] \in Nat
             /\ values[i] = value[i] /\ gains[i] = gain[i] /\ gain[i] \in Int
             /\ p[i].stocksOwned = 0 => values[i] = 0 /\ gains[i] = 0
    <2>1. PICK quote \in Nat : quote = price[i]
        BY <1>3
    <2>2. /\ value[i] = InBase(p[i], Native(p[i], quote), inr)
          /\ cost[i] = InBase(p[i], Cost(p[i]), inr)
          /\ values[i] = InBase(p[i], p[i].stocksOwned * quote, inr)
          /\ gains[i] = InBase(p[i], p[i].stocksOwned * quote - Cost(p[i]), inr)
          /\ gain[i] = value[i] - cost[i]
        BY <2>1
    <2>3. Native(p[i], quote) = p[i].stocksOwned * quote
        BY WorthOfARow
    <2>4. InBase(p[i], Native(p[i], quote), inr) \in Nat /\ InBase(p[i], Cost(p[i]), inr) \in Nat
        BY WorthOfARow
    <2>5. InBase(p[i], p[i].stocksOwned * quote - Cost(p[i]), inr)
             = InBase(p[i], Native(p[i], quote), inr) - InBase(p[i], Cost(p[i]), inr)
        BY WorthOfARow
    <2>6. ASSUME p[i].stocksOwned = 0
          PROVE  InBase(p[i], Native(p[i], quote), inr) = 0 /\ InBase(p[i], Cost(p[i]), inr) = 0
        BY <2>6, NothingOwned
    <2> HIDE DEF value, cost, values, gains, gain
    <2> QED
        BY <2>2, <2>3, <2>4, <2>5, <2>6
<1>5. \A i \in priced \ valued : p[i].stocksOwned = 0
    <2>1. \A i \in DOMAIN p : p[i].stocksOwned \in Nat
        BY AHolding
    <2> QED
        BY <2>1 DEF Valued, Active
<1>6. /\ [i \in DOMAIN rows |-> rows[i].costPrice] = cost
      /\ [i \in DOMAIN rows |-> rows[i].realizedPnlEur] = realized
      /\ [i \in DOMAIN rows |-> InBase(p[i], rows[i].realizedPnl, inr)] = realized
      /\ [i \in DOMAIN rows |-> rows[i].currentValue] = values
      /\ [i \in DOMAIN rows |-> rows[i].unrealizedPnl] = gains
      /\ {i \in DOMAIN rows : rows[i].priced} = priced
      /\ DOMAIN rows = DOMAIN p
    BY DEF HoldingWithPrice
<1>7. LET totals == Summary(p, price, inr)
      IN  /\ totals.totalCost = TotalOf(cost, DOMAIN p)
          /\ totals.totalRealized = TotalOf(realized, DOMAIN p)
          /\ totals.totalCurrentValue = TotalOf(value, valued)
          /\ totals.totalUnrealized = TotalOf(gain, valued)
    BY DEF Summary
<1> HIDE DEF rows, priced, valued, cost, realized, native, value, gain, values, gains
<1>8. SumOver(values, priced) = SumOver(value, valued)
    <2>1. \A i \in valued : value[i] \in Int /\ values[i] = value[i]
        BY <1>2, <1>4
    <2>2. \A i \in priced \ valued : values[i] = 0
        BY <1>2, <1>4, <1>5
    <2> QED
        BY <1>2, <2>1, <2>2, SumOverPart
<1>9. SumOver(gains, priced) = SumOver(gain, valued)
    <2>1. \A i \in valued : gain[i] \in Int /\ gains[i] = gain[i]
        BY <1>2, <1>4
    <2>2. \A i \in priced \ valued : gains[i] = 0
        BY <1>2, <1>4, <1>5
    <2> QED
        BY <1>2, <2>1, <2>2, SumOverPart
<1>10. TotalOf(values, priced) = TotalOf(value, valued) /\ TotalOf(gains, priced) = TotalOf(gain, valued)
    BY <1>8, <1>9, TotalsAreSums
<1> QED
    BY <1>6, <1>7, <1>10, Zenon DEF rows, RowsAddUp

\* The value of the summary, currency by currency.
LEMMA SummaryByCurrency ==
    ASSUME NEW p, p \in Seq(HoldingDocs), NEW price, price \in Seq(Nat), Len(price) = Len(p),
           NEW inr \in Nat
    PROVE  LET totals == Summary(p, price, inr)
               native == totals.nativeCurrent
           IN  /\ DOMAIN native = BucketKeys
               /\ \A ccy \in BucketKeys : native[ccy] \in Int
               /\ totals.totalCurrentValue \in Int
               /\ totals.totalCurrentValue = native["INR"] + native["EUR"] * inr + native["USD"]
<1> DEFINE valued == Valued(p, price)
           native == [i \in DOMAIN p |-> Native(p[i], price[i])]
           value == [i \in DOMAIN p |-> InBase(p[i], native[i], inr)]
           Of(ccy) == {i \in valued : currencyOf(p[i].currency) = ccy}
           inInr == [i \in DOMAIN p |-> IF i \in Of("INR") THEN native[i] ELSE 0]
           inUsd == [i \in DOMAIN p |-> IF i \in Of("USD") THEN native[i] ELSE 0]
           scaled == [i \in DOMAIN p |-> native[i] * inr]
           inEur == [i \in DOMAIN p |-> IF i \in Of("EUR") THEN scaled[i] ELSE 0]
           others == [i \in DOMAIN p |-> inEur[i] + inUsd[i]]
<1>1. DOMAIN p = 1..Len(p) /\ IsFiniteSet(DOMAIN p)
    BY FS_Interval
<1>2. valued \in SUBSET DOMAIN p /\ IsFiniteSet(valued)
    <2>1. valued \subseteq DOMAIN p
        BY DEF Valued, Active
    <2> QED
        BY <1>1, <2>1, FS_Subset
<1>3. \A ccy : Of(ccy) \in SUBSET valued /\ IsFiniteSet(Of(ccy))
    <2>1. \A ccy : Of(ccy) \subseteq valued
        OBVIOUS
    <2> QED
        BY <1>2, <2>1, FS_Subset
<1>4. ASSUME NEW i \in DOMAIN p PROVE native[i] \in Nat /\ native[i] * inr \in Nat
    <2>1. PICK quote \in Nat : quote = price[i]
        BY <1>1
    <2>2. native[i] = Native(p[i], quote) /\ Native(p[i], quote) \in Nat
        BY <2>1, WorthOfARow
    <2>3. \A x \in Nat : x * inr \in Nat
        OBVIOUS
    <2> HIDE DEF native
    <2> QED
        BY <2>2, <2>3
<1>5. ASSUME NEW i \in DOMAIN p
      PROVE  /\ currencyOf(p[i].currency) \in {"INR", "EUR", "USD"}
             /\ value[i] = IF currencyOf(p[i].currency) = "EUR" THEN scaled[i] ELSE native[i]
    <2>1. p[i].currency \in {"INR", "EUR", "USD", ""}
        BY AHolding
    <2> QED
        BY <2>1 DEF currencyOf, InBase
<1>6. LET totals == Summary(p, price, inr)
      IN  /\ totals.totalCurrentValue = TotalOf(value, valued)
          /\ totals.nativeCurrent = [ccy \in BucketKeys |-> TotalOf(native, Of(ccy))]
    BY DEF Summary
<1>7. \A i \in DOMAIN p :
         /\ inInr[i] = IF i \in Of("INR") THEN native[i] ELSE 0
         /\ inUsd[i] = IF i \in Of("USD") THEN native[i] ELSE 0
         /\ inEur[i] = IF i \in Of("EUR") THEN scaled[i] ELSE 0
         /\ others[i] = inEur[i] + inUsd[i]
         /\ scaled[i] = native[i] * inr
    OBVIOUS
<1>8. \A ccy, i : i \in Of(ccy) <=> i \in valued /\ currencyOf(p[i].currency) = ccy
    OBVIOUS
<1> HIDE DEF valued, native, value, Of, inInr, inUsd, scaled, inEur, others
<1>9. \A i \in valued : /\ inInr[i] \in Int /\ inUsd[i] \in Int /\ inEur[i] \in Int
                        /\ others[i] \in Int /\ value[i] = inInr[i] + others[i]
    <2> SUFFICES ASSUME NEW i \in valued
                 PROVE  /\ inInr[i] \in Int /\ inUsd[i] \in Int /\ inEur[i] \in Int
                        /\ others[i] \in Int /\ value[i] = inInr[i] + others[i]
        OBVIOUS
    <2>1. /\ native[i] \in Nat /\ scaled[i] \in Nat
          /\ currencyOf(p[i].currency) \in {"INR", "EUR", "USD"}
          /\ value[i] = IF currencyOf(p[i].currency) = "EUR" THEN scaled[i] ELSE native[i]
        BY <1>2, <1>4, <1>5, <1>7
    <2>2. /\ inInr[i] = IF currencyOf(p[i].currency) = "INR" THEN native[i] ELSE 0
          /\ inUsd[i] = IF currencyOf(p[i].currency) = "USD" THEN native[i] ELSE 0
          /\ inEur[i] = IF currencyOf(p[i].currency) = "EUR" THEN scaled[i] ELSE 0
          /\ others[i] = inEur[i] + inUsd[i]
        BY <1>2, <1>7, <1>8
    <2> QED
        BY <2>1, <2>2
<1>10. SumOver(value, valued) = SumOver(inInr, valued) + SumOver(others, valued)
    BY <1>2, <1>9, SumOfTwo
<1>11. SumOver(others, valued) = SumOver(inEur, valued) + SumOver(inUsd, valued)
    <2>1. \A i \in valued : inEur[i] \in Int /\ inUsd[i] \in Int /\ others[i] = inEur[i] + inUsd[i]
        BY <1>2, <1>7, <1>9
    <2> QED
        BY <1>2, <2>1, SumOfTwo
<1>12. SumOver(inInr, valued) = SumOver(native, Of("INR"))
    <2>1. \A i \in Of("INR") : native[i] \in Int /\ inInr[i] = native[i]
        BY <1>2, <1>3, <1>4, <1>7
    <2>2. \A i \in valued \ Of("INR") : inInr[i] = 0
        BY <1>2, <1>7
    <2>3. PICK part : part = Of("INR")
        OBVIOUS
    <2>4. IsFiniteSet(valued) /\ part \in SUBSET valued
        BY <1>2, <1>3, <2>3
    <2>5. SumOver(inInr, valued) = SumOver(native, part)
        BY <2>1, <2>2, <2>3, <2>4, SumOverPart
    <2> QED
        BY <2>3, <2>5
<1>13. SumOver(inUsd, valued) = SumOver(native, Of("USD"))
    <2>1. \A i \in Of("USD") : native[i] \in Int /\ inUsd[i] = native[i]
        BY <1>2, <1>3, <1>4, <1>7
    <2>2. \A i \in valued \ Of("USD") : inUsd[i] = 0
        BY <1>2, <1>7
    <2>3. PICK part : part = Of("USD")
        OBVIOUS
    <2>4. IsFiniteSet(valued) /\ part \in SUBSET valued
        BY <1>2, <1>3, <2>3
    <2>5. SumOver(inUsd, valued) = SumOver(native, part)
        BY <2>1, <2>2, <2>3, <2>4, SumOverPart
    <2> QED
        BY <2>3, <2>5
<1>14. SumOver(inEur, valued) = SumOver(scaled, Of("EUR"))
    <2>1. \A i \in Of("EUR") : scaled[i] \in Int /\ inEur[i] = scaled[i]
        BY <1>2, <1>3, <1>4, <1>7
    <2>2. \A i \in valued \ Of("EUR") : inEur[i] = 0
        BY <1>2, <1>7
    <2>3. PICK part : part = Of("EUR")
        OBVIOUS
    <2>4. IsFiniteSet(valued) /\ part \in SUBSET valued
        BY <1>2, <1>3, <2>3
    <2>5. SumOver(inEur, valued) = SumOver(scaled, part)
        BY <2>1, <2>2, <2>3, <2>4, SumOverPart
    <2> QED
        BY <2>3, <2>5
<1>15. SumOver(scaled, Of("EUR")) = SumOver(native, Of("EUR")) * inr
    <2>1. \A i \in Of("EUR") : native[i] \in Int /\ scaled[i] = native[i] * inr
        BY <1>2, <1>3, <1>4, <1>7
    <2> QED
        BY <1>3, <2>1, SumAtARate
<1>16. \A ccy : SumOver(native, Of(ccy)) \in Int
    <2> TAKE ccy
    <2>1. IsFiniteSet(Of(ccy)) /\ \A i \in Of(ccy) : native[i] \in Int
        BY <1>2, <1>3, <1>4
    <2> QED
        BY <2>1, SumType
<1>17. \A v, ids : TotalOf(v, ids) = SumOver(v, ids)
    BY TotalsAreSums
<1> DEFINE I == SumOver(native, Of("INR"))
           E == SumOver(native, Of("EUR"))
           U == SumOver(native, Of("USD"))
<1>18. SumOver(value, valued) = I + (E * inr + U)
    BY <1>10, <1>11, <1>12, <1>13, <1>14, <1>15
<1>19. I \in Int /\ E \in Int /\ U \in Int
    BY <1>16
<1> HIDE DEF I, E, U
<1>20. I + (E * inr + U) = I + E * inr + U /\ I + (E * inr + U) \in Int
    BY <1>19
<1> DEFINE totals == Summary(p, price, inr)
<1>21. totals.totalCurrentValue = I + E * inr + U /\ totals.totalCurrentValue \in Int
    BY <1>6, <1>17, <1>18, <1>20
<1>22. /\ DOMAIN totals.nativeCurrent = BucketKeys
       /\ \A ccy \in BucketKeys : totals.nativeCurrent[ccy] = SumOver(native, Of(ccy))
    BY <1>6, <1>17
<1>23. {"INR", "EUR", "USD"} = BucketKeys
    BY DEF BucketKeys, AllCurrencies
<1> HIDE DEF totals
<1>24. /\ totals.nativeCurrent["INR"] = I /\ totals.nativeCurrent["EUR"] = E
       /\ totals.nativeCurrent["USD"] = U
    BY <1>22, <1>23 DEF I, E, U
<1> QED
    BY <1>16, <1>21, <1>22, <1>24 DEF totals

\* The lines of a snapshot taken at the prices of a page; a holding without a
\* ticker has none.
LEMMA SnapshotLines ==
    ASSUME NEW p, p \in Seq(HoldingDocs), NEW price, price \in Seq(Nat), Len(price) = Len(p),
           \A i \in DOMAIN p : p[i].symbol = NoSymbol => price[i] = 0
    PROVE  LET lines == Lines(p, price, NoLines)
           IN  /\ DOMAIN lines = {i \in DOMAIN p : CurrencyOf(p[i]) # "unknown"}
               /\ \A i \in DOMAIN lines :
                     lines[i] = [symbol |-> p[i].symbol, currency |-> CurrencyOf(p[i]),
                                 closePrice |-> price[i], invested |-> Cost(p[i]),
                                 current |-> Native(p[i], price[i])]
<1>1. DOMAIN p = 1..Len(p) /\ \A i \in DOMAIN p : price[i] \in Nat
    OBVIOUS
<1>2. \A i \in DOMAIN p : priceFor(p[i], price[i], NoLines) = price[i]
    BY <1>1 DEF priceFor, NoLines
<1> QED
    BY <1>2 DEF Lines, Native

\* Of the amounts w, only those of the items in part count, and they are as in v.
CountsOnly(w, items, v, part) ==
    /\ IsFiniteSet(items) /\ part \in SUBSET items
    /\ \A i \in part : v[i] \in Int /\ w[i] = v[i]
    /\ \A i \in items \ part : w[i] = 0

LEMMA SumOfTheCounted ==
    ASSUME NEW w, NEW items, NEW v, NEW part, CountsOnly(w, items, v, part)
    PROVE  SumOver(w, items) = SumOver(v, part)
BY SumOverPart DEF CountsOnly

\* A holding without a ticker has no price.
Quoted(p, price) == \A i \in DOMAIN p : p[i].symbol = NoSymbol => price[i] = 0

LEMMA SnapshotIsTheHeadline ==
    ASSUME NEW p, p \in Seq(HoldingDocs), NEW price, price \in Seq(Nat), Len(price) = Len(p),
           Quoted(p, price), NEW inr \in Nat,
           NEW ccy \in AllCurrencies
    PROVE  Summary(p, price, inr).nativeCurrent[ccy]
              = BucketsFromLines(Lines(p, price, NoLines))[ccy].current
<1> DEFINE lines == Lines(p, price, NoLines)
           valued == Valued(p, price)
           native == [i \in DOMAIN p |-> Native(p[i], price[i])]
           owned == {i \in valued : currencyOf(p[i].currency) = ccy}
           current == [i \in DOMAIN lines |-> lines[i].current]
           whole == {i \in DOMAIN lines : lines[i].currency = ccy}
<1>1. DOMAIN p = 1..Len(p) /\ IsFiniteSet(DOMAIN p) /\ \A i \in DOMAIN p : price[i] \in Nat
    <2>1. DOMAIN p = 1..Len(p) /\ Len(p) \in Nat
        OBVIOUS
    <2>2. IsFiniteSet(1..Len(p))
        BY <2>1, FS_Interval
    <2>3. \A i \in DOMAIN p : price[i] \in Nat
        BY <2>1
    <2> QED
        BY <2>1, <2>2, <2>3
<1>2. ccy \in {"INR", "EUR"} /\ ccy \in BucketKeys
    BY DEF AllCurrencies, BucketKeys
<1>3. /\ DOMAIN lines = {i \in DOMAIN p : CurrencyOf(p[i]) # "unknown"}
      /\ \A i \in DOMAIN lines : /\ lines[i].currency = CurrencyOf(p[i])
                                 /\ lines[i].current = native[i]
    <2>1. /\ DOMAIN lines = {i \in DOMAIN p : CurrencyOf(p[i]) # "unknown"}
          /\ \A i \in DOMAIN lines :
                lines[i] = [symbol |-> p[i].symbol, currency |-> CurrencyOf(p[i]),
                            closePrice |-> price[i], invested |-> Cost(p[i]),
                            current |-> Native(p[i], price[i])]
        BY SnapshotLines DEF Quoted
    <2> HIDE DEF lines
    <2> QED
        BY <2>1
<1>4. \A i \in DOMAIN p : CurrencyOf(p[i]) = ccy <=> currencyOf(p[i].currency) = ccy
    <2> SUFFICES ASSUME NEW i \in DOMAIN p
                 PROVE  CurrencyOf(p[i]) = ccy <=> currencyOf(p[i].currency) = ccy
        OBVIOUS
    <2>1. p[i].currency \in {"INR", "EUR", "USD", ""}
        BY AHolding
    <2> QED
        BY <1>2, <2>1 DEF CurrencyOf, currencyOf, AllCurrencies
<1>5. Summary(p, price, inr).nativeCurrent[ccy] = TotalOf(native, owned)
    BY <1>2 DEF Summary
<1>6. BucketsFromLines(lines)[ccy].current = TotalOf(current, whole)
    BY DEF BucketsFromLines
<1>7. valued = {i \in DOMAIN p : p[i].stocksOwned > 0 /\ p[i].symbol # NoSymbol}
    BY DEF Valued, Active
<1>8. \A i \in DOMAIN p : native[i] \in Nat /\ native[i] = Native(p[i], price[i])
    <2> SUFFICES ASSUME NEW i \in DOMAIN p PROVE Native(p[i], price[i]) \in Nat
        OBVIOUS
    <2>1. p[i].stocksOwned \in Nat /\ price[i] \in Nat
        BY <1>1, AHolding
    <2>2. \A x, y \in Nat : x * y \in Nat
        OBVIOUS
    <2> QED
        BY <2>1, <2>2 DEF Native
<1>9. \A i \in DOMAIN p : i \notin valued => native[i] = 0
    <2> SUFFICES ASSUME NEW i \in DOMAIN p, i \notin valued PROVE Native(p[i], price[i]) = 0
        OBVIOUS
    <2>1. p[i].stocksOwned \in Nat /\ price[i] \in Nat
        BY <1>1, AHolding
    <2>2. p[i].stocksOwned = 0 \/ price[i] = 0
        BY <1>7, <2>1 DEF Quoted
    <2>3. \A y \in Nat : 0 * y = 0
        OBVIOUS
    <2> QED
        BY <2>1, <2>2, <2>3 DEF Native
<1>10. \A i \in DOMAIN lines : current[i] = native[i]
    BY <1>3
<1>11. /\ whole = {i \in DOMAIN p : CurrencyOf(p[i]) = ccy}
       /\ whole \subseteq DOMAIN lines
    BY <1>2, <1>3
<1> HIDE DEF lines, valued, native, current, whole
<1>12. owned \in SUBSET whole /\ IsFiniteSet(whole) /\ whole \subseteq DOMAIN p
    <2>1. owned \subseteq whole /\ whole \subseteq DOMAIN p
        BY <1>4, <1>7, <1>11
    <2> QED
        BY <1>1, <2>1, FS_Subset
<1>13. \A i \in owned : native[i] \in Int /\ current[i] = native[i]
    BY <1>8, <1>10, <1>11, <1>12
<1>14. \A i \in whole \ owned : current[i] = 0
    BY <1>4, <1>9, <1>10, <1>11, <1>12
<1> HIDE DEF owned
<1>15. SumOver(current, whole) = SumOver(native, owned)
    <2>1. CountsOnly(current, whole, native, owned)
        BY <1>12, <1>13, <1>14 DEF CountsOnly
    <2> QED
        BY <2>1, SumOfTheCounted
<1>16. TotalOf(current, whole) = TotalOf(native, owned)
    BY <1>15, TotalsAreSums
<1> QED
    BY <1>5, <1>6, <1>16 DEF lines

\* Where lines of one ticker have one price, carrying the prices of a row over
\* gives the row again, whatever is quoted.
LEMMA CarriedLines ==
    ASSUME NEW p, p \in Seq(HoldingDocs), NEW price, price \in Seq(Nat), Len(price) = Len(p),
           \A i \in DOMAIN p : p[i].symbol = NoSymbol => price[i] = 0, NEW quotes,
           LET lines == Lines(p, price, NoLines)
           IN  \A i, j \in DOMAIN lines : lines[i].symbol = lines[j].symbol =>
                   lines[i].closePrice = lines[j].closePrice
    PROVE  LET lines == Lines(p, price, NoLines) IN Lines(p, quotes, lines) = lines
<1> DEFINE lines == Lines(p, price, NoLines)
<1>1. /\ DOMAIN lines = {i \in DOMAIN p : CurrencyOf(p[i]) # "unknown"}
      /\ \A i \in DOMAIN lines :
            lines[i] = [symbol |-> p[i].symbol, currency |-> CurrencyOf(p[i]),
                        closePrice |-> price[i], invested |-> Cost(p[i]),
                        current |-> Native(p[i], price[i])]
    BY SnapshotLines
<1>2. \A i, j \in DOMAIN lines : lines[i].symbol = lines[j].symbol =>
          lines[i].closePrice = lines[j].closePrice
    OBVIOUS
<1>3. lines = [i \in DOMAIN lines |-> lines[i]]
    BY DEF Lines
<1>4. Lines(p, quotes, lines) =
         [i \in {k \in DOMAIN p : CurrencyOf(p[k]) # "unknown"} |->
            [symbol |-> p[i].symbol, currency |-> CurrencyOf(p[i]),
             closePrice |-> priceFor(p[i], quotes[i], lines), invested |-> Cost(p[i]),
             current |-> IF priceFor(p[i], quotes[i], lines) > 0
                         THEN p[i].stocksOwned * priceFor(p[i], quotes[i], lines) ELSE 0]]
    BY DEF Lines
<1> HIDE DEF lines
<1>5. DOMAIN p = 1..Len(p) /\ IsFiniteSet(DOMAIN p) /\ \A i \in DOMAIN p : price[i] \in Nat
    <2>1. DOMAIN p = 1..Len(p) /\ Len(p) \in Nat
        OBVIOUS
    <2>2. IsFiniteSet(1..Len(p))
        BY <2>1, FS_Interval
    <2>3. \A i \in DOMAIN p : price[i] \in Nat
        BY <2>1
    <2> QED
        BY <2>1, <2>2, <2>3
<1>6. ASSUME NEW i \in DOMAIN lines
      PROVE  priceFor(p[i], quotes[i], lines) = price[i]
    <2> DEFINE same == {j \in DOMAIN lines : lines[j].symbol = p[i].symbol}
    <2>1. lines[i].symbol = p[i].symbol /\ i \in same
        BY <1>1
    <2>2. same \subseteq 1..Len(p)
        BY <1>1, <1>5
    <2>3. PICK n \in Nat : same \in SUBSET (1..n)
        <3>1. Len(p) \in Nat
            OBVIOUS
        <3> QED
            BY <2>2, <3>1
    <2>7. same # {}
        BY <2>1
    <2>4. Max(same) \in same
        <3> HIDE DEF same
        <3> QED
            BY <2>3, <2>7, MaxOfNumbers
    <2>5. lines[Max(same)].closePrice = lines[i].closePrice
        BY <1>2, <2>1, <2>4
    <2>6. lines[i].closePrice = price[i]
        BY <1>1
    <2> QED
        BY <2>1, <2>5, <2>6 DEF priceFor, PriorClose
<1>7. \A i \in DOMAIN lines :
         (IF priceFor(p[i], quotes[i], lines) > 0
          THEN p[i].stocksOwned * priceFor(p[i], quotes[i], lines) ELSE 0) = Native(p[i], price[i])
    BY <1>6 DEF Native
<1> QED
    BY <1>1, <1>3, <1>4, <1>6, <1>7 DEF lines

------------------------------------------------------------------------------
(***************************************************************************)
(* A page that is done has a price for every holding.                      *)
(***************************************************************************)
\* A quote was given in the past.
QuotesArePast == now <= MaxClock /\ \A c \in Callers : call[c].quotedAt <= now

View ==
    [op : {"none", "summary", "prices"}, pc : {"idle", "rate", "warm", "price", "done"},
     asked : BOOLEAN, inr : Nat, left : SUBSET Symbols, price : Seq(Nat)]

\* How far a page has come: the rate first, then a price per holding, which is
\* zero where there is no ticker.
PagePriced(r) ==
    /\ Len(view[r].price) <= Len(portfolio)
    /\ \A i \in DOMAIN view[r].price : portfolio[i].symbol = NoSymbol => view[r].price[i] = 0
    /\ view[r].pc = "done" => Len(view[r].price) = Len(portfolio)

ViewInv ==
    /\ CacheInv /\ QuotesArePast
    /\ portfolio \in Portfolios /\ previous \in PreviousCloses
    /\ view \in [Readers -> View]
    /\ \A r \in Readers : PagePriced(r)

LEMMA QuotesStayPast ==
    ASSUME CacheInv, QuotesArePast, [CacheNext]_cacheVars
    PROVE  QuotesArePast'
<1> USE TimesAreNatural
<1>0. /\ now \in Nat /\ call \in [Callers -> Call] /\ NoCall.quotedAt = 0
      /\ \A c \in Callers : call[c] \in Call
    BY DEF CacheInv, NoCall
<1>1. CASE Tick
    BY <1>0, <1>1 DEF Tick, QuotesArePast, Call
<1>2. ASSUME NEW callers \in SUBSET Callers, Return(callers) PROVE QuotesArePast'
    BY <1>0, <1>2 DEF Return, QuotesArePast
<1>3. ASSUME NEW c \in Callers, Quote(c) \/ CacheSet(c) \/ FetchFails(c) PROVE QuotesArePast'
    <2>1. /\ now' = now
          /\ \A d \in Callers : d # c => call'[d] = call[d]
        BY <1>0, <1>3 DEF Quote, CacheSet, FetchFails
    <2>2. call'[c].quotedAt <= now
        <3>1. CASE Quote(c)
            BY <1>0, <3>1 DEF Quote, Call
        <3>2. CASE CacheSet(c)
            BY <1>0, <3>2 DEF CacheSet, Call, QuotesArePast
        <3>3. CASE FetchFails(c)
            <4>1. call'[c] = [NoCall EXCEPT !.pc = "failed"]
                BY <1>0, <3>3 DEF FetchFails
            <4> QED
                BY <1>0, <4>1 DEF NoCall
        <3> QED
            BY <1>3, <3>1, <3>2, <3>3
    <2> QED
        BY <2>1, <2>2 DEF QuotesArePast
<1>4. ASSUME NEW c \in Callers, NEW s \in Symbols, GetPrice(c, s) PROVE QuotesArePast'
    <2>1. now' = now /\ \A d \in Callers : d # c => call'[d] = call[d]
        BY <1>0, <1>4 DEF GetPrice, Hit, Miss
    <2>2. call'[c].quotedAt <= now
        <3>1. CASE Hit(c, s)
            <4>1. cache[s].quotedAt <= now
                BY <1>0, <3>1 DEF Hit, Valid, CacheInv, EntriesAreRecent, Entry
            <4> QED
                BY <1>0, <3>1, <4>1 DEF Hit
        <3>2. CASE Miss(c, s)
            BY <1>0, <3>2 DEF Miss
        <3> QED
            BY <1>4, <3>1, <3>2 DEF GetPrice
    <2> QED
        BY <2>1, <2>2 DEF QuotesArePast
<1>5. CASE UNCHANGED cacheVars
    BY <1>5 DEF cacheVars, QuotesArePast
<1> QED
    BY <1>1, <1>2, <1>3, <1>4, <1>5 DEF CacheNext, Fetch

LEMMA PriceIsANumber ==
    ASSUME ViewInv, NEW c \in Callers
    PROVE  PriceOf(c) \in Nat
<1>1. call[c] \in Call /\ call[c].quotedAt <= now /\ now <= MaxClock
    BY DEF ViewInv, CacheInv, QuotesArePast
<1>2. call[c].symbol \in Symbols /\ call[c].quotedAt \in 0..MaxClock
    BY <1>1, TimesAreNatural DEF Call, ViewInv, CacheInv
<1> QED
    BY <1>2, QuotesAreWhole DEF PriceOf

\* The portfolio is one of those given.
LEMMA PortfoliosAreDocs == Portfolios \subseteq Seq(HoldingDocs)
BY PortfoliosAreHoldings DEF HoldingDocs

LEMMA ViewInvInit == PortfolioInit => ViewInv
<1> SUFFICES ASSUME PortfolioInit PROVE ViewInv
    OBVIOUS
<1>1. CacheInv
    BY CacheInvInit DEF PortfolioInit
<1>2. QuotesArePast
    BY TimesAreNatural DEF PortfolioInit, CacheInit, QuotesArePast, NoCall
<1>3. portfolio \in Portfolios /\ previous \in PreviousCloses /\ portfolio \in Seq(HoldingDocs)
    BY PortfoliosAreDocs DEF PortfolioInit
<1>4. NoView \in View /\ NoView.price = <<>> /\ NoView.pc = "idle"
    <2>1. <<>> \in Seq(Nat)
        OBVIOUS
    <2> QED
        BY <2>1 DEF NoView, View
<1>5. \A r \in Readers : view[r] = NoView
    BY DEF PortfolioInit
<1>6. \A r \in Readers : PagePriced(r)
    BY <1>3, <1>4, <1>5 DEF PagePriced
<1> QED
    BY <1>1, <1>2, <1>3, <1>4, <1>6 DEF ViewInv, PortfolioInit

\* A step that moves one page to fields that are in order.
LEMMA MoveKeepsViews ==
    ASSUME ViewInv, CacheInv', QuotesArePast', UNCHANGED <<portfolio, previous>>,
           NEW r \in Readers, NEW fields \in View, Move(r, fields),
           Len(fields.price) <= Len(portfolio),
           \A i \in DOMAIN fields.price : portfolio[i].symbol = NoSymbol => fields.price[i] = 0,
           fields.pc = "done" => Len(fields.price) = Len(portfolio)
    PROVE  ViewInv'
<1>1. view' = [view EXCEPT ![r] = fields]
    BY DEF Move
<1>2. view' \in [Readers -> View]
    BY <1>1 DEF ViewInv
<1>3. \A o \in Readers : view'[o] = IF o = r THEN fields ELSE view[o]
    BY <1>1 DEF ViewInv
<1>4. \A o \in Readers : PagePriced(o)'
    BY <1>3 DEF ViewInv, PagePriced
<1> QED
    BY <1>2, <1>4 DEF ViewInv

LEMMA OnePriceMore ==
    ASSUME NEW so_far, so_far \in Seq(Nat), NEW quote \in Nat
    PROVE  /\ Append(so_far, quote) \in Seq(Nat)
           /\ Len(Append(so_far, quote)) = Len(so_far) + 1
           /\ \A i \in DOMAIN Append(so_far, quote) :
                 \/ i \in DOMAIN so_far /\ Append(so_far, quote)[i] = so_far[i]
                 \/ i = Len(so_far) + 1 /\ Append(so_far, quote)[i] = quote
OBVIOUS

LEMMA ViewInvStep == ViewInv /\ [PortfolioNext]_portfolioVars => ViewInv'
<1> SUFFICES ASSUME ViewInv, [PortfolioNext]_portfolioVars PROVE ViewInv'
    OBVIOUS
<1>1. UNCHANGED <<portfolio, previous>>
    BY DEF PortfolioNext, Pass, Load, Serve, FetchStep, PageStep, AskRate, RateKnown,
           RateMissing, Prefetch, Warmed, SkipHolding, AskHolding, PriceHolding,
           Compute, Respond, portfolioVars
<1>2. [CacheNext]_cacheVars
    BY PagesUseTheCache DEF portfolioVars, cacheVars, ViewInv
<1>3. CacheInv' /\ QuotesArePast'
    BY <1>2, CacheInvStep, QuotesStayPast DEF ViewInv
<1>4. CASE UNCHANGED view
    BY <1>1, <1>3, <1>4 DEF ViewInv, PagePriced
<1>5. portfolio \in Seq(HoldingDocs) /\ Len(portfolio) \in Nat
    BY PortfoliosAreDocs DEF ViewInv
<1>6. \A r \in Readers : view[r] \in View /\ PagePriced(r)
    BY DEF ViewInv
<1>7. NoView \in View /\ NoView.price = <<>> /\ NoView.pc = "idle"
    <2>1. <<>> \in Seq(Nat)
        OBVIOUS
    <2> QED
        BY <2>1 DEF NoView, View
\* The fields of a page keep their prices.
<1>8. ASSUME NEW r \in Readers, NEW fields \in View, Move(r, fields), fields.pc # "done",
             fields.price = view[r].price \/ fields.price = <<>>
      PROVE  ViewInv'
    <2>1. /\ Len(fields.price) <= Len(portfolio)
          /\ \A i \in DOMAIN fields.price : portfolio[i].symbol = NoSymbol => fields.price[i] = 0
        BY <1>5, <1>6, <1>8 DEF PagePriced
    <2> QED
        BY <1>1, <1>3, <1>8, <2>1, MoveKeepsViews
\* The next price of a page.
<1>9. ASSUME NEW r \in Readers, NEW fields \in View, Move(r, fields), Remaining(r),
             fields.pc # "done", NEW quote \in Nat, fields.price = Append(view[r].price, quote),
             portfolio[Current(r)].symbol = NoSymbol => quote = 0
      PROVE  ViewInv'
    <2>1. PICK so_far \in Seq(Nat) : so_far = view[r].price
        BY <1>6 DEF View
    <2>2. /\ Len(so_far) + 1 \in DOMAIN portfolio
          /\ portfolio[Len(so_far) + 1].symbol = NoSymbol => quote = 0
        BY <1>9, <2>1 DEF Remaining, Current
    <2>3. \A i \in DOMAIN so_far : portfolio[i].symbol = NoSymbol => so_far[i] = 0
        BY <1>6, <2>1 DEF PagePriced
    <2>4. Len(so_far) + 1 <= Len(portfolio)
        BY <1>5, <2>2
    <2>a. fields.price = Append(so_far, quote)
        BY <1>9, <2>1
    <2>5. /\ Len(fields.price) = Len(so_far) + 1
          /\ \A i \in DOMAIN fields.price :
                \/ i \in DOMAIN so_far /\ fields.price[i] = so_far[i]
                \/ i = Len(so_far) + 1 /\ fields.price[i] = quote
        <3>1. PICK longer : longer = Append(so_far, quote)
            OBVIOUS
        <3>2. /\ Len(longer) = Len(so_far) + 1
              /\ \A i \in DOMAIN longer :
                    \/ i \in DOMAIN so_far /\ longer[i] = so_far[i]
                    \/ i = Len(so_far) + 1 /\ longer[i] = quote
            BY <3>1, OnePriceMore, Zenon
        <3> QED
            BY <2>a, <3>1, <3>2, Zenon
    <2>6. /\ Len(fields.price) <= Len(portfolio)
          /\ \A i \in DOMAIN fields.price : portfolio[i].symbol = NoSymbol => fields.price[i] = 0
        BY <2>2, <2>3, <2>4, <2>5
    <2> QED
        BY <1>1, <1>3, <1>9, <2>6, MoveKeepsViews
<1>10. ASSUME NEW r \in Readers, NEW s, Ask(r, s), view[r].pc # "done" PROVE ViewInv'
    <2> DEFINE fields == [view[r] EXCEPT !.asked = TRUE]
    <2>1. Move(r, fields)
        BY <1>10 DEF Ask
    <2>2. fields \in View /\ fields.pc # "done" /\ fields.price = view[r].price
        BY <1>6, <1>10 DEF View
    <2> HIDE DEF fields
    <2> QED
        BY <1>8, <2>1, <2>2
<1>11. ASSUME NEW r \in Readers, PageStep(r) PROVE ViewInv'
    <2>1. CASE AskRate(r)
        BY <1>10, <2>1 DEF AskRate, ViewAt
    <2>2. CASE RateKnown(r)
        <3>1. PICK inr \in Nat, left \in SUBSET Symbols :
                  Move(r, [view[r] EXCEPT !.pc = "warm", !.asked = FALSE, !.inr = inr, !.left = left])
            <4>1. PriceOf(<<r, Pair>>) \in Nat
                BY PriceIsANumber, OneGoroutinePerTicker, PairIsATicker
            <4>2. Prefetched(view[r].op) \in SUBSET Symbols
                <5>1. \A i \in DOMAIN portfolio : portfolio[i].symbol \in Symbols \cup {NoSymbol}
                    BY <1>5, AHolding
                <5> QED
                    BY <5>1 DEF Prefetched, Active
            <4> QED
                BY <2>2, <4>1, <4>2, FallbackIsARate DEF RateKnown
        <3> DEFINE fields == [view[r] EXCEPT !.pc = "warm", !.asked = FALSE, !.inr = inr, !.left = left]
        <3>2. fields \in View /\ fields.pc # "done" /\ fields.price = view[r].price
            BY <1>6 DEF View
        <3>3. Move(r, fields)
            BY <3>1
        <3> HIDE DEF fields
        <3> QED
            BY <1>8, <3>2, <3>3
    <2>3. CASE RateMissing(r) \/ Respond(r)
        BY <1>7, <1>8, <2>3 DEF RateMissing, Respond
    <2>4. ASSUME NEW s \in Symbols, Prefetch(r, s) PROVE ViewInv'
        <3> DEFINE fields == [view[r] EXCEPT !.left = @ \ {s}]
        <3>1. fields \in View /\ fields.pc # "done" /\ fields.price = view[r].price
            BY <1>6, <2>4 DEF View, Prefetch, ViewAt
        <3>2. Move(r, fields)
            BY <2>4 DEF Prefetch
        <3> HIDE DEF fields
        <3> QED
            BY <1>8, <3>1, <3>2
    <2>5. CASE Warmed(r)
        <3> DEFINE fields == [view[r] EXCEPT !.pc = "price"]
        <3>1. fields \in View /\ fields.pc # "done" /\ fields.price = view[r].price
            BY <1>6 DEF View
        <3>2. Move(r, fields)
            BY <2>5 DEF Warmed
        <3> HIDE DEF fields
        <3> QED
            BY <1>8, <3>1, <3>2
    <2>6. CASE SkipHolding(r)
        <3> DEFINE fields == [view[r] EXCEPT !.price = Append(@, 0)]
        <3>a. PICK longer \in Seq(Nat) : longer = Append(view[r].price, 0)
            BY <1>6, OnePriceMore DEF View
        <3>1. fields \in View /\ fields.pc # "done" /\ fields.price = Append(view[r].price, 0)
            BY <1>6, <2>6, <3>a DEF View, SkipHolding, Remaining, ViewAt
        <3>2. Move(r, fields) /\ Remaining(r)
            BY <2>6 DEF SkipHolding
        <3> HIDE DEF fields
        <3> QED
            BY <1>9, <3>1, <3>2
    <2>7. CASE AskHolding(r)
        BY <1>10, <2>7 DEF AskHolding, Remaining, ViewAt
    <2>8. CASE PriceHolding(r)
        <3>1. portfolio[Current(r)].symbol \in Symbols
            <4>1. Current(r) \in DOMAIN portfolio /\ portfolio[Current(r)].symbol # NoSymbol
                BY <2>8 DEF PriceHolding, Remaining, IsPriced
            <4> QED
                BY <1>5, <4>1, AHolding
        <3>2. PICK quote \in Nat : quote = PriceOf(<<r, portfolio[Current(r)].symbol>>)
            BY <3>1, PriceIsANumber, OneGoroutinePerTicker
        <3> DEFINE fields == [view[r] EXCEPT !.asked = FALSE, !.price = Append(@, quote)]
        <3>a. PICK longer \in Seq(Nat) : longer = Append(view[r].price, quote)
            BY <1>6, OnePriceMore DEF View
        <3>3. fields \in View /\ fields.pc # "done" /\ fields.price = Append(view[r].price, quote)
            BY <1>6, <2>8, <3>a DEF View, PriceHolding, Remaining, ViewAt
        <3>4. Move(r, fields) /\ Remaining(r) /\ portfolio[Current(r)].symbol # NoSymbol
            BY <2>8, <3>2 DEF PriceHolding, IsPriced
        <3> HIDE DEF fields
        <3> QED
            BY <1>9, <3>3, <3>4
    <2>9. CASE Compute(r)
        <3> DEFINE fields == [view[r] EXCEPT !.pc = "done"]
        <3>1. fields \in View /\ fields.price = view[r].price
            BY <1>6 DEF View
        <3>2. Move(r, fields)
            BY <2>9 DEF Compute
        <3>3. Len(view[r].price) = Len(portfolio)
            <4>1. PICK n \in Nat : n = Len(view[r].price)
                BY <1>6 DEF View
            <4>2. n <= Len(portfolio) /\ n + 1 \notin 1..Len(portfolio)
                BY <1>5, <1>6, <2>9, <4>1 DEF PagePriced, Compute, Current
            <4> QED
                BY <1>5, <4>1, <4>2
        <3> HIDE DEF fields
        <3>4. /\ Len(fields.price) = Len(portfolio) /\ Len(fields.price) <= Len(portfolio)
              /\ \A i \in DOMAIN fields.price :
                    portfolio[i].symbol = NoSymbol => fields.price[i] = 0
            BY <1>5, <1>6, <3>1, <3>3 DEF PagePriced
        <3> QED
            BY <1>1, <1>3, <3>1, <3>2, <3>4, MoveKeepsViews
    <2> QED
        BY <1>11, <2>1, <2>2, <2>3, <2>4, <2>5, <2>6, <2>7, <2>8, <2>9 DEF PageStep
<1>12. ASSUME NEW r \in Readers, NEW op \in {"summary", "prices"}, Load(r, op) PROVE ViewInv'
    <2> DEFINE fields == [NoView EXCEPT !.op = op, !.pc = "rate"]
    <2>1. fields \in View /\ fields.pc # "done" /\ fields.price = <<>>
        <3>1. <<>> \in Seq(Nat)
            OBVIOUS
        <3> QED
            BY <3>1 DEF NoView, View
    <2>2. Move(r, fields)
        BY <1>12 DEF Load
    <2> HIDE DEF fields
    <2> QED
        BY <1>8, <2>1, <2>2
<1>13. CASE Pass \/ \E r \in Readers, s \in Symbols : FetchStep(<<r, s>>)
    BY <1>4, <1>13 DEF Pass, FetchStep
<1>14. CASE UNCHANGED portfolioVars
    BY <1>4, <1>14 DEF portfolioVars
<1> QED
    BY <1>11, <1>12, <1>13, <1>14 DEF PortfolioNext, Serve

LEMMA PagesKeepViewInv == PortfolioSpec => []ViewInv
BY ViewInvInit, ViewInvStep, PTL DEF PortfolioSpec

\* What a page that is done has.
LEMMA DonePages ==
    ASSUME ViewInv, NEW r \in Readers, ViewAt(r, "done")
    PROVE  /\ portfolio \in Seq(HoldingDocs)
           /\ view[r].price \in Seq(Nat) /\ Len(view[r].price) = Len(portfolio)
           /\ view[r].inr \in Nat
           /\ \A i \in DOMAIN portfolio : portfolio[i].symbol = NoSymbol => view[r].price[i] = 0
<1>1. /\ view[r].price \in Seq(Nat) /\ Len(view[r].price) = Len(portfolio) /\ view[r].inr \in Nat
      /\ \A i \in DOMAIN view[r].price : portfolio[i].symbol = NoSymbol => view[r].price[i] = 0
    BY DEF ViewInv, View, PagePriced, ViewAt
<1>2. portfolio \in Seq(HoldingDocs)
    BY PortfoliosAreDocs DEF ViewInv
<1>3. DOMAIN portfolio = DOMAIN view[r].price
    BY <1>1, <1>2
<1> QED
    BY <1>1, <1>2, <1>3

\* The two pages are built by different code: at whatever quotes a page got, for
\* any portfolio, the totals above the table are the sums of the table's rows, the
\* realized gains of a row taken in EUR or converted from its own currency.
THEOREM HeadlineIsItsRowsHolds == PortfolioSpec => []HeadlineIsItsRows
<1>1. ViewInv => HeadlineIsItsRows
    <2>1. ASSUME ViewInv, NEW r \in Readers, ViewAt(r, "done")
          PROVE  RowsAddUp(portfolio, view[r].price, view[r].inr)
        <3>1. /\ portfolio \in Seq(HoldingDocs) /\ view[r].price \in Seq(Nat)
              /\ Len(view[r].price) = Len(portfolio) /\ view[r].inr \in Nat
            BY <2>1, DonePages
        <3> QED
            BY <3>1, SummaryIsItsRows
    <2> QED
        BY <2>1 DEF HeadlineIsItsRows, RowsAddUp
<1> QED
    BY <1>1, PagesKeepViewInv, PTL

\* The change since the previous close is the sum of the strip's changes.
StripAddsUp(totals, buckets, inr) ==
    LET change == PreviousClose(totals, buckets, inr)
        Changed(ccy) == LET strip == change.perCurrency
                        IN  IF ccy \notin DOMAIN strip THEN 0
                            ELSE IF ccy = "EUR" THEN strip[ccy] * inr ELSE strip[ccy]
    IN  change.changeValue = Changed("INR") + Changed("EUR") + totals.nativeCurrent["USD"]

LEMMA ChangeIsTheStrip ==
    ASSUME NEW native, DOMAIN native = BucketKeys, \A ccy \in BucketKeys : native[ccy] \in Int,
           NEW buckets \in [BucketKeys -> Int], NEW inr \in Nat, NEW totals,
           totals.nativeCurrent = native,
           totals.totalCurrentValue = native["INR"] + native["EUR"] * inr + native["USD"]
    PROVE  StripAddsUp(totals, buckets, inr)
<1> DEFINE change == PreviousClose(totals, buckets, inr)
           strip == change.perCurrency
           was(ccy) == prevNative(buckets, ccy)
<1>1. {"INR", "EUR", "USD"} = BucketKeys /\ {"INR", "EUR"} = AllCurrencies
    BY DEF BucketKeys, AllCurrencies
<1>2. was("INR") \in Int /\ was("EUR") \in Int
    BY <1>1 DEF prevNative
<1>3. PICK pI \in Int, pE \in Int : pI = was("INR") /\ pE = was("EUR")
    BY <1>2
<1>4. PICK nI \in Int, nE \in Int, nU \in Int :
          nI = native["INR"] /\ nE = native["EUR"] /\ nU = native["USD"]
    BY <1>1
<1>5. change.changeValue = nI + nE * inr + nU - (pI + pE * inr)
    BY <1>3, <1>4 DEF PreviousClose
<1>6. /\ DOMAIN strip = {k \in AllCurrencies : native[k] # 0 \/ was(k) # 0}
      /\ \A k \in DOMAIN strip : strip[k] = native[k] - was(k)
    BY DEF PreviousClose
<1> HIDE DEF change, was
<1>7. /\ "INR" \notin DOMAIN strip => nI = 0 /\ pI = 0
      /\ "INR" \in DOMAIN strip => strip["INR"] = nI - pI
      /\ "EUR" \notin DOMAIN strip => nE = 0 /\ pE = 0
      /\ "EUR" \in DOMAIN strip => strip["EUR"] = nE - pE
    BY <1>1, <1>3, <1>4, <1>6
<1>8. (nE - pE) * inr = nE * inr - pE * inr /\ 0 * inr = 0
    OBVIOUS
<1>9. PICK eN \in Int, eP \in Int : eN = nE * inr /\ eP = pE * inr
    OBVIOUS
<1>10. (IF "EUR" \notin DOMAIN strip THEN 0 ELSE strip["EUR"] * inr) = eN - eP
    BY <1>7, <1>8, <1>9
<1>11. (IF "INR" \notin DOMAIN strip THEN 0 ELSE strip["INR"]) = nI - pI
    BY <1>7
<1>12. change.changeValue = (nI - pI) + (eN - eP) + nU
    BY <1>5, <1>9
<1> QED
    BY <1>4, <1>10, <1>11, <1>12 DEF change, StripAddsUp

\* The snapshot taken at the prices of a page has the values of its summary.
MatchesTheSnapshot(p, price, inr, closes) ==
    LET totals == Summary(p, price, inr)
        lines == Lines(p, price, NoLines)
        buckets == BucketsFromLines(lines)
        steady == \A i, j \in DOMAIN lines :
                      lines[i].symbol = lines[j].symbol =>
                          lines[i].closePrice = lines[j].closePrice
        weekend == [i \in DOMAIN p |-> IF price[i] = 0 THEN 1 ELSE 0]
    IN  /\ \A ccy \in AllCurrencies : totals.nativeCurrent[ccy] = buckets[ccy].current
        /\ totals.totalCurrentValue
             = buckets["INR"].current + buckets["EUR"].current * inr
                 + totals.nativeCurrent["USD"]
        /\ StripAddsUp(totals, closes, inr)
        /\ steady => BucketsFromLines(Lines(p, weekend, lines)) = buckets

\* The two pages and the daily job add up the same holdings in three places.  At
\* whatever quotes a summary got, for any portfolio and any previous close, the
\* snapshot has its values, the change is the sum of the strip's changes, and
\* what a weekend carries over is Friday's row.
THEOREM HeadlineIsTheSnapshotHolds == PortfolioSpec => []HeadlineIsTheSnapshot
<1>1. ViewInv => HeadlineIsTheSnapshot
    <2>1. ASSUME ViewInv, NEW r \in Readers, ViewAt(r, "done")
          PROVE  MatchesTheSnapshot(portfolio, view[r].price, view[r].inr, previous)
        <3> DEFINE price == view[r].price
                   inr == view[r].inr
                   totals == Summary(portfolio, price, inr)
                   native == totals.nativeCurrent
                   lines == Lines(portfolio, price, NoLines)
                   buckets == BucketsFromLines(lines)
                   weekend == [i \in DOMAIN portfolio |-> IF price[i] = 0 THEN 1 ELSE 0]
        <3>1. /\ portfolio \in Seq(HoldingDocs) /\ price \in Seq(Nat)
              /\ Len(price) = Len(portfolio) /\ inr \in Nat
              /\ \A i \in DOMAIN portfolio : portfolio[i].symbol = NoSymbol => price[i] = 0
            BY <2>1, DonePages
        <3>2. previous \in [BucketKeys -> Int]
            BY <2>1, ClosesAreBuckets DEF ViewInv
        <3>3. /\ DOMAIN native = BucketKeys /\ \A ccy \in BucketKeys : native[ccy] \in Int
              /\ totals.totalCurrentValue = native["INR"] + native["EUR"] * inr + native["USD"]
            <4> HIDE DEF price, inr
            <4> QED
                BY <3>1, SummaryByCurrency
        <3>4. \A ccy \in AllCurrencies : native[ccy] = buckets[ccy].current
            <4> HIDE DEF price, inr
            <4> QED
                BY <3>1, SnapshotIsTheHeadline DEF Quoted
        <3>5. (\A i, j \in DOMAIN lines : lines[i].symbol = lines[j].symbol =>
                   lines[i].closePrice = lines[j].closePrice)
              => Lines(portfolio, weekend, lines) = lines
            <4> HIDE DEF price, inr, weekend
            <4> QED
                BY <3>1, CarriedLines
        <3>6. StripAddsUp(totals, previous, inr)
            <4>1. totals.nativeCurrent = native
                OBVIOUS
            <4> HIDE DEF price, inr, totals, native
            <4> QED
                BY <3>1, <3>2, <3>3, <4>1, ChangeIsTheStrip
        <3>7. "INR" \in AllCurrencies /\ "EUR" \in AllCurrencies
            BY DEF AllCurrencies
        <3> HIDE DEF totals, lines, buckets, price, inr, weekend
        <3> QED
            BY <3>3, <3>4, <3>5, <3>6, <3>7
               DEF totals, lines, buckets, price, inr, weekend, MatchesTheSnapshot
    <2> QED
        BY <2>1 DEF HeadlineIsTheSnapshot, MatchesTheSnapshot, StripAddsUp
<1> QED
    BY <1>1, PagesKeepViewInv, PTL

------------------------------------------------------------------------------
(***************************************************************************)
(* The lists of the gold pages, in order of their dates.                   *)
(***************************************************************************)
\* list has the members of S once each, each after those R puts before it.
Lists(list, S, R) ==
    /\ list \in Seq(S) /\ Len(list) = Cardinality(S) /\ Cardinality(S) \in Nat
    /\ \A x \in S : \E k \in 1..Len(list) : list[k] = x
    /\ \A k, l \in 1..Len(list) : k < l => <<list[k], list[l]>> \in R

\* A list made by rank: at each place the member with as many before it.
RankedList(S, R) ==
    [place \in 1..Cardinality(S) |->
        CHOOSE x \in S : Cardinality({y \in S : <<y, x>> \in R}) = place - 1]

\* A finite set in a strict total order, made a list by rank, is listed in that order.
LEMMA SortedLists ==
    ASSUME NEW S, IsFiniteSet(S), NEW R,
           \A x \in S : <<x, x>> \notin R,
           \A x, y \in S : x # y => <<x, y>> \in R \/ <<y, x>> \in R,
           \A x, y, z \in S : <<x, y>> \in R /\ <<y, z>> \in R => <<x, z>> \in R
    PROVE  Lists(RankedList(S, R), S, R)
<1> DEFINE n == Cardinality(S)
           before(x) == Cardinality({y \in S : <<y, x>> \in R})
           pick(place) == CHOOSE x \in S : before(x) = place - 1
           list == [place \in 1..n |-> pick(place)]
           rank == Ranks(S, R)
<1>1. /\ n \in Nat /\ rank \in Bijection(S, 0..(n - 1))
      /\ \A x, y \in S : <<x, y>> \in R <=> rank[x] < rank[y]
    BY RanksOfAnOrder
<1>2. \A x \in S : rank[x] = before(x)
    BY DEF Ranks
<1> HIDE DEF rank, before
<1>3. /\ \A x \in S : rank[x] \in 0..(n - 1)
      /\ \A x, y \in S : rank[x] = rank[y] => x = y
      /\ \A k \in 0..(n - 1) : \E x \in S : rank[x] = k
    BY <1>1, Zenon DEF Bijection, Injection, IsInjective, Surjection
<1>4. ASSUME NEW k \in 1..n PROVE pick(k) \in S /\ rank[pick(k)] = k - 1
    <2>1. k - 1 \in 0..(n - 1)
        BY <1>1
    <2>2. PICK x \in S : rank[x] = k - 1
        BY <1>3, <2>1
    <2>3. before(x) = k - 1
        BY <1>2, <2>2
    <2>4. pick(k) \in S /\ before(pick(k)) = k - 1
        BY <2>3, Zenon
    <2> HIDE DEF pick
    <2>5. QED
        BY <1>2, <2>4
<1> HIDE DEF pick, n
<1>5. list \in [1..n -> S] /\ \A k \in 1..n : list[k] = pick(k)
    BY <1>4
<1> HIDE DEF list
<1>6. list \in Seq(S) /\ Len(list) = n
    BY <1>1, <1>5
<1>7. ASSUME NEW x \in S PROVE \E k \in 1..n : list[k] = x
    <2>1. PICK k \in 1..n : k = rank[x] + 1
        BY <1>1, <1>3
    <2>2. rank[list[k]] = rank[x] /\ list[k] \in S
        BY <1>1, <1>3, <1>4, <1>5, <2>1
    <2>3. QED
        BY <1>3, <2>2
<1>8. ASSUME NEW k \in 1..n, NEW l \in 1..n, k < l PROVE <<list[k], list[l]>> \in R
    BY <1>1, <1>4, <1>5, <1>8
<1> QED
    BY <1>1, <1>6, <1>7, <1>8 DEF Lists, RankedList, list, n, pick, before

\* What the lists of the two tables are for the walk: by date, and typed.
DatedRows(rows) ==
    /\ Len(rows) \in Nat /\ DOMAIN rows = 1..Len(rows)
    /\ \A k \in 1..Len(rows) :
          rows[k].date \in Days /\ rows[k].grams \in Int /\ rows[k].paid \in Int
    /\ \A k, l \in 1..Len(rows) : k < l => rows[k].date <= rows[l].date

DatedPrices(have) ==
    /\ Len(have) \in Nat /\ DOMAIN have = 1..Len(have)
    /\ \A k \in 1..Len(have) : have[k].date \in Days /\ have[k].pricePerGram \in Nat \ {0}
    /\ \A k, l \in 1..Len(have) : k < l => have[k].date < have[l].date

Ascending(dates) ==
    /\ Len(dates) \in Nat /\ DOMAIN dates = 1..Len(dates)
    /\ \A k \in 1..Len(dates) : dates[k] \in Days
    /\ \A k, l \in 1..Len(dates) : k < l => dates[k] < dates[l]

------------------------------------------------------------------------------
(***************************************************************************)
(* What a walk has summed up: the rows at the places it has passed.        *)
(***************************************************************************)
Fields(rows, field) == [k \in DOMAIN rows |-> rows[k][field]]

\* A total of the rows at some places is the sum of a function of the places.
LEMMA FieldIsASum ==
    ASSUME NEW rows, NEW field, NEW places, IsFiniteSet(places), places \subseteq DOMAIN rows
    PROVE  MapThenSumSet(LAMBDA k : rows[k][field], places) = SumOver(Fields(rows, field), places)
<1> DEFINE v == [k \in places |-> rows[k][field]]
           iter == CHOOSE g : g = [t \in SUBSET places |->
                      IF t = {} THEN 0 ELSE rows[Pick(t)][field] + g[t \ {Pick(t)}]]
<1>0. \A t \in SUBSET places : t # {} => v[Pick(t)] = rows[Pick(t)][field]
    <2>1. \A t \in SUBSET places : t # {} => Pick(t) \in t
        BY Zenon DEF Pick
    <2> QED
        BY <2>1
<1>1. \A i \in places : v[i] = Fields(rows, field)[i]
    BY DEF Fields
<1> HIDE DEF v
<1>2. PICK g : Sums(v, places, g)
    BY SumsExist, Zenon
<1>3. g = [t \in SUBSET places |->
             IF t = {} THEN 0 ELSE rows[Pick(t)][field] + g[t \ {Pick(t)}]]
    <2>1. \A t \in SUBSET places :
             (IF t = {} THEN 0 ELSE v[Pick(t)] + g[t \ {Pick(t)}])
             = (IF t = {} THEN 0 ELSE rows[Pick(t)][field] + g[t \ {Pick(t)}])
        BY <1>0, Zenon
    <2> QED
        BY <1>2, <2>1, Zenon DEF Sums
<1>4. iter = [t \in SUBSET places |->
             IF t = {} THEN 0 ELSE rows[Pick(t)][field] + iter[t \ {Pick(t)}]]
    BY <1>3, Zenon
<1>5. iter[places] = SumOver(v, places)
    <2> HIDE DEF iter
    <2>1. \A t \in SUBSET places :
             (IF t = {} THEN 0 ELSE v[Pick(t)] + iter[t \ {Pick(t)}])
             = (IF t = {} THEN 0 ELSE rows[Pick(t)][field] + iter[t \ {Pick(t)}])
        BY <1>0, Zenon
    <2>2. Sums(v, places, iter)
        BY <1>4, <2>1, Zenon DEF Sums
    <2>3. places \in SUBSET places
        OBVIOUS
    <2> QED
        BY <2>2, <2>3, SumOfASum
<1>6. SumOver(v, places) = SumOver(Fields(rows, field), places)
    BY <1>1, SameSums
<1>7. MapThenSumSet(LAMBDA k : rows[k][field], places) = iter[places]
    BY Zenon DEF MapThenSumSet, MapThenFoldSet, Pick
<1> QED
    BY <1>5, <1>6, <1>7
\* So are the two totals the pages take.
LEMMA TotalsOfRows ==
    ASSUME NEW rows, NEW places, IsFiniteSet(places), places \subseteq DOMAIN rows
    PROVE  /\ TotalPaid(rows, places) = SumOver(Fields(rows, "paid"), places)
           /\ TotalGrams(rows, places) = SumOver(Fields(rows, "grams"), places)
<1>1. TotalPaid(rows, places) = MapThenSumSet(LAMBDA k : rows[k]["paid"], places)
    BY Zenon DEF TotalPaid
<1>2. TotalGrams(rows, places) = MapThenSumSet(LAMBDA k : rows[k]["grams"], places)
    BY Zenon DEF TotalGrams
<1> QED
    BY <1>1, <1>2, FieldIsASum, Zenon

\* The sum over two sets that are apart is the sum of the sums.
LEMMA SumOfApart ==
    ASSUME NEW v, NEW one, NEW other, IsFiniteSet(one), IsFiniteSet(other), one \cap other = {},
           \A i \in one \cup other : v[i] \in Int
    PROVE  /\ SumOver(v, one \cup other) = SumOver(v, one) + SumOver(v, other)
           /\ SumOver(v, one) \in Int /\ SumOver(v, other) \in Int
<1> DEFINE all == one \cup other
           w == [i \in all |-> IF i \in one THEN v[i] ELSE 0]
           u == [i \in all |-> IF i \in other THEN v[i] ELSE 0]
<1>1. IsFiniteSet(all)
    BY FS_Union
<1>2. \A i \in all : w[i] \in Int /\ u[i] \in Int /\ v[i] = w[i] + u[i]
    OBVIOUS
<1>3. /\ \A i \in one : w[i] = v[i]
      /\ \A i \in all \ one : w[i] = 0
      /\ \A i \in other : u[i] = v[i]
      /\ \A i \in all \ other : u[i] = 0
    OBVIOUS
<1> HIDE DEF w, u
<1>4. SumOver(v, all) = SumOver(w, all) + SumOver(u, all)
    BY <1>1, <1>2, SumOfTwo
<1>5. SumOver(w, all) = SumOver(v, one)
    <2>1. one \in SUBSET all /\ \A i \in one : v[i] \in Int /\ w[i] = v[i]
        BY <1>3
    <2> HIDE DEF all
    <2> QED
        BY <1>1, <1>3, <2>1, SumOverPart
<1>6. SumOver(u, all) = SumOver(v, other)
    <2>1. other \in SUBSET all /\ \A i \in other : v[i] \in Int /\ u[i] = v[i]
        BY <1>3
    <2> HIDE DEF all
    <2> QED
        BY <1>1, <1>3, <2>1, SumOverPart
<1>7. SumOver(v, one) \in Int /\ SumOver(v, other) \in Int
    BY SumType
<1> QED
    BY <1>4, <1>5, <1>6, <1>7

\* From the k-th row on, the walk stops at the first row after the day.
Stops(rows, k, day, stop) ==
    /\ stop \in k..(Len(rows) + 1)
    /\ \A j \in k..(stop - 1) : rows[j].date <= day
    /\ \A j \in stop..Len(rows) : rows[j].date > day

\* Only the dates of what is walked over count.
Dates(rows) ==
    /\ Len(rows) \in Nat
    /\ \A k \in 1..Len(rows) : rows[k].date \in Nat
    /\ \A k, l \in 1..Len(rows) : k < l => rows[k].date <= rows[l].date

\* The walk stops at the first row that is dated later, or behind the last.
LEMMA ReachedStops ==
    ASSUME NEW rows, Dates(rows), NEW k \in 1..(Len(rows) + 1), NEW day \in Nat
    PROVE  Stops(rows, k, day, Reached(rows, k, day))
<1> DEFINE T == {j \in k..Len(rows) : rows[j].date > day} \cup {Len(rows) + 1}
           stop == Min(T)
<1>1. Len(rows) \in Nat /\ k \in Nat /\ k >= 1
    BY DEF Dates
<1>2. T \subseteq Nat /\ T # {} /\ T \subseteq k..(Len(rows) + 1)
    BY <1>1
<1>3. PICK m \in T : \A j \in T : m <= j
    <2> HIDE DEF T
    <2> QED
        BY <1>2, LeastNatural
<1>4. stop \in T /\ \A j \in T : stop <= j
    <2> HIDE DEF T
    <2> QED
        BY <1>3, Zenon DEF Min
<1>5. Reached(rows, k, day) = stop
    BY DEF Reached
<1>6. stop \in k..(Len(rows) + 1) /\ stop \in Nat
    BY <1>2, <1>4
<1>7. ASSUME NEW j \in k..(stop - 1) PROVE rows[j].date <= day
    <2>1. j \in 1..Len(rows) /\ j \in Nat /\ j < stop
        BY <1>1, <1>6
    <2>2. j \notin T
        BY <1>4, <1>6, <2>1
    <2>3. ~(rows[j].date > day)
        BY <1>1, <2>1, <2>2
    <2> QED
        BY <2>1, <2>3 DEF Dates
<1>8. ASSUME NEW j \in stop..Len(rows) PROVE rows[j].date > day
    <2>1. stop \in 1..Len(rows) /\ j \in 1..Len(rows)
        BY <1>1, <1>6
    <2>2. rows[stop].date > day
        BY <1>1, <1>4, <2>1
    <2>3. rows[stop].date <= rows[j].date
        <3>1. CASE stop = j
            BY <2>1, <3>1 DEF Dates
        <3>2. CASE stop # j
            BY <2>1, <3>2 DEF Dates
        <3> QED
            BY <3>1, <3>2
    <2>4. rows[stop].date \in Nat /\ rows[j].date \in Nat
        BY <2>1 DEF Dates
    <2> QED
        BY <2>2, <2>3, <2>4
<1> QED
    BY <1>5, <1>6, <1>7, <1>8 DEF Stops

------------------------------------------------------------------------------
(***************************************************************************)
(* The overlay, walked date by date, is the one as of each date.           *)
(***************************************************************************)
NoWalk == [ti |-> 1, pi |-> 1, invested |-> 0, grams |-> 0, price |-> Unpriced,
           before |-> 0, overlay |-> NoOverlay]

\* g has the state of the walk after the dates of each set of places.
Visits(rows, have, dates, S, g) ==
    g = [t \in SUBSET S |->
            IF t = {} THEN NoWalk ELSE Visit(rows, have, g[t \ {Max(t)}], dates[Max(t)])]

\* The visits of the dates, one after the other, are a function of how many there were.
LEMMA VisitsExist ==
    ASSUME NEW rows, NEW have, NEW dates, NEW n \in Nat
    PROVE  \E g : Visits(rows, have, dates, 1..n, g)
<1> DEFINE Upto(m, g) == g = [t \in SUBSET (1..m) |->
                IF t = {} THEN NoWalk ELSE Visit(rows, have, g[t \ {Max(t)}], dates[Max(t)])]
           S == {m \in Nat : \E g : Upto(m, g)}
<1>1. 0 \in S
    <2> DEFINE g == [t \in {{}} |-> NoWalk]
    <2>1. SUBSET (1..0) = {{}}
        OBVIOUS
    <2>2. Upto(0, g)
        BY <2>1
    <2> QED
        BY <2>2, Zenon
<1>2. ASSUME NEW m \in Nat, m \in S PROVE m + 1 \in S
    <2>1. PICK f : Upto(m, f)
        BY <1>2
    <2> DEFINE g == [t \in SUBSET (1..(m + 1)) |->
                       IF m + 1 \in t THEN Visit(rows, have, f[t \ {m + 1}], dates[m + 1]) ELSE f[t]]
               h == [t \in SUBSET (1..(m + 1)) |->
                       IF t = {} THEN NoWalk ELSE Visit(rows, have, g[t \ {Max(t)}], dates[Max(t)])]
    <2>2. ASSUME NEW t \in SUBSET (1..(m + 1)) PROVE g[t] = h[t]
        <3>1. CASE m + 1 \in t
            <4>1. Max(t) = m + 1
                <5>1. m + 1 \in Nat /\ t # {}
                    BY <3>1
                <5>2. Max(t) \in t /\ \A y \in t : Max(t) >= y
                    BY <5>1, MaxOfNumbers, Zenon
                <5>3. Max(t) \in 1..(m + 1) /\ Max(t) >= m + 1
                    BY <3>1, <5>2
                <5> QED
                    BY <5>3
            <4>2. t \ {m + 1} \in SUBSET (1..(m + 1)) /\ m + 1 \notin t \ {m + 1}
                OBVIOUS
            <4>3. g[t \ {m + 1}] = f[t \ {m + 1}]
                BY <4>2
            <4> QED
                BY <3>1, <4>1, <4>3
        <3>2. CASE m + 1 \notin t /\ t # {}
            <4>1. t \in SUBSET (1..m)
                BY <3>2
            <4>2. f[t] = Visit(rows, have, f[t \ {Max(t)}], dates[Max(t)])
                BY <2>1, <3>2, <4>1
            <4>3. t \ {Max(t)} \in SUBSET (1..(m + 1)) /\ m + 1 \notin t \ {Max(t)}
                BY <3>2
            <4>4. g[t \ {Max(t)}] = f[t \ {Max(t)}]
                BY <4>3
            <4> QED
                BY <3>2, <4>2, <4>4
        <3>3. CASE t = {}
            BY <2>1, <3>3
        <3> QED
            BY <3>1, <3>2, <3>3
    <2>3. Upto(m + 1, g)
        <3>1. g = h
            BY <2>2
        <3> QED
            BY <3>1, Zenon
    <2> HIDE DEF g
    <2>4. m + 1 \in Nat
        OBVIOUS
    <2> QED
        BY <2>3, <2>4, Zenon
<1>3. Nat \subseteq S
    <2> HIDE DEF S
    <2> QED
        BY <1>1, <1>2, Induction
<1> QED
    BY <1>3, Zenon DEF Visits

\* w goes through the states of the walk, from before the first date on.
Walks(rows, have, dates, w) ==
    /\ w[0] = NoWalk
    /\ \A k \in 1..Len(dates) : w[k] = Visit(rows, have, w[k - 1], dates[k])
    /\ goldOverlay(rows, have, dates) = w[Len(dates)].overlay

\* goldOverlay is the overlay of the walk that has visited all the dates.
LEMMA OverlayIsAWalk ==
    ASSUME NEW rows, NEW have, NEW dates, Ascending(dates)
    PROVE  \E w : Walks(rows, have, dates, w)
<1> DEFINE n == Len(dates)
           iter == CHOOSE g : g = [t \in SUBSET DOMAIN dates |->
              IF t = {} THEN NoWalk ELSE Visit(rows, have, g[t \ {Max(t)}], dates[Max(t)])]
           w == [k \in 0..n |-> iter[1..k]]
<1>1. n \in Nat /\ DOMAIN dates = 1..n
    BY DEF Ascending
<1>2. \E g : Visits(rows, have, dates, DOMAIN dates, g)
    BY <1>1, VisitsExist
<1>3. iter = [t \in SUBSET DOMAIN dates |->
              IF t = {} THEN NoWalk ELSE Visit(rows, have, iter[t \ {Max(t)}], dates[Max(t)])]
    BY <1>2, Zenon DEF Visits
<1>4. goldOverlay(rows, have, dates) = iter[DOMAIN dates].overlay
    BY Zenon DEF goldOverlay, FoldLeft, MapThenFoldSet, NoWalk
<1> HIDE DEF iter, n
<1>5. w[0] = NoWalk
    <2>1. 1..0 = {} /\ {} \in SUBSET DOMAIN dates
        OBVIOUS
    <2>2. iter[{}] = NoWalk
        BY <1>3, <2>1, Zenon
    <2> QED
        BY <1>1, <2>1, <2>2
<1>6. ASSUME NEW k \in 1..n PROVE w[k] = Visit(rows, have, w[k - 1], dates[k])
    <2>1. 1..k \in SUBSET DOMAIN dates /\ 1..k # {} /\ k \in Nat
        <3>1. k \in Nat /\ 1 <= k /\ k <= n /\ k \in 1..k
            BY <1>1
        <3>2. \A x \in 1..k : x \in 1..n
            BY <1>1
        <3> QED
            BY <1>1, <3>1, <3>2
    <2>2. Max(1..k) \in 1..k /\ \A y \in 1..k : Max(1..k) >= y
        BY <2>1, MaxOfNumbers, Zenon
    <2>3. Max(1..k) = k
        BY <2>1, <2>2
    <2>4. iter[1..k] = Visit(rows, have, iter[(1..k) \ {Max(1..k)}], dates[Max(1..k)])
        BY <1>3, <2>1, Zenon
    <2>5. (1..k) \ {k} = 1..(k - 1) /\ k \in 0..n /\ k - 1 \in 0..n
        BY <1>1
    <2> QED
        BY <2>3, <2>4, <2>5
<1>7. w[n] = iter[DOMAIN dates]
    BY <1>1
<1> HIDE DEF w
<1>8. Walks(rows, have, dates, w)
    BY <1>4, <1>5, <1>6, <1>7 DEF Walks, n
<1> QED
    BY <1>8, Zenon

------------------------------------------------------------------------------
(***************************************************************************)
(* What AsOf says of a day: its price, its grams, and the row compared with. *)
(***************************************************************************)
\* Any days have a last one.
LEMMA MaxOfDays ==
    ASSUME NEW t \in SUBSET Days, t # {}
    PROVE  Max(t) \in t /\ \A y \in t : Max(t) >= y
<1> DEFINE gaps == {LastDay - x : x \in t}
<1>1. LastDay \in Nat
    BY PricesArePositive
<1>2. gaps \subseteq Nat /\ gaps # {}
    <2>1. gaps # {}
        BY Zenon
    <2>2. \A g \in gaps : g \in Nat
        BY <1>1 DEF Days
    <2> QED
        BY <2>1, <2>2
<1>3. PICK m \in gaps : \A k \in gaps : m <= k
    <2> HIDE DEF gaps
    <2> QED
        BY <1>2, LeastNatural
<1>4. PICK x \in t : m = LastDay - x
    BY <1>3
<1>5. \A y \in t : x >= y
    <2>1. ASSUME NEW y \in t PROVE x >= y
        <3>1. m <= LastDay - y
            BY <1>3
        <3>2. x \in Nat /\ y \in Nat
            BY DEF Days
        <3> QED
            BY <1>1, <1>4, <3>1, <3>2
    <2> QED
        BY <2>1
<1> QED
    BY <1>5 DEF Max

\* The largest of some days is known by its being one and no smaller than any.
LEMMA MaxIs ==
    ASSUME NEW t \in SUBSET Days, NEW x \in t, \A y \in t : x >= y
    PROVE  Max(t) = x
<1>1. Max(t) \in t /\ Max(t) >= x
    BY MaxOfDays
<1>2. x \in Days /\ Max(t) \in Days /\ x >= Max(t)
    BY <1>1
<1>3. \A d \in Days : d \in Nat
    BY PricesArePositive DEF Days
<1> QED
    BY <1>1, <1>2, <1>3

PriceOn(have, day) ==
    LET earlier == {k \in DOMAIN have : have[k].date <= day}
    IN  IF earlier = {} THEN Unpriced ELSE have[Max(earlier)].pricePerGram

GramsOn(rows, day) == TotalGrams(rows, Dated(rows, day))
ValueOn(rows, have, day) == GramsOn(rows, day) * PriceOn(have, day)

Owned(rows, have, day) ==
    PriceOn(have, day) # Unpriced /\ (GramsOn(rows, day) # 0 \/ goldInvestedOn(rows, day) # 0)

\* The value of the latest of some days.
LastValue(rows, have, days) == IF days = {} THEN 0 ELSE ValueOn(rows, have, Max(days))

PointOn(rows, have, days, day) ==
    [invested |-> goldInvestedOn(rows, day), current |-> ValueOn(rows, have, day),
     before |-> LastValue(rows, have, {d \in days : Owned(rows, have, d) /\ d < day})]

\* What AsOf gives each of the days, by name.
LEMMA AsOfPoints ==
    ASSUME NEW rows, NEW have, NEW days \in SUBSET Days
    PROVE  AsOf(rows, have, days) =
               [day \in {d \in days : Owned(rows, have, d)} |-> PointOn(rows, have, days, day)]
<1> DEFINE price == [day \in Days |-> PriceOn(have, day)]
           grams == [day \in Days |-> GramsOn(rows, day)]
           overlaid == {day \in days : /\ price[day] # Unpriced
                                       /\ grams[day] # 0 \/ goldInvestedOn(rows, day) # 0}
           Value(d) == grams[d] * price[d]
           before(day) == LET earlier == {d \in overlaid : d < day}
                          IN  IF earlier = {} THEN 0 ELSE Value(Max(earlier))
           point(day) == [invested |-> goldInvestedOn(rows, day), current |-> Value(day),
                          before |-> before(day)]
<1>1. AsOf(rows, have, days) = [day \in overlaid |-> point(day)]
    BY DEF AsOf, PriceOn, GramsOn
<1>2. overlaid = {d \in days : Owned(rows, have, d)}
    BY DEF Owned
<1>3. \A d \in Days : Value(d) = ValueOn(rows, have, d)
    BY DEF ValueOn
<1> HIDE DEF price, grams, Value
<1>4. ASSUME NEW day \in overlaid PROVE point(day) = PointOn(rows, have, days, day)
    <2> DEFINE earlier == {d \in overlaid : d < day}
    <2>1. earlier = {d \in days : Owned(rows, have, d) /\ d < day}
        BY <1>2
    <2>2. earlier # {} => Max(earlier) \in Days
        <3>1. earlier \in SUBSET Days
            OBVIOUS
        <3> HIDE DEF earlier
        <3> QED
            BY <3>1, MaxOfDays
    <2>3. before(day) = LastValue(rows, have, earlier)
        <3> HIDE DEF overlaid
        <3> QED
            BY <1>3, <2>2 DEF LastValue
    <2> QED
        BY <1>3, <2>1, <2>3 DEF PointOn
<1> QED
    BY <1>1, <1>2, <1>4

------------------------------------------------------------------------------
(***************************************************************************)
(* A walk that has visited some of the dates is as of them.                *)
(***************************************************************************)
\* Days are numbers.
LEMMA DaysAreNumbers == \A d \in Days : d \in Nat
BY PricesArePositive DEF Days

\* Both lists of the walk are in order of their dates.
LEMMA ListsHaveDates ==
    /\ \A rows : DatedRows(rows) => Dates(rows)
    /\ \A have : DatedPrices(have) => Dates(have)
<1>1. ASSUME NEW rows, DatedRows(rows) PROVE Dates(rows)
    BY <1>1, DaysAreNumbers DEF DatedRows, Dates
<1>2. ASSUME NEW have, DatedPrices(have) PROVE Dates(have)
    <2>1. \A k, l \in 1..Len(have) : k < l => have[k].date <= have[l].date
        <3>1. ASSUME NEW k \in 1..Len(have), NEW l \in 1..Len(have), k < l
              PROVE  have[k].date <= have[l].date
            <4>1. have[k].date < have[l].date /\ have[k].date \in Nat /\ have[l].date \in Nat
                BY <1>2, <3>1, DaysAreNumbers DEF DatedPrices
            <4> QED
                BY <4>1
        <3> QED
            BY <3>1
    <2> QED
        BY <1>2, <2>1, DaysAreNumbers DEF DatedPrices, Dates
<1> QED
    BY <1>1, <1>2

\* A pointer has passed the rows of a day when those before it are the ones dated by then.
Passed(rows, pointer, day) ==
    /\ pointer \in 1..(Len(rows) + 1)
    /\ \A j \in 1..Len(rows) : j < pointer <=> rows[j].date <= day

\* Moved on to a day, a pointer has passed what is dated by it and never moves back.
LEMMA PointerMoves ==
    ASSUME NEW rows, Dates(rows), NEW pointer \in 1..(Len(rows) + 1), NEW day \in Nat,
           \A j \in 1..Len(rows) : j < pointer => rows[j].date <= day
    PROVE  /\ Passed(rows, Reached(rows, pointer, day), day)
           /\ Reached(rows, pointer, day) >= pointer
<1> DEFINE stop == Reached(rows, pointer, day)
<1>1. Stops(rows, pointer, day, stop)
    BY ReachedStops
<1>2. Len(rows) \in Nat
    BY DEF Dates
<1> HIDE DEF stop
<1>3. stop \in 1..(Len(rows) + 1) /\ stop >= pointer
    BY <1>1, <1>2 DEF Stops
<1>4. ASSUME NEW j \in 1..Len(rows) PROVE j < stop <=> rows[j].date <= day
    <2>1. rows[j].date \in Nat /\ j \in Nat
        BY DEF Dates
    <2>2. CASE j < stop
        <3>1. j < pointer \/ j \in pointer..(stop - 1)
            BY <1>2, <1>3, <2>1, <2>2
        <3> QED
            BY <1>1, <2>2, <3>1 DEF Stops
    <2>3. CASE ~(j < stop)
        <3>1. j \in stop..Len(rows)
            BY <1>2, <1>3, <2>1, <2>3
        <3>2. rows[j].date > day
            BY <1>1, <3>1 DEF Stops
        <3> QED
            BY <2>1, <2>3, <3>2
    <2> QED
        BY <2>2, <2>3
<1> QED
    BY <1>3, <1>4 DEF Passed, stop

\* What a pointer has passed is what is dated by then.
LEMMA PassedIsDated ==
    ASSUME NEW rows, DatedRows(rows), NEW pointer, NEW day, Passed(rows, pointer, day)
    PROVE  Dated(rows, day) = 1..(pointer - 1)
<1>1. Len(rows) \in Nat /\ DOMAIN rows = 1..Len(rows) /\ pointer \in 1..(Len(rows) + 1)
    BY DEF DatedRows, Passed
<1>2. ASSUME NEW j \in 1..Len(rows) PROVE j \in 1..(pointer - 1) <=> rows[j].date <= day
    BY <1>1, <1>2 DEF Passed
<1>3. \A j \in 1..(pointer - 1) : j \in 1..Len(rows)
    BY <1>1
<1> QED
    BY <1>1, <1>2, <1>3 DEF Dated

\* The price before a pointer is the nearest earlier one of the day it was moved to.
LEMMA PassedPrice ==
    ASSUME NEW have, DatedPrices(have), NEW pointer, NEW day, Passed(have, pointer, day)
    PROVE  PriceOn(have, day) = IF pointer = 1 THEN Unpriced ELSE have[pointer - 1].pricePerGram
<1> DEFINE earlier == {k \in DOMAIN have : have[k].date <= day}
<1>1. Len(have) \in Nat /\ DOMAIN have = 1..Len(have) /\ pointer \in 1..(Len(have) + 1)
    BY DEF DatedPrices, Passed
<1>2. earlier = 1..(pointer - 1)
    <2>1. ASSUME NEW j \in 1..Len(have) PROVE j \in 1..(pointer - 1) <=> have[j].date <= day
        BY <1>1, <2>1 DEF Passed
    <2>2. \A j \in 1..(pointer - 1) : j \in 1..Len(have)
        BY <1>1
    <2> QED
        BY <1>1, <2>1, <2>2
<1> HIDE DEF earlier
<1>3. CASE pointer = 1
    <2>1. earlier = {}
        BY <1>2, <1>3
    <2> QED
        BY <1>3, <2>1 DEF PriceOn, earlier
<1>4. CASE pointer # 1
    <2>1. pointer - 1 \in Nat /\ pointer - 1 \in earlier /\ earlier \in SUBSET (1..(pointer - 1))
        BY <1>1, <1>2, <1>4
    <2>2. Max(earlier) \in earlier /\ \A y \in earlier : Max(earlier) >= y
        BY <2>1, MaxOfNumbers
    <2>3. Max(earlier) = pointer - 1
        BY <1>1, <1>2, <2>1, <2>2
    <2>4. earlier # {}
        BY <2>1
    <2> QED
        BY <1>4, <2>3, <2>4 DEF PriceOn, earlier
<1> QED
    BY <1>3, <1>4

\* Totals of rows at places that are apart add up.
LEMMA TotalsAddUp ==
    ASSUME NEW rows, DatedRows(rows), NEW one \in SUBSET DOMAIN rows, NEW other \in SUBSET DOMAIN rows,
           one \cap other = {}
    PROVE  /\ TotalPaid(rows, one \cup other) = TotalPaid(rows, one) + TotalPaid(rows, other)
           /\ TotalGrams(rows, one \cup other) = TotalGrams(rows, one) + TotalGrams(rows, other)
           /\ TotalPaid(rows, one) \in Int /\ TotalPaid(rows, other) \in Int
           /\ TotalGrams(rows, one) \in Int /\ TotalGrams(rows, other) \in Int
<1>1. IsFiniteSet(DOMAIN rows)
    BY FS_Interval DEF DatedRows
<1>2. /\ IsFiniteSet(one) /\ IsFiniteSet(other) /\ IsFiniteSet(one \cup other)
      /\ one \cup other \subseteq DOMAIN rows
    BY <1>1, FS_Subset, FS_Union
<1>3. \A i \in DOMAIN rows : Fields(rows, "paid")[i] \in Int /\ Fields(rows, "grams")[i] \in Int
    BY DEF Fields, DatedRows
<1>4. \A i \in one \cup other : Fields(rows, "paid")[i] \in Int /\ Fields(rows, "grams")[i] \in Int
    BY <1>3
<1>5. /\ SumOver(Fields(rows, "paid"), one \cup other)
            = SumOver(Fields(rows, "paid"), one) + SumOver(Fields(rows, "paid"), other)
      /\ SumOver(Fields(rows, "paid"), one) \in Int /\ SumOver(Fields(rows, "paid"), other) \in Int
    BY <1>2, <1>4, SumOfApart
<1>6. /\ SumOver(Fields(rows, "grams"), one \cup other)
            = SumOver(Fields(rows, "grams"), one) + SumOver(Fields(rows, "grams"), other)
      /\ SumOver(Fields(rows, "grams"), one) \in Int /\ SumOver(Fields(rows, "grams"), other) \in Int
    BY <1>2, <1>4, SumOfApart
<1>7. \A places : IsFiniteSet(places) /\ places \subseteq DOMAIN rows =>
          /\ TotalPaid(rows, places) = SumOver(Fields(rows, "paid"), places)
          /\ TotalGrams(rows, places) = SumOver(Fields(rows, "grams"), places)
    BY TotalsOfRows
<1> QED
    BY <1>2, <1>5, <1>6, <1>7

\* The dates the walk has seen, and those of them that have a row in the overlay.
Seen(dates, k) == {dates[j] : j \in 1..k}
SeenOwned(rows, have, dates, k) == {d \in Seen(dates, k) : Owned(rows, have, d)}

WalkFields == {"ti", "pi", "invested", "grams", "price", "before", "overlay"}

\* Where the walk is after its first k dates.
WalkAt(rows, have, dates, k, walk) ==
    /\ DOMAIN walk = WalkFields
    /\ IF k = 0 THEN walk.ti = 1 /\ walk.pi = 1
                ELSE Passed(rows, walk.ti, dates[k]) /\ Passed(have, walk.pi, dates[k])
    /\ walk.invested = TotalPaid(rows, 1..(walk.ti - 1))
    /\ walk.grams = TotalGrams(rows, 1..(walk.ti - 1))
    /\ walk.price = IF walk.pi = 1 THEN Unpriced ELSE have[walk.pi - 1].pricePerGram
    /\ walk.before = LastValue(rows, have, SeenOwned(rows, have, dates, k))
    /\ walk.overlay = [d \in SeenOwned(rows, have, dates, k) |->
                          PointOn(rows, have, ToSet(dates), d)]

\* One visit, field by field: pointers, sums and price are those of its day.
LEMMA VisitFields ==
    ASSUME NEW rows, DatedRows(rows), NEW have, DatedPrices(have), NEW dates, Ascending(dates),
           NEW k \in 1..Len(dates), NEW walk, WalkAt(rows, have, dates, k - 1, walk)
    PROVE  LET day == dates[k]
               ti == Reached(rows, walk.ti, day)
               pi == Reached(have, walk.pi, day)
           IN  /\ Passed(rows, ti, day) /\ Passed(have, pi, day)
               /\ walk.invested + TotalPaid(rows, walk.ti..(ti - 1)) = goldInvestedOn(rows, day)
               /\ walk.grams + TotalGrams(rows, walk.ti..(ti - 1)) = GramsOn(rows, day)
               /\ (IF pi > walk.pi THEN have[pi - 1].pricePerGram ELSE walk.price) = PriceOn(have, day)
               /\ goldInvestedOn(rows, day) = TotalPaid(rows, 1..(ti - 1))
               /\ GramsOn(rows, day) = TotalGrams(rows, 1..(ti - 1))
<1> DEFINE day == dates[k]
           ti == Reached(rows, walk.ti, day)
           pi == Reached(have, walk.pi, day)
<1>1. Dates(rows) /\ Dates(have)
    BY ListsHaveDates
<1>2. /\ Len(dates) \in Nat /\ k \in Nat /\ day \in Days /\ day \in Nat
      /\ k - 1 # 0 => k - 1 \in 1..Len(dates) /\ dates[k - 1] \in Nat /\ dates[k - 1] < day
    BY DaysAreNumbers DEF Ascending
<1>3. ASSUME NEW list, Dates(list), NEW pointer,
             IF k - 1 = 0 THEN pointer = 1 ELSE Passed(list, pointer, dates[k - 1])
      PROVE  /\ pointer \in 1..(Len(list) + 1)
             /\ Passed(list, Reached(list, pointer, day), day)
             /\ Reached(list, pointer, day) >= pointer
    <2>1. Len(list) \in Nat
        BY <1>3 DEF Dates
    <2>2. pointer \in 1..(Len(list) + 1)
        BY <1>3, <2>1 DEF Passed
    <2>3. ASSUME NEW j \in 1..Len(list), j < pointer PROVE list[j].date <= day
        <3>1. k - 1 # 0
            BY <1>3, <2>3
        <3>2. list[j].date <= dates[k - 1]
            BY <1>3, <2>3, <3>1 DEF Passed
        <3>3. list[j].date \in Nat
            BY <1>3 DEF Dates
        <3> QED
            BY <1>2, <3>1, <3>2, <3>3
    <2> HIDE DEF day
    <2> QED
        BY <1>2, <1>3, <2>2, <2>3, PointerMoves
<1>4. /\ walk.ti \in 1..(Len(rows) + 1) /\ Passed(rows, ti, day) /\ ti >= walk.ti
      /\ walk.pi \in 1..(Len(have) + 1) /\ Passed(have, pi, day) /\ pi >= walk.pi
    BY <1>1, <1>3 DEF WalkAt
<1>5. /\ Len(rows) \in Nat /\ DOMAIN rows = 1..Len(rows) /\ ti \in 1..(Len(rows) + 1)
      /\ Len(have) \in Nat /\ pi \in 1..(Len(have) + 1)
    BY <1>4 DEF Passed, DatedRows, DatedPrices
<1> HIDE DEF ti, pi, day
<1>6. Dated(rows, day) = 1..(ti - 1)
    BY <1>4, PassedIsDated
<1>7. goldInvestedOn(rows, day) = TotalPaid(rows, 1..(ti - 1)) /\ GramsOn(rows, day) = TotalGrams(rows, 1..(ti - 1))
    BY <1>6 DEF goldInvestedOn, GramsOn
<1>8. /\ TotalPaid(rows, 1..(walk.ti - 1)) + TotalPaid(rows, walk.ti..(ti - 1)) = TotalPaid(rows, 1..(ti - 1))
      /\ TotalGrams(rows, 1..(walk.ti - 1)) + TotalGrams(rows, walk.ti..(ti - 1)) = TotalGrams(rows, 1..(ti - 1))
    <2> DEFINE one == 1..(walk.ti - 1)
               other == walk.ti..(ti - 1)
    <2>a. \A n, a, b \in Nat : 1 <= a /\ a <= b /\ b <= n + 1 =>
             /\ 1..(a - 1) \in SUBSET (1..n) /\ a..(b - 1) \in SUBSET (1..n)
             /\ (1..(a - 1)) \cap (a..(b - 1)) = {}
             /\ (1..(a - 1)) \cup (a..(b - 1)) = 1..(b - 1)
        OBVIOUS
    <2>b. /\ walk.ti \in Nat /\ ti \in Nat /\ 1 <= walk.ti /\ walk.ti <= ti /\ ti <= Len(rows) + 1
          /\ Len(rows) \in Nat
        BY <1>4, <1>5
    <2>1. /\ one \in SUBSET DOMAIN rows /\ other \in SUBSET DOMAIN rows /\ one \cap other = {}
          /\ one \cup other = 1..(ti - 1)
        BY <1>5, <2>a, <2>b
    <2> HIDE DEF one, other
    <2>2. /\ TotalPaid(rows, one \cup other) = TotalPaid(rows, one) + TotalPaid(rows, other)
          /\ TotalGrams(rows, one \cup other) = TotalGrams(rows, one) + TotalGrams(rows, other)
        BY <2>1, TotalsAddUp
    <2> QED
        BY <2>1, <2>2 DEF one, other
<1>9. PriceOn(have, day) = IF pi = 1 THEN Unpriced ELSE have[pi - 1].pricePerGram
    BY <1>4, PassedPrice
<1>10. (IF pi > walk.pi THEN have[pi - 1].pricePerGram ELSE walk.price) = PriceOn(have, day)
    <2>1. CASE pi > walk.pi
        <3>1. pi # 1
            BY <1>4, <1>5, <2>1
        <3> QED
            BY <1>9, <2>1, <3>1
    <2>2. CASE ~(pi > walk.pi)
        <3>1. pi = walk.pi
            BY <1>4, <1>5, <2>2
        <3>2. walk.price = IF walk.pi = 1 THEN Unpriced ELSE have[walk.pi - 1].pricePerGram
            BY DEF WalkAt
        <3> QED
            BY <1>9, <2>2, <3>1, <3>2
    <2> QED
        BY <2>1, <2>2
<1>11. /\ walk.invested = TotalPaid(rows, 1..(walk.ti - 1))
       /\ walk.grams = TotalGrams(rows, 1..(walk.ti - 1))
    BY DEF WalkAt
<1> QED
    BY <1>4, <1>7, <1>8, <1>10, <1>11 DEF day, ti, pi

\* A visit takes a walk that is as of its dates so far to one that is so with the next.
LEMMA StepOfTheWalk ==
    ASSUME NEW rows, DatedRows(rows), NEW have, DatedPrices(have), NEW dates, Ascending(dates),
           NEW k \in 1..Len(dates), NEW walk, WalkAt(rows, have, dates, k - 1, walk)
    PROVE  WalkAt(rows, have, dates, k, Visit(rows, have, walk, dates[k]))
<1> DEFINE day == dates[k]
           ti == Reached(rows, walk.ti, day)
           pi == Reached(have, walk.pi, day)
           invested == goldInvestedOn(rows, day)
           grams == GramsOn(rows, day)
           price == PriceOn(have, day)
           moved == [walk EXCEPT !.ti = ti, !.pi = pi, !.invested = invested,
                                 !.grams = grams, !.price = price]
           point == [invested |-> invested, current |-> grams * price, before |-> walk.before]
           valued == [moved EXCEPT !.before = grams * price,
                        !.overlay = [d \in DOMAIN walk.overlay \cup {day} |->
                                        IF d = day THEN point ELSE walk.overlay[d]]]
           next == Visit(rows, have, walk, day)
           before == SeenOwned(rows, have, dates, k - 1)
           after == SeenOwned(rows, have, dates, k)
<1>1. /\ Passed(rows, ti, day) /\ Passed(have, pi, day)
      /\ walk.invested + TotalPaid(rows, walk.ti..(ti - 1)) = invested
      /\ walk.grams + TotalGrams(rows, walk.ti..(ti - 1)) = grams
      /\ (IF pi > walk.pi THEN have[pi - 1].pricePerGram ELSE walk.price) = price
      /\ invested = TotalPaid(rows, 1..(ti - 1))
      /\ grams = TotalGrams(rows, 1..(ti - 1))
    BY VisitFields
<1>2. price = IF pi = 1 THEN Unpriced ELSE have[pi - 1].pricePerGram
    BY <1>1, PassedPrice
<1>3. next = IF (grams = 0 /\ invested = 0) \/ price = Unpriced THEN moved ELSE valued
    BY <1>1 DEF Visit
<1>4. Owned(rows, have, day) <=> ~((grams = 0 /\ invested = 0) \/ price = Unpriced)
    BY DEF Owned
<1>5. ValueOn(rows, have, day) = grams * price
    BY DEF ValueOn
<1>6. /\ DOMAIN walk = WalkFields
      /\ walk.before = LastValue(rows, have, before)
      /\ walk.overlay = [d \in before |-> PointOn(rows, have, ToSet(dates), d)]
    BY DEF WalkAt
<1> DEFINE value == grams * price
<1>7. /\ DOMAIN moved = WalkFields /\ moved.ti = ti /\ moved.pi = pi
      /\ moved.invested = invested /\ moved.grams = grams /\ moved.price = price
      /\ moved.before = walk.before /\ moved.overlay = walk.overlay
    <2> HIDE DEF ti, pi, invested, grams, price
    <2> QED
        BY <1>6 DEF WalkFields
<1>a. /\ DOMAIN valued = WalkFields /\ valued.ti = ti /\ valued.pi = pi
      /\ valued.invested = invested /\ valued.grams = grams /\ valued.price = price
      /\ valued.before = value
      /\ valued.overlay = [d \in DOMAIN walk.overlay \cup {day} |->
                               IF d = day THEN point ELSE walk.overlay[d]]
    <2> HIDE DEF moved, ti, pi, invested, grams, price, point
    <2> QED
        BY <1>7 DEF WalkFields
<1>8. /\ Len(dates) \in Nat /\ DOMAIN dates = 1..Len(dates) /\ k \in Nat /\ day \in Days
      /\ \A j \in 1..Len(dates) : dates[j] \in Days /\ (j < k <=> dates[j] < day)
    <2>1. /\ Len(dates) \in Nat /\ DOMAIN dates = 1..Len(dates)
          /\ \A j \in 1..Len(dates) : dates[j] \in Days /\ dates[j] \in Nat
          /\ \A j, l \in 1..Len(dates) : j < l => dates[j] < dates[l]
        BY DaysAreNumbers DEF Ascending
    <2>2. ASSUME NEW j \in 1..Len(dates) PROVE j < k <=> dates[j] < day
        <3>1. j < k \/ j = k \/ k < j
            OBVIOUS
        <3> QED
            BY <2>1, <3>1
    <2> QED
        BY <2>1, <2>2
<1>9. k # 0
    BY <1>8
<1> HIDE DEF day, ti, pi, invested, grams, price, point, value, moved, valued, next
<1>10. Seen(dates, k) = Seen(dates, k - 1) \cup {day}
    <2>1. 1..k = 1..(k - 1) \cup {k}
        BY <1>8
    <2> QED
        BY <2>1 DEF Seen, day
<1>11. after = IF Owned(rows, have, day) THEN before \cup {day} ELSE before
    BY <1>10 DEF SeenOwned
<1>12. /\ before \in SUBSET Days /\ \A d \in before : d \in Nat /\ d < day
       /\ before = {d \in ToSet(dates) : Owned(rows, have, d) /\ d < day}
    <2>1. Seen(dates, k - 1) = {d \in ToSet(dates) : d < day}
        <3>1. ASSUME NEW d \in Seen(dates, k - 1) PROVE d \in ToSet(dates) /\ d < day
            <4>1. PICK j \in 1..(k - 1) : d = dates[j]
                BY DEF Seen
            <4>2. j \in 1..Len(dates) /\ j < k
                BY <1>8
            <4> QED
                BY <1>8, <4>1, <4>2 DEF ToSet
        <3>2. ASSUME NEW d \in ToSet(dates), d < day PROVE d \in Seen(dates, k - 1)
            <4>1. PICK j \in 1..Len(dates) : d = dates[j]
                BY <1>8 DEF ToSet
            <4>2. j \in 1..(k - 1)
                BY <1>8, <3>2, <4>1
            <4> QED
                BY <4>1, <4>2 DEF Seen
        <3> QED
            BY <3>1, <3>2
    <2>2. \A d \in ToSet(dates) : d \in Days /\ d \in Nat
        BY <1>8, DaysAreNumbers DEF ToSet
    <2> QED
        BY <2>1, <2>2 DEF SeenOwned
<1> HIDE DEF before, after
<1>13. /\ DOMAIN next = WalkFields
       /\ next.ti = ti /\ next.pi = pi /\ next.invested = invested /\ next.grams = grams
       /\ next.price = price
    BY <1>3, <1>7, <1>a
<1>14. /\ next.before = LastValue(rows, have, after)
       /\ next.overlay = [d \in after |-> PointOn(rows, have, ToSet(dates), d)]
    <2>1. CASE ~Owned(rows, have, day)
        <3>1. after = before /\ next = moved
            BY <1>3, <1>4, <1>11, <2>1
        <3> QED
            BY <1>6, <1>7, <3>1
    <2>2. CASE Owned(rows, have, day)
        <3>1. after = before \cup {day} /\ next = valued
            BY <1>3, <1>4, <1>11, <2>2
        <3>2. Max(after) = day
            <4>1. after \in SUBSET Days /\ day \in after /\ \A y \in after : day >= y
                BY <1>8, <1>12, <3>1, DaysAreNumbers
            <4> QED
                BY <4>1, MaxIs
        <3>3. next.before = LastValue(rows, have, after)
            BY <1>5, <1>a, <3>1, <3>2 DEF LastValue, value
        <3>4. PointOn(rows, have, ToSet(dates), day) = point
            BY <1>5, <1>6, <1>12 DEF PointOn, point, invested
        <3>5. \A d \in before : d # day /\ walk.overlay[d] = PointOn(rows, have, ToSet(dates), d)
            BY <1>6, <1>8, <1>12
        <3>6. DOMAIN walk.overlay \cup {day} = after
            BY <1>6, <3>1
        <3>7. next.overlay = [d \in after |-> IF d = day THEN point ELSE walk.overlay[d]]
            BY <1>a, <3>1, <3>6
        <3>8. next.overlay = [d \in after |-> PointOn(rows, have, ToSet(dates), d)]
            <4>1. \A d \in after : (IF d = day THEN point ELSE walk.overlay[d])
                                     = PointOn(rows, have, ToSet(dates), d)
                BY <3>1, <3>4, <3>5
            <4> QED
                BY <3>7, <4>1
        <3> QED
            BY <3>3, <3>8
    <2> QED
        BY <2>1, <2>2
<1>15. WalkAt(rows, have, dates, k, next)
    BY <1>1, <1>2, <1>9, <1>13, <1>14 DEF WalkAt, after, day
<1> QED
    BY <1>15 DEF next, day

\* For any purchases, prices and dates: the walk of the overlay is the overlay as of
\* each of the dates.
LEMMA WalkIsAsOf ==
    ASSUME NEW rows, DatedRows(rows), NEW have, DatedPrices(have), NEW dates, Ascending(dates)
    PROVE  goldOverlay(rows, have, dates) = AsOf(rows, have, ToSet(dates))
<1>1. PICK w : Walks(rows, have, dates, w)
    BY OverlayIsAWalk
<1> DEFINE n == Len(dates)
           S == {k \in Nat : k <= n => WalkAt(rows, have, dates, k, w[k])}
<1>2. n \in Nat /\ DOMAIN dates = 1..n /\ \A j \in 1..n : dates[j] \in Days
    BY DEF Ascending
<1>3. 0 \in S
    <2>1. SeenOwned(rows, have, dates, 0) = {}
        BY DEF SeenOwned, Seen
    <2>2. 1..(1 - 1) = {} /\ IsFiniteSet({}) /\ {} \subseteq DOMAIN rows
        BY FS_EmptySet
    <2>3. TotalPaid(rows, {}) = 0 /\ TotalGrams(rows, {}) = 0
        BY <2>2, TotalsOfRows, EmptySum
    <2>4. NoWalk.overlay = [d \in {} |-> PointOn(rows, have, ToSet(dates), d)]
        BY DEF NoWalk, NoOverlay
    <2>5. WalkAt(rows, have, dates, 0, NoWalk)
        BY <2>1, <2>2, <2>3, <2>4 DEF WalkAt, NoWalk, LastValue, WalkFields
    <2>6. w[0] = NoWalk
        BY <1>1 DEF Walks
    <2> QED
        BY <2>5, <2>6
<1>4. ASSUME NEW k \in Nat, k \in S PROVE k + 1 \in S
    <2>1. SUFFICES ASSUME k + 1 <= n PROVE WalkAt(rows, have, dates, k + 1, w[k + 1])
        OBVIOUS
    <2>2. PICK j \in 1..n : j = k + 1
        BY <1>2, <2>1
    <2>3. k = j - 1 /\ WalkAt(rows, have, dates, j - 1, w[j - 1])
        BY <1>2, <1>4, <2>1, <2>2
    <2>4. w[j] = Visit(rows, have, w[j - 1], dates[j])
        BY <1>1 DEF Walks
    <2>5. WalkAt(rows, have, dates, j, w[j])
        BY <2>3, <2>4, StepOfTheWalk
    <2> QED
        BY <2>2, <2>5
<1>5. Nat \subseteq S
    <2> HIDE DEF S
    <2> QED
        BY <1>3, <1>4, Induction
<1>6. WalkAt(rows, have, dates, n, w[n])
    BY <1>2, <1>5
<1>7. Seen(dates, n) = ToSet(dates) /\ ToSet(dates) \in SUBSET Days
    BY <1>2 DEF Seen, ToSet
<1>8. goldOverlay(rows, have, dates) = [d \in {x \in ToSet(dates) : Owned(rows, have, x)} |->
                                            PointOn(rows, have, ToSet(dates), d)]
    BY <1>1, <1>6, <1>7 DEF Walks, WalkAt, SeenOwned
<1>9. AsOf(rows, have, ToSet(dates)) = [d \in {x \in ToSet(dates) : Owned(rows, have, x)} |->
                                            PointOn(rows, have, ToSet(dates), d)]
    <2> DEFINE days == ToSet(dates)
    <2>1. days \in SUBSET Days
        BY <1>7
    <2> HIDE DEF days
    <2>2. AsOf(rows, have, days) = [d \in {x \in days : Owned(rows, have, x)} |-> PointOn(rows, have, days, d)]
        BY <2>1, AsOfPoints
    <2> QED
        BY <2>2 DEF days
<1> QED
    BY <1>8, <1>9, Zenon

------------------------------------------------------------------------------
(***************************************************************************)
(* What the tables hold, and what the lists of it are for a walk.          *)
(***************************************************************************)
Purchase == [id : {0}, date : Days, grams : Int, paid : Int]

GoldLedger(ledger) ==
    /\ DOMAIN ledger \subseteq Ids /\ IsFiniteSet(DOMAIN ledger)
    /\ \A id \in DOMAIN ledger : ledger[id] \in Purchase

GoldPrices(have) ==
    /\ DOMAIN have \subseteq Days
    /\ \A day \in DOMAIN have : have[day] \in Prices

\* ListTransactions gives the purchases in order of their dates.
LEMMA ListedTransactions ==
    ASSUME NEW ledger, GoldLedger(ledger)
    PROVE  DatedRows(ListTransactions(ledger))
<1> DEFINE S == {Row(ledger, id) : id \in DOMAIN ledger}
           R == {pair \in S \X S : \/ pair[1].date < pair[2].date
                                   \/ pair[1].date = pair[2].date /\ pair[1].id < pair[2].id}
           rows == ListTransactions(ledger)
<1>1. \A id \in DOMAIN ledger :
          /\ id \in Nat /\ Row(ledger, id).id = id
          /\ Row(ledger, id).date \in Days /\ Row(ledger, id).date \in Nat
          /\ Row(ledger, id).grams \in Int /\ Row(ledger, id).paid \in Int
    <2>1. ASSUME NEW id \in DOMAIN ledger
          PROVE  /\ id \in Nat /\ Row(ledger, id).id = id
                 /\ Row(ledger, id).date \in Days
                 /\ Row(ledger, id).grams \in Int /\ Row(ledger, id).paid \in Int
        <3>1. ledger[id] \in Purchase /\ id \in Nat
            BY IdsAreOrdered DEF GoldLedger
        <3> QED
            BY <3>1 DEF Row, Purchase
    <2> QED
        BY <2>1, DaysAreNumbers
<1>2. \A x \in S : /\ x.id \in DOMAIN ledger /\ x = Row(ledger, x.id) /\ x.id \in Nat
                   /\ x.date \in Days /\ x.date \in Nat /\ x.grams \in Int /\ x.paid \in Int
    BY <1>1
<1>3. IsFiniteSet(S)
    <2> DEFINE f == [id \in DOMAIN ledger |-> Row(ledger, id)]
    <2>1. f \in [DOMAIN ledger -> S] /\ \A x \in S : \E id \in DOMAIN ledger : f[id] = x
        OBVIOUS
    <2> HIDE DEF f, S
    <2>2. f \in Surjection(DOMAIN ledger, S)
        BY <2>1, Zenon DEF Surjection
    <2> QED
        BY <2>2, FS_Surjection, Zenon DEF GoldLedger
<1>4. \A x, y \in S : <<x, y>> \in R <=> x.date < y.date \/ (x.date = y.date /\ x.id < y.id)
    OBVIOUS
<1>5. rows = RankedList(S, R)
    <2>1. ASSUME NEW x \in S
          PROVE  {y \in S : y.date < x.date \/ (y.date = x.date /\ y.id < x.id)} = {y \in S : <<y, x>> \in R}
        BY <1>4
    <2> DEFINE before(x) == {y \in S : y.date < x.date \/ (y.date = x.date /\ y.id < x.id)}
               below(x) == {y \in S : <<y, x>> \in R}
    <2>2. rows = [place \in 1..Cardinality(S) |-> CHOOSE x \in S : Cardinality(before(x)) = place - 1]
        BY Zenon DEF ListTransactions, Sorted
    <2>3. \A x \in S : before(x) = below(x)
        BY <2>1
    <2> HIDE DEF before, below, rows
    <2>4. ASSUME NEW place
          PROVE  (CHOOSE x \in S : Cardinality(before(x)) = place - 1)
                     = (CHOOSE x \in S : Cardinality(below(x)) = place - 1)
        <3>1. \A x \in S : (Cardinality(before(x)) = place - 1) <=> (Cardinality(below(x)) = place - 1)
            BY <2>3
        <3> HIDE DEF S
        <3> QED
            BY <3>1
    <2>5. rows = [place \in 1..Cardinality(S) |-> CHOOSE x \in S : Cardinality(below(x)) = place - 1]
        <3> HIDE DEF S
        <3> QED
            BY <2>2, <2>4
    <2> QED
        BY <2>5 DEF below, RankedList
<1> HIDE DEF R
<1>6. /\ \A x \in S : <<x, x>> \notin R
      /\ \A x, y \in S : x # y => <<x, y>> \in R \/ <<y, x>> \in R
      /\ \A x, y, z \in S : <<x, y>> \in R /\ <<y, z>> \in R => <<x, z>> \in R
    <2> HIDE DEF S
    <2>1. \A x \in S : <<x, x>> \notin R
        BY <1>2, <1>4
    <2>2. \A x, y \in S : x # y => <<x, y>> \in R \/ <<y, x>> \in R
        BY <1>2, <1>4
    <2>3. \A x, y, z \in S : <<x, y>> \in R /\ <<y, z>> \in R => <<x, z>> \in R
        BY <1>2, <1>4
    <2> QED
        BY <2>1, <2>2, <2>3
<1> HIDE DEF S, rows
<1>7. Lists(rows, S, R)
    BY <1>3, <1>5, <1>6, SortedLists
<1>8. Len(rows) \in Nat /\ DOMAIN rows = 1..Len(rows) /\ \A k \in 1..Len(rows) : rows[k] \in S
    BY <1>7 DEF Lists
<1>9. \A k, l \in 1..Len(rows) : k < l => rows[k].date <= rows[l].date
    <2>1. ASSUME NEW k \in 1..Len(rows), NEW l \in 1..Len(rows), k < l
          PROVE  rows[k].date <= rows[l].date
        <3>1. <<rows[k], rows[l]>> \in R
            BY <1>7, <2>1 DEF Lists
        <3> QED
            BY <1>2, <1>4, <1>8, <3>1
    <2> QED
        BY <2>1
<1> QED
    BY <1>2, <1>8, <1>9 DEF DatedRows, rows

\* Any days are finitely many.
LEMMA DaysAreFinite ==
    ASSUME NEW days, days \subseteq Days PROVE IsFiniteSet(days)
<1>1. IsFiniteSet(Days)
    BY PricesArePositive, FS_Interval DEF Days
<1> QED
    BY <1>1, FS_Subset

\* Days in ascending order: each of them once, the earlier ones first.
LEMMA SortedDays ==
    ASSUME NEW days, days \subseteq Days
    PROVE  LET dates == Sorted(days, LAMBDA a, b : a < b)
           IN  /\ Ascending(dates) /\ ToSet(dates) = days
               /\ days # {} => Len(dates) > 0
               /\ DOMAIN dates = 1..Cardinality(days) /\ Cardinality(days) \in Nat
<1> DEFINE R == {pair \in days \X days : pair[1] < pair[2]}
           dates == Sorted(days, LAMBDA a, b : a < b)
           before(x) == {y \in days : y < x}
           below(x) == {y \in days : <<y, x>> \in R}
<1>1. \A x \in days : x \in Nat
    BY DaysAreNumbers
<1>2. \A x, y \in days : <<x, y>> \in R <=> x < y
    OBVIOUS
<1>3. \A x \in days : before(x) = below(x)
    BY <1>2
<1>4. dates = [place \in 1..Cardinality(days) |-> CHOOSE x \in days : Cardinality(before(x)) = place - 1]
    BY Zenon DEF Sorted
<1>5. dates = RankedList(days, R)
    <2> HIDE DEF before, below, dates
    <2>1. ASSUME NEW place
          PROVE  (CHOOSE x \in days : Cardinality(before(x)) = place - 1)
                     = (CHOOSE x \in days : Cardinality(below(x)) = place - 1)
        <3>1. \A x \in days : (Cardinality(before(x)) = place - 1) <=> (Cardinality(below(x)) = place - 1)
            BY <1>3
        <3> QED
            BY <3>1
    <2>2. dates = [place \in 1..Cardinality(days) |-> CHOOSE x \in days : Cardinality(below(x)) = place - 1]
        BY <1>4, <2>1
    <2> QED
        BY <2>2 DEF below, RankedList
<1> HIDE DEF R, dates
<1>6. Lists(dates, days, R)
    <2>1. \A x \in days : <<x, x>> \notin R
        BY <1>1, <1>2
    <2>2. \A x, y \in days : x # y => <<x, y>> \in R \/ <<y, x>> \in R
        BY <1>1, <1>2
    <2>3. \A x, y, z \in days : <<x, y>> \in R /\ <<y, z>> \in R => <<x, z>> \in R
        BY <1>1, <1>2
    <2> QED
        BY <1>5, <2>1, <2>2, <2>3, DaysAreFinite, SortedLists
<1>7. /\ Len(dates) \in Nat /\ DOMAIN dates = 1..Len(dates) /\ \A k \in 1..Len(dates) : dates[k] \in days
      /\ Len(dates) = Cardinality(days)
    BY <1>6 DEF Lists
<1>8. Ascending(dates)
    <2>1. ASSUME NEW k \in 1..Len(dates), NEW l \in 1..Len(dates), k < l PROVE dates[k] < dates[l]
        BY <1>2, <1>6, <1>7, <2>1 DEF Lists
    <2> QED
        BY <1>7, <2>1 DEF Ascending
<1>9. \A x \in days : \E k \in 1..Len(dates) : dates[k] = x
    BY <1>6 DEF Lists
<1>10. ToSet(dates) = days
    BY <1>7, <1>9 DEF ToSet
<1>11. days # {} => Len(dates) > 0
    BY <1>7, <1>9
<1> QED
    BY <1>7, <1>8, <1>10, <1>11 DEF dates

\* Days in descending order: each of them once.
LEMMA ReversedDays ==
    ASSUME NEW days, days \subseteq Days
    PROVE  LET list == Sorted(days, LAMBDA a, b : a > b)
           IN  /\ list \in Seq(days) /\ ToSet(list) = days
               /\ \A k, l \in DOMAIN list : list[k] = list[l] => k = l
<1> DEFINE R == {pair \in days \X days : pair[1] > pair[2]}
           list == Sorted(days, LAMBDA a, b : a > b)
           before(x) == {y \in days : y > x}
           below(x) == {y \in days : <<y, x>> \in R}
<1>1. \A x \in days : x \in Nat
    BY DaysAreNumbers
<1>2. \A x, y \in days : <<x, y>> \in R <=> x > y
    OBVIOUS
<1>3. \A x \in days : before(x) = below(x)
    BY <1>2
<1>4. list = [place \in 1..Cardinality(days) |-> CHOOSE x \in days : Cardinality(before(x)) = place - 1]
    BY Zenon DEF Sorted
<1>5. list = RankedList(days, R)
    <2> HIDE DEF before, below, list
    <2>1. ASSUME NEW place
          PROVE  (CHOOSE x \in days : Cardinality(before(x)) = place - 1)
                     = (CHOOSE x \in days : Cardinality(below(x)) = place - 1)
        <3>1. \A x \in days : (Cardinality(before(x)) = place - 1) <=> (Cardinality(below(x)) = place - 1)
            BY <1>3
        <3> QED
            BY <3>1
    <2>2. list = [place \in 1..Cardinality(days) |-> CHOOSE x \in days : Cardinality(below(x)) = place - 1]
        BY <1>4, <2>1
    <2> QED
        BY <2>2 DEF below, RankedList
<1> HIDE DEF R, list
<1>6. Lists(list, days, R)
    <2>1. \A x \in days : <<x, x>> \notin R
        BY <1>1, <1>2
    <2>2. \A x, y \in days : x # y => <<x, y>> \in R \/ <<y, x>> \in R
        BY <1>1, <1>2
    <2>3. \A x, y, z \in days : <<x, y>> \in R /\ <<y, z>> \in R => <<x, z>> \in R
        BY <1>1, <1>2
    <2> QED
        BY <1>5, <2>1, <2>2, <2>3, DaysAreFinite, SortedLists
<1>7. /\ Len(list) \in Nat /\ DOMAIN list = 1..Len(list) /\ \A k \in 1..Len(list) : list[k] \in days
      /\ list \in Seq(days)
    BY <1>6 DEF Lists
<1>8. ASSUME NEW k \in DOMAIN list, NEW l \in DOMAIN list, list[k] = list[l] PROVE k = l
    <2>1. k < l => list[k] > list[l]
        BY <1>2, <1>6, <1>7 DEF Lists
    <2>2. l < k => list[l] > list[k]
        BY <1>2, <1>6, <1>7 DEF Lists
    <2> QED
        BY <1>1, <1>7, <1>8, <2>1, <2>2
<1>9. \A x \in days : \E k \in 1..Len(list) : list[k] = x
    BY <1>6 DEF Lists
<1>10. ToSet(list) = days
    BY <1>7, <1>9 DEF ToSet
<1> QED
    BY <1>7, <1>8, <1>10 DEF list

\* ListPrices gives the prices of its range in order of their days, one a day.
LEMMA ListedPrices ==
    ASSUME NEW table, GoldPrices(table), NEW from \in Int, NEW to \in Int
    PROVE  LET have == ListPrices(table, from, to)
               days == {d \in DOMAIN table : from <= d /\ d <= to}
           IN  /\ DatedPrices(have)
               /\ \A k \in DOMAIN have : have[k].date \in days /\ have[k].pricePerGram = table[have[k].date]
               /\ \A d \in days : \E k \in DOMAIN have : have[k].date = d
<1> DEFINE days == {d \in DOMAIN table : from <= d /\ d <= to}
           S == {[date |-> day, pricePerGram |-> table[day]] : day \in days}
           R == {pair \in S \X S : pair[1].date < pair[2].date}
           have == ListPrices(table, from, to)
           before(x) == {y \in S : y.date < x.date}
           below(x) == {y \in S : <<y, x>> \in R}
<1>1. \A d \in days : d \in Days /\ d \in Nat /\ table[d] \in Nat \ {0}
    BY DaysAreNumbers, PricesArePositive DEF GoldPrices
<1>2. \A x \in S : x.date \in days /\ x.pricePerGram = table[x.date] /\ x = [date |-> x.date, pricePerGram |-> table[x.date]]
    OBVIOUS
<1>3. \A d \in days : [date |-> d, pricePerGram |-> table[d]] \in S
    OBVIOUS
<1>4. \A x, y \in S : <<x, y>> \in R <=> x.date < y.date
    OBVIOUS
<1>5. \A x \in S : before(x) = below(x)
    BY <1>4
<1>6. have = [place \in 1..Cardinality(S) |-> CHOOSE x \in S : Cardinality(before(x)) = place - 1]
    BY Zenon DEF ListPrices, Sorted
<1>7. IsFiniteSet(S)
    <2> DEFINE f == [d \in days |-> [date |-> d, pricePerGram |-> table[d]]]
    <2>1. f \in [days -> S] /\ \A x \in S : \E d \in days : f[d] = x
        OBVIOUS
    <2>2. IsFiniteSet(days)
        BY DaysAreFinite, <1>1
    <2> HIDE DEF f, S, days
    <2>3. f \in Surjection(days, S)
        BY <2>1, Zenon DEF Surjection
    <2> QED
        BY <2>2, <2>3, FS_Surjection, Zenon
<1>8. have = RankedList(S, R)
    <2> HIDE DEF before, below, have
    <2>1. ASSUME NEW place
          PROVE  (CHOOSE x \in S : Cardinality(before(x)) = place - 1)
                     = (CHOOSE x \in S : Cardinality(below(x)) = place - 1)
        <3>1. \A x \in S : (Cardinality(before(x)) = place - 1) <=> (Cardinality(below(x)) = place - 1)
            BY <1>5
        <3> HIDE DEF S
        <3> QED
            BY <3>1
    <2>2. have = [place \in 1..Cardinality(S) |-> CHOOSE x \in S : Cardinality(below(x)) = place - 1]
        <3> HIDE DEF S
        <3> QED
            BY <1>6, <2>1
    <2> QED
        BY <2>2 DEF below, RankedList
<1> HIDE DEF R, S, have, days
<1>9. Lists(have, S, R)
    <2>1. \A x \in S : <<x, x>> \notin R
        BY <1>1, <1>2, <1>4
    <2>2. \A x, y \in S : x # y => <<x, y>> \in R \/ <<y, x>> \in R
        <3>1. ASSUME NEW x \in S, NEW y \in S, x # y PROVE x.date # y.date
            BY <1>2, <3>1
        <3> QED
            BY <1>1, <1>2, <1>4, <3>1
    <2>3. \A x, y, z \in S : <<x, y>> \in R /\ <<y, z>> \in R => <<x, z>> \in R
        BY <1>1, <1>2, <1>4
    <2> QED
        BY <1>7, <1>8, <2>1, <2>2, <2>3, SortedLists
<1>10. Len(have) \in Nat /\ DOMAIN have = 1..Len(have) /\ \A k \in 1..Len(have) : have[k] \in S
    BY <1>9 DEF Lists
<1>11. DatedPrices(have)
    <2>1. ASSUME NEW k \in 1..Len(have), NEW l \in 1..Len(have), k < l PROVE have[k].date < have[l].date
        BY <1>4, <1>9, <1>10, <2>1 DEF Lists
    <2> QED
        BY <1>1, <1>2, <1>10, <2>1 DEF DatedPrices
<1>12. \A d \in days : \E k \in DOMAIN have : have[k].date = d
    <2>1. ASSUME NEW d \in days PROVE \E k \in DOMAIN have : have[k].date = d
        <3>1. PICK k \in 1..Len(have) : have[k] = [date |-> d, pricePerGram |-> table[d]]
            BY <1>3, <1>9 DEF Lists
        <3> QED
            BY <1>10, <3>1
    <2> QED
        BY <2>1
<1> QED
    BY <1>2, <1>10, <1>11, <1>12 DEF have, days

\* The nearest earlier price of a list that reaches as far is that of the table.
LEMMA PriceOfTheDay ==
    ASSUME NEW table, GoldPrices(table), NEW to \in Int, NEW day \in Days, day <= to
    PROVE  PriceOn(ListPrices(table, 0, to), day) = LatestPriceOnOrBefore(table, day)
<1> DEFINE have == ListPrices(table, 0, to)
           places == {k \in DOMAIN have : have[k].date <= day}
           earlier == {d \in DOMAIN table : d <= day}
<1>1. /\ DatedPrices(have)
      /\ \A k \in DOMAIN have : /\ have[k].date \in DOMAIN table
                                /\ have[k].pricePerGram = table[have[k].date]
      /\ \A d \in DOMAIN table : 0 <= d /\ d <= to => \E k \in DOMAIN have : have[k].date = d
    BY ListedPrices
<1>2. day \in Nat /\ earlier \in SUBSET Days /\ \A d \in DOMAIN table : d \in Nat
    BY DaysAreNumbers DEF GoldPrices
<1> HIDE DEF have
<1>3. CASE earlier = {}
    <2>1. places = {}
        BY <1>1, <1>3
    <2> QED
        BY <1>3, <2>1 DEF PriceOn, LatestPriceOnOrBefore, have
<1>4. CASE earlier # {}
    <2>1. Max(earlier) \in earlier /\ \A d \in earlier : Max(earlier) >= d
        <3> HIDE DEF earlier
        <3> QED
            BY <1>2, <1>4, MaxOfDays
    <2>2. PICK k \in DOMAIN have : have[k].date = Max(earlier)
        <3>1. /\ Max(earlier) \in DOMAIN table /\ Max(earlier) \in Nat
              /\ 0 <= Max(earlier) /\ Max(earlier) <= to
            BY <1>2, <2>1
        <3> HIDE DEF earlier
        <3> QED
            BY <1>1, <3>1
    <2>3. k \in places
        BY <2>1, <2>2
    <2>4. ASSUME NEW l \in places PROVE k >= l
        <3>1. have[k].date >= have[l].date /\ have[k].date \in Nat /\ have[l].date \in Nat
            BY <1>1, <1>2, <2>1, <2>2
        <3>2. k < l => have[k].date < have[l].date
            BY <1>1 DEF DatedPrices
        <3>3. k \in Int /\ l \in Int
            BY <1>1 DEF DatedPrices
        <3> QED
            BY <3>1, <3>2, <3>3
    <2>5. places \subseteq Int
        BY <1>1 DEF DatedPrices
    <2> HIDE DEF places
    <2>6. Max(places) = k
        <3>1. \A y \in places : y >= k /\ k >= y => y = k
            BY <2>3, <2>5
        <3>2. Max(places) \in places /\ Max(places) >= k
            BY <2>3, <2>4 DEF Max
        <3> QED
            BY <2>4, <3>1, <3>2
    <2> QED
        BY <1>1, <1>4, <2>2, <2>3, <2>6 DEF PriceOn, LatestPriceOnOrBefore, places, have
<1> QED
    BY <1>3, <1>4

------------------------------------------------------------------------------
(***************************************************************************)
(* The invariant, and the theorems of the gold pages.                      *)
(***************************************************************************)
\* What the theorems of the gold pages need of a state: tables of purchases and
\* prices, no price in the future, and a page between its reads in order.
GoldInv ==
    /\ today \in Days
    /\ GoldLedger(txns)
    /\ GoldPrices(prices) /\ DOMAIN prices \subseteq 0..today
    /\ unused \subseteq Ids
    /\ page.pc = "prices" =>
          DatedRows(page.txns) /\ Ascending(page.dates) /\ Len(page.dates) > 0

\* Every step of the gold tables, of the calendar and of the rows keeps it.
LEMMA GoldInvHolds == Spec => []GoldInv
<1>1. Init => GoldInv
    <2> SUFFICES ASSUME Init PROVE GoldInv
        OBVIOUS
    <2>1. today = 0 /\ txns \in InitialLedgers /\ prices = [day \in {} |-> Unpriced]
          /\ unused = Ids \ DOMAIN txns /\ page = NoPage
        BY DEF Init, GoldInit
    <2>2. GoldLedger(txns)
        BY <2>1, LedgersAreOfPurchases, Zenon DEF GoldLedger, Purchase
    <2>3. GoldPrices(prices) /\ DOMAIN prices \subseteq 0..today
        BY <2>1 DEF GoldPrices
    <2>4. 0 \in Days
        BY PricesArePositive DEF Days
    <2> QED
        BY <2>1, <2>2, <2>3, <2>4 DEF GoldInv, NoPage
<1>2. ASSUME GoldInv, [Next]_vars PROVE GoldInv'
    <2> USE <1>2
    <2>0. /\ today \in Days /\ today \in Nat /\ LastDay \in Nat /\ GoldLedger(txns)
          /\ GoldPrices(prices) /\ DOMAIN prices \subseteq 0..today /\ unused \subseteq Ids
        BY DaysAreNumbers, PricesArePositive DEF GoldInv
    <2>a. 0..today \subseteq Days
        <3>1. \A d \in 0..today : d \in 0..LastDay
            BY <2>0 DEF Days
        <3> QED
            BY <3>1 DEF Days
    <2>b. \A days \in (SUBSET (0..today)) \ {{}} : days \subseteq Days /\ days # {}
        BY <2>a, Zenon
    <2>1. ASSUME UNCHANGED goldVars PROVE GoldInv'
        BY <2>1, Zenon DEF GoldInv, goldVars, GoldLedger, GoldPrices, DatedRows, Ascending
    <2>2. \A input \in Purchases : input \in Purchase
        <3>1. ASSUME NEW day \in Days, NEW form \in Entered
              PROVE  [id |-> 0, date |-> day, grams |-> form.grams, paid |-> form.paid] \in Purchase
            <4>1. form \in [grams : Int, paid : Int]
                BY FormsAreWhole
            <4> QED
                BY <4>1 DEF Purchase
        <3> HIDE DEF Purchase
        <3> QED
            BY <3>1 DEF Purchases
    <2>3. ASSUME CreateTransaction PROVE GoldInv'
        <3>1. PICK id \in unused, input \in Purchases :
                  /\ unused' = unused \ {id}
                  /\ txns' = [k \in DOMAIN txns \cup {id} |-> IF k = id THEN input ELSE txns[k]]
            BY <2>3 DEF CreateTransaction
        <3>2. GoldLedger(txns')
            <4>1. DOMAIN txns' = DOMAIN txns \cup {id} /\ id \in Ids
                BY <2>0, <3>1
            <4>2. IsFiniteSet(DOMAIN txns')
                BY <2>0, <4>1, FS_AddElement DEF GoldLedger
            <4>3. \A k \in DOMAIN txns' : txns'[k] \in Purchase
                BY <2>0, <2>2, <3>1 DEF GoldLedger
            <4> QED
                BY <2>0, <4>1, <4>2, <4>3 DEF GoldLedger
        <3>3. UNCHANGED <<today, prices, page>>
            BY <2>3 DEF CreateTransaction
        <3>4. unused' \subseteq Ids
            BY <2>0, <3>1
        <3> QED
            BY <3>2, <3>3, <3>4, Zenon DEF GoldInv, GoldLedger, GoldPrices, DatedRows, Ascending
    <2>4. ASSUME UpdateTransaction PROVE GoldInv'
        <3>1. PICK id \in DOMAIN txns, input \in Purchases : txns' = [txns EXCEPT ![id] = input]
            BY <2>4 DEF UpdateTransaction
        <3>2. DOMAIN txns' = DOMAIN txns /\ \A k \in DOMAIN txns' : txns'[k] \in Purchase
            BY <2>0, <2>2, <3>1 DEF GoldLedger
        <3>3. UNCHANGED <<today, prices, unused, page>>
            BY <2>4 DEF UpdateTransaction
        <3> QED
            BY <2>0, <3>2, <3>3, Zenon DEF GoldInv, GoldLedger, GoldPrices, DatedRows, Ascending
    <2>5. ASSUME DeleteTransaction PROVE GoldInv'
        <3>1. PICK id \in DOMAIN txns : txns' = Restrict(txns, DOMAIN txns \ {id})
            BY <2>5 DEF DeleteTransaction
        <3>2. /\ DOMAIN txns' = DOMAIN txns \ {id}
              /\ \A k \in DOMAIN txns' : txns'[k] \in Purchase
            BY <2>0, <3>1 DEF GoldLedger, Restrict
        <3>3. IsFiniteSet(DOMAIN txns')
            BY <2>0, <3>2, FS_RemoveElement DEF GoldLedger
        <3>4. GoldLedger(txns')
            BY <2>0, <3>2, <3>3 DEF GoldLedger
        <3>5. UNCHANGED <<today, prices, unused, page>>
            BY <2>5 DEF DeleteTransaction
        <3> QED
            BY <3>4, <3>5, Zenon DEF GoldInv, GoldLedger, GoldPrices, DatedRows, Ascending
    <2>6. ASSUME PutPrices PROVE GoldInv'
        <3>1. PICK days \in (SUBSET (0..today)) \ {{}} : \E batch \in [days -> Prices] : UpsertPrices(batch)
            BY <2>6 DEF PutPrices
        <3>2. PICK batch \in [days -> Prices] : UpsertPrices(batch)
            BY <3>1
        <3>3. /\ DOMAIN prices' = DOMAIN prices \cup days
              /\ \A d \in DOMAIN prices' : prices'[d] \in Prices
            BY <2>0, <3>2 DEF UpsertPrices, GoldPrices
        <3>4. DOMAIN prices' \subseteq 0..today /\ DOMAIN prices' \subseteq Days
            BY <2>0, <2>a, <3>1, <3>3, Zenon
        <3>5. UNCHANGED <<today, txns, unused, page>>
            BY <2>6 DEF PutPrices
        <3>6. GoldPrices(prices')
            BY <3>3, <3>4 DEF GoldPrices
        <3> QED
            BY <3>4, <3>5, <3>6, Zenon DEF GoldInv, GoldLedger, GoldPrices, DatedRows, Ascending
    <2>7. ASSUME DeleteAllByUser PROVE GoldInv'
        <3>1. GoldLedger(txns')
            BY <2>7, FS_EmptySet DEF DeleteAllByUser, GoldLedger
        <3>2. GoldPrices(prices') /\ DOMAIN prices' \subseteq 0..today
            BY <2>7 DEF DeleteAllByUser, GoldPrices
        <3>3. UNCHANGED <<today, unused, page>>
            BY <2>7 DEF DeleteAllByUser
        <3> QED
            BY <3>1, <3>2, <3>3, Zenon DEF GoldInv, GoldLedger, GoldPrices, DatedRows, Ascending
    <2>8. ASSUME today' \in {today, today + 1}, today' = today + 1 => today < LastDay,
                 UNCHANGED <<txns, prices, unused, page>>
          PROVE  GoldInv'
        <3>1. today' \in Days /\ DOMAIN prices' \subseteq 0..today'
            BY <2>0, <2>8 DEF Days
        <3> QED
            BY <2>8, <3>1, Zenon DEF GoldInv, GoldLedger, GoldPrices, DatedRows, Ascending
    <2>9. ASSUME DayPasses PROVE GoldInv'
        BY <2>8, <2>9, <2>0 DEF DayPasses
    <2>10. ASSUME HourPasses PROVE GoldInv'
        BY <2>8, <2>10, <2>0 DEF HourPasses
    <2>11. ASSUME ReadLedger PROVE GoldInv'
        <3>1. PICK days \in (SUBSET (0..today)) \ {{}} :
                  page' = [pc |-> "prices", dates |-> Sorted(days, LAMBDA a, b : a < b),
                           txns |-> ListTransactions(txns)]
            BY <2>11 DEF ReadLedger
        <3>2. days \subseteq Days /\ days # {}
            BY <2>b, Zenon
        <3> DEFINE dates == Sorted(days, LAMBDA a, b : a < b)
        <3>3. Ascending(dates) /\ Len(dates) > 0
            BY <3>2, SortedDays
        <3>4. DatedRows(ListTransactions(txns))
            BY <2>0, ListedTransactions
        <3>5. page'.txns = ListTransactions(txns) /\ page'.dates = dates
            BY <3>1
        <3>6. UNCHANGED <<today, txns, prices, unused>>
            BY <2>11 DEF ReadLedger
        <3> HIDE DEF dates
        <3>7. DatedRows(page'.txns) /\ Ascending(page'.dates) /\ Len(page'.dates) > 0
            BY <3>3, <3>4, <3>5
        <3> QED
            BY <3>6, <3>7, Zenon DEF GoldInv, GoldLedger, GoldPrices, DatedRows, Ascending
    <2>12. ASSUME ReadPrices PROVE GoldInv'
        <3>1. page'.pc # "prices" /\ UNCHANGED <<today, txns, prices, unused>>
            BY <2>12 DEF ReadPrices, NoPage
        <3> QED
            BY <3>1, Zenon DEF GoldInv, GoldLedger, GoldPrices
    <2>13. ASSUME Requests PROVE GoldInv'
        <3>1. UNCHANGED goldVars
            BY <2>13, Zenon DEF Requests, Begin, Rejects, Looks, PasteEnds, UpsertFinds, UpsertWrites,
               CallFails, OverrideLooks, OverrideWrites, DeleteLooks, DeleteWrites, Builds, BuildFails,
               RunEnds, Leaves, Unchanged
        <3> QED
            BY <2>1, <3>1
    <2>14. \/ UNCHANGED goldVars \/ CreateTransaction \/ UpdateTransaction \/ DeleteTransaction
           \/ PutPrices \/ DeleteAllByUser \/ DayPasses \/ HourPasses \/ ReadLedger \/ ReadPrices
           \/ Requests
        BY Zenon DEF Next, GoldNext, Edit, vars
    <2> QED
        BY <2>1, <2>3, <2>4, <2>5, <2>6, <2>7, <2>9, <2>10, <2>11, <2>12, <2>13, <2>14
<1> QED
    BY <1>1, <1>2, PTL DEF Spec

\* "A pure as-of walk" (gold_history.go:11-16): whatever is edited between the two
\* reads of a page, its overlay is the as-of value of every day in what it read.
THEOREM OverlayIsAsOfHolds == Spec => OverlayIsAsOf
<1>1. ASSUME GoldInv, page.pc = "prices"
      PROVE  Answer = AsOf(page.txns, PricesRead, ToSet(page.dates))
    <2>1. DatedRows(page.txns) /\ Ascending(page.dates) /\ Len(page.dates) > 0 /\ GoldPrices(prices)
        BY <1>1 DEF GoldInv
    <2>2. Last(page.dates) \in Days
        BY <2>1 DEF Ascending, Last
    <2>3. DatedPrices(PricesRead)
        BY <2>1, <2>2, DaysAreNumbers, ListedPrices DEF PricesRead
    <2> QED
        BY <2>1, <2>3, WalkIsAsOf DEF Answer
<1>2. GoldInv => [page.pc = "prices" /\ page'.pc = "idle" =>
                     Answer = AsOf(page.txns, PricesRead, ToSet(page.dates))]_goldVars
    BY <1>1
<1> QED
    BY <1>2, GoldInvHolds, PTL DEF OverlayIsAsOf

\* An overlay of days between edits, whatever rows the pages list.
LEMMA OverlayOfDays ==
    ASSUME GoldLedger(txns), GoldPrices(prices), NEW days \in SUBSET Days, days # {}
    PROVE  LET rows == ListTransactions(txns)
               have == ListPrices(prices, 0, Max(days))
           IN  /\ DatedRows(rows) /\ DatedPrices(have)
               /\ Overlay(days) = [day \in {d \in days : Owned(rows, have, d)} |-> PointOn(rows, have, days, day)]
               /\ \A day \in Days : day <= Max(days) =>
                     PriceOn(have, day) = LatestPriceOnOrBefore(prices, day)
<1> DEFINE rows == ListTransactions(txns)
           have == ListPrices(prices, 0, Max(days))
           dates == Sorted(days, LAMBDA a, b : a < b)
<1>1. Max(days) \in Int
    BY MaxOfDays, DaysAreNumbers
<1>2. DatedRows(rows) /\ DatedPrices(have)
    <2>1. DatedRows(rows)
        BY ListedTransactions
    <2> DEFINE to == Max(days)
    <2> HIDE DEF to
    <2>2. to \in Int
        BY <1>1 DEF to
    <2>3. DatedPrices(ListPrices(prices, 0, to))
        BY <2>2, ListedPrices
    <2> QED
        BY <2>1, <2>3 DEF to
<1>3. Ascending(dates) /\ ToSet(dates) = days
    BY SortedDays
<1>4. \A day \in Days : day <= Max(days) => PriceOn(have, day) = LatestPriceOnOrBefore(prices, day)
    BY <1>1, PriceOfTheDay
<1>5. Overlay(days) = goldOverlay(rows, have, dates)
    BY DEF Overlay
<1> HIDE DEF rows, have, dates
<1>6. Overlay(days) = AsOf(rows, have, days)
    BY <1>2, <1>3, <1>5, WalkIsAsOf
<1>7. AsOf(rows, have, days) = [day \in {d \in days : Owned(rows, have, d)} |-> PointOn(rows, have, days, day)]
    BY AsOfPoints
<1> QED
    BY <1>2, <1>4, <1>6, <1>7 DEF rows, have

\* The first purchase has a day.
LEMMA FirstDateIsADay ==
    ASSUME GoldLedger(txns), DOMAIN txns # {}
    PROVE  FirstTransactionDate(txns) \in Days
<1> DEFINE dates == {txns[id].date : id \in DOMAIN txns}
<1>1. \A id \in DOMAIN txns : txns[id].date \in Days
    BY DEF GoldLedger, Purchase
<1>2. dates \subseteq Days /\ dates # {}
    BY <1>1
<1> HIDE DEF dates
<1>3. dates \subseteq Nat
    BY <1>2, DaysAreNumbers
<1>4. \E m \in dates : \A k \in dates : m <= k
    BY <1>2, <1>3, LeastNatural
<1>5. Min(dates) \in dates
    BY <1>4 DEF Min
<1> QED
    BY <1>2, <1>5 DEF FirstTransactionDate, dates

\* A day with a price of its own has that one.
LEMMA PriceOfItsOwn ==
    ASSUME NEW table, GoldPrices(table), NEW day \in DOMAIN table
    PROVE  LatestPriceOnOrBefore(table, day) = table[day] /\ table[day] \in Nat \ {0}
<1> DEFINE earlier == {d \in DOMAIN table : d <= day}
<1>1. earlier \in SUBSET Days /\ day \in earlier /\ \A d \in earlier : day >= d
    BY DaysAreNumbers DEF GoldPrices
<1>2. Max(earlier) = day
    <2> HIDE DEF earlier
    <2> QED
        BY <1>1, MaxIs
<1>3. table[day] \in Nat \ {0}
    BY PricesArePositive DEF GoldPrices
<1> QED
    BY <1>1, <1>2, <1>3 DEF LatestPriceOnOrBefore

\* The latest price is a number, 0 where there is none.
LEMMA LatestPriceIsANumber ==
    ASSUME NEW table, GoldPrices(table), NEW day \in Days
    PROVE  LatestPriceOnOrBefore(table, day) \in Nat
<1> DEFINE earlier == {d \in DOMAIN table : d <= day}
<1>1. earlier \in SUBSET Days /\ earlier \subseteq DOMAIN table
    BY DEF GoldPrices
<1>2. earlier # {} => Max(earlier) \in DOMAIN table
    <2> HIDE DEF earlier
    <2> QED
        BY <1>1, MaxOfDays
<1>3. earlier # {} => table[Max(earlier)] \in Nat
    BY <1>2, PricesArePositive DEF GoldPrices
<1> HIDE DEF earlier
<1>4. LatestPriceOnOrBefore(table, day) = IF earlier = {} THEN Unpriced ELSE table[Max(earlier)]
    BY Zenon DEF LatestPriceOnOrBefore, earlier
<1> QED
    BY <1>3, <1>4 DEF Unpriced

\* The value of all the grams less that of the later ones.
LEMMA TakenApart ==
    \A a, b \in Int, p \in Nat : (a + b) * p - b * p = a * p
OBVIOUS

\* The prompt for missing days is what keeps the pages whole (PRD-003 section 7).
\* When it asks for nothing, every day from the first purchase on is overlaid at its
\* own price, and the metrics are the overlay of today and the purchases after it.
THEOREM GaplessMeansWholeHolds == Spec => []GaplessMeansWhole
<1>1. ASSUME GoldInv PROVE GaplessMeansWhole
    <2> USE <1>1
    <2> DEFINE rows == ListTransactions(txns)
               first == FirstTransactionDate(txns)
               overlay == Overlay(0..today)
               have == ListPrices(prices, 0, Max(0..today))
               later == DOMAIN rows \ Dated(rows, today)
    <2>1. SUFFICES ASSUME MissingDates = {}, DOMAIN txns # {}
          PROVE  /\ \A day \in first..today :
                      IF GramsOn(rows, day) = 0 /\ goldInvestedOn(rows, day) = 0
                      THEN day \notin DOMAIN overlay
                      ELSE day \in DOMAIN overlay /\ overlay[day].current = GramsOn(rows, day) * prices[day]
                 /\ Metrics.invested = goldInvestedOn(rows, today) + TotalPaid(rows, later)
                 /\ today \in DOMAIN overlay =>
                      Metrics.current - TotalGrams(rows, later) * Metrics.latestPrice
                         = overlay[today].current
        BY DEF GaplessMeansWhole, GramsOn
    <2>2. today \in Days /\ today \in Nat /\ GoldLedger(txns) /\ GoldPrices(prices)
        BY DaysAreNumbers DEF GoldInv
    <2>3. 0..today \in SUBSET Days /\ today \in 0..today /\ 0..today # {}
        <3>1. \A d \in 0..today : d \in 0..LastDay
            BY <2>2, PricesArePositive DEF Days
        <3> QED
            BY <2>2, <3>1 DEF Days
    <2>4. Max(0..today) = today
        BY <2>2, <2>3, MaxIs
    <2>5. /\ DatedRows(rows)
          /\ overlay = [day \in {d \in 0..today : Owned(rows, have, d)} |-> PointOn(rows, have, 0..today, day)]
          /\ \A day \in 0..today : PriceOn(have, day) = LatestPriceOnOrBefore(prices, day)
        <3> DEFINE days == 0..today
        <3>1. GoldLedger(txns) /\ GoldPrices(prices) /\ days \in SUBSET Days /\ days # {}
            BY <2>2, <2>3
        <3>2. \A day \in 0..today : day \in Days /\ day <= Max(days)
            BY <2>2, <2>3, <2>4
        <3> HIDE DEF days
        <3>3. /\ DatedRows(rows)
              /\ Overlay(days) = [day \in {d \in days : Owned(rows, ListPrices(prices, 0, Max(days)), d)} |->
                                    PointOn(rows, ListPrices(prices, 0, Max(days)), days, day)]
              /\ \A day \in Days : day <= Max(days) =>
                    PriceOn(ListPrices(prices, 0, Max(days)), day) = LatestPriceOnOrBefore(prices, day)
            BY <3>1, OverlayOfDays
        <3> QED
            BY <3>2, <3>3 DEF days
    <2>6. first \in Nat
        BY <2>1, <2>2, FirstDateIsADay, DaysAreNumbers
    <2> HIDE DEF rows, first, overlay, have
    <2>7. ASSUME NEW day \in first..today
          PROVE  /\ day \in 0..today /\ day \in DOMAIN prices
                 /\ PriceOn(have, day) = prices[day] /\ prices[day] # Unpriced
        <3>1. day \in 0..today /\ ~(first > today)
            BY <2>2, <2>6, <2>7
        <3>2. missingDates(first, ListPrices(prices, first, today), today) = {}
            BY <2>1, <3>1, Zenon DEF MissingDates, first
        <3>3. \E k \in DOMAIN ListPrices(prices, first, today) :
                  ListPrices(prices, first, today)[k].date = day
            BY <2>7, <3>2 DEF missingDates
        <3>4. day \in DOMAIN prices
            BY <2>2, <2>6, <3>3, ListedPrices
        <3> QED
            BY <2>2, <2>5, <3>1, <3>4, PriceOfItsOwn DEF Unpriced
    <2>8. ASSUME NEW day \in first..today
          PROVE  IF GramsOn(rows, day) = 0 /\ goldInvestedOn(rows, day) = 0
                 THEN day \notin DOMAIN overlay
                 ELSE day \in DOMAIN overlay /\ overlay[day].current = GramsOn(rows, day) * prices[day]
        BY <2>5, <2>7, <2>8 DEF Owned, PointOn, ValueOn
    <2>9. /\ TotalPaid(rows, DOMAIN rows) = goldInvestedOn(rows, today) + TotalPaid(rows, later)
          /\ TotalGrams(rows, DOMAIN rows) = GramsOn(rows, today) + TotalGrams(rows, later)
          /\ GramsOn(rows, today) \in Int /\ TotalGrams(rows, later) \in Int
        <3>1. /\ Dated(rows, today) \in SUBSET DOMAIN rows /\ later \in SUBSET DOMAIN rows
              /\ Dated(rows, today) \cap later = {} /\ Dated(rows, today) \cup later = DOMAIN rows
            BY DEF Dated
        <3> HIDE DEF later
        <3> QED
            <4> DEFINE dated == Dated(rows, today)
            <4> HIDE DEF dated
            <4>1. /\ dated \in SUBSET DOMAIN rows /\ later \in SUBSET DOMAIN rows
                  /\ dated \cap later = {} /\ dated \cup later = DOMAIN rows
                BY <3>1 DEF dated
            <4>2. /\ TotalPaid(rows, dated \cup later) = TotalPaid(rows, dated) + TotalPaid(rows, later)
                  /\ TotalGrams(rows, dated \cup later) = TotalGrams(rows, dated) + TotalGrams(rows, later)
                  /\ TotalGrams(rows, dated) \in Int /\ TotalGrams(rows, later) \in Int
                BY <2>5, <4>1, TotalsAddUp
            <4>3. goldInvestedOn(rows, today) = TotalPaid(rows, dated) /\ GramsOn(rows, today) = TotalGrams(rows, dated)
                BY DEF goldInvestedOn, GramsOn, dated
            <4> QED
                BY <4>1, <4>2, <4>3
    <2>10. /\ Metrics.invested = TotalPaid(rows, DOMAIN rows)
           /\ Metrics.latestPrice = LatestPriceOnOrBefore(prices, today)
           /\ Metrics.current = TotalGrams(rows, DOMAIN rows) * Metrics.latestPrice
        BY DEF Metrics, buildMetrics, rows
    <2> HIDE DEF later
    <2>11. ASSUME today \in DOMAIN overlay
           PROVE  Metrics.current - TotalGrams(rows, later) * Metrics.latestPrice = overlay[today].current
        <3> DEFINE p == LatestPriceOnOrBefore(prices, today)
                   a == GramsOn(rows, today)
                   b == TotalGrams(rows, later)
        <3>1. p \in Nat
            BY <2>2, LatestPriceIsANumber
        <3>2. overlay[today].current = a * p
            BY <2>3, <2>5, <2>11 DEF PointOn, ValueOn
        <3>3. Metrics.current = (a + b) * p /\ Metrics.latestPrice = p
            BY <2>9, <2>10
        <3>4. a \in Int /\ b \in Int
            BY <2>9
        <3> HIDE DEF a, b, p
        <3> QED
            BY <3>1, <3>2, <3>3, <3>4, TakenApart DEF a, b
    <2> QED
        BY <2>8, <2>9, <2>10, <2>11
<1> QED
    BY <1>1, GoldInvHolds, PTL

\* The rows of some days, which days a page from one of them lists, and a row of it.
KeptRows(kept) ==
    [day \in Days |->
        IF day \in kept THEN [buckets |-> CronBuckets([k \in Currencies |-> None]), backed |-> TRUE]
                        ELSE NoRow]

Baseline(kept, from) == {day \in kept : day < from}

Listed(kept, from) ==
    (kept \ Baseline(kept, from))
        \cup (IF Baseline(kept, from) = {} THEN {} ELSE {Max(Baseline(kept, from))})

ShownOn(shown, day) == CHOOSE x \in ToSet(shown) : x.date = day

HistoryRow(kept, days, day) ==
    [date |-> day, row |-> historyRowFromSnapshot(KeptRows(kept)[day]),
     gold |-> attachGoldOverlay(day, Overlay(days))]

\* The members of two lists in a row are those of the one and of the other.
LEMMA ToSetOfBoth ==
    ASSUME NEW S, NEW s \in Seq(S), NEW t \in Seq(S)
    PROVE  s \o t \in Seq(S) /\ ToSet(s \o t) = ToSet(s) \cup ToSet(t)
<1>1. /\ Len(s) \in Nat /\ Len(t) \in Nat /\ DOMAIN s = 1..Len(s) /\ DOMAIN t = 1..Len(t)
      /\ DOMAIN (s \o t) = 1..(Len(s) + Len(t)) /\ s \o t \in Seq(S)
    OBVIOUS
<1>2. \A k \in 1..Len(s) : (s \o t)[k] = s[k]
    BY <1>1
<1>3. \A k \in 1..Len(t) : (s \o t)[Len(s) + k] = t[k]
    BY <1>1
<1>4. ASSUME NEW x \in ToSet(s \o t) PROVE x \in ToSet(s) \cup ToSet(t)
    <2>1. PICK k \in 1..(Len(s) + Len(t)) : (s \o t)[k] = x
        BY <1>1 DEF ToSet
    <2>2. CASE k <= Len(s)
        <3>1. k \in DOMAIN s /\ s[k] = x
            BY <1>1, <1>2, <2>1, <2>2
        <3> QED
            BY <3>1, Zenon DEF ToSet
    <2>3. CASE k > Len(s)
        <3> DEFINE j == k - Len(s)
        <3>1. j \in 1..Len(t) /\ k = Len(s) + j
            BY <1>1, <2>3
        <3> HIDE DEF j
        <3>2. j \in DOMAIN t /\ t[j] = x
            BY <1>1, <1>3, <2>1, <3>1
        <3> QED
            BY <3>2, Zenon DEF ToSet
    <2> QED
        BY <1>1, <2>2, <2>3
<1>5. ASSUME NEW x \in ToSet(s) PROVE x \in ToSet(s \o t)
    <2>1. PICK k \in 1..Len(s) : s[k] = x
        BY <1>1 DEF ToSet
    <2>2. k \in DOMAIN (s \o t) /\ (s \o t)[k] = x
        BY <1>1, <1>2, <2>1
    <2> QED
        BY <2>2, Zenon DEF ToSet
<1>6. ASSUME NEW x \in ToSet(t) PROVE x \in ToSet(s \o t)
    <2>1. PICK k \in 1..Len(t) : t[k] = x
        BY <1>1 DEF ToSet
    <2>2. Len(s) + k \in DOMAIN (s \o t) /\ (s \o t)[Len(s) + k] = x
        BY <1>1, <1>3, <2>1
    <2> QED
        BY <2>2, Zenon DEF ToSet
<1> QED
    BY <1>1, <1>4, <1>5, <1>6

\* A page from a day on lists the rows from it on and the latest before it.
LEMMA ListedDays ==
    ASSUME today \in Days, NEW kept \in SUBSET (0..today), NEW from \in 0..today
    PROVE  LET list == List(KeptRows(kept), from, today) \o LatestBefore(KeptRows(kept), from)
           IN  /\ list \in Seq(Days) /\ ToSet(list) = Listed(kept, from)
               /\ Listed(kept, from) \subseteq kept
<1> DEFINE rows == KeptRows(kept)
           month == kept \ Baseline(kept, from)
           earlier == Baseline(kept, from)
           front == List(rows, from, today)
           back == LatestBefore(rows, from)
<1>1. today \in Nat /\ from \in Nat /\ kept \subseteq Days /\ \A d \in kept : d \in 0..today
    <2>1. \A d \in 0..today : d \in Days
        BY DaysAreNumbers, PricesArePositive DEF Days
    <2> QED
        BY <2>1, DaysAreNumbers
<1>2. \A day \in Days : rows[day] # NoRow <=> day \in kept
    <2>1. ASSUME NEW day \in Days PROVE rows[day] # NoRow <=> day \in kept
        <3>1. NoRow.backed = FALSE
            BY DEF NoRow
        <3> DEFINE row == [buckets |-> CronBuckets([k \in Currencies |-> None]), backed |-> TRUE]
        <3>2. row.backed = TRUE /\ rows[day] = IF day \in kept THEN row ELSE NoRow
            BY DEF KeptRows
        <3> HIDE DEF row, rows
        <3> QED
            BY <3>1, <3>2
    <2> QED
        BY <2>1
<1> HIDE DEF rows
<1>3. {day \in from..today : rows[day] # NoRow} = month
    <2>1. \A day \in from..today : day \in Days
        BY <1>1, PricesArePositive DEF Days
    <2>2. \A day \in from..today : rows[day] # NoRow <=> day \in kept
        BY <1>2, <2>1
    <2>3. \A d \in kept : d \in from..today <=> ~(d < from)
        BY <1>1
    <2> QED
        BY <2>2, <2>3 DEF Baseline
<1>4. {day \in Days : day < from /\ rows[day] # NoRow} = earlier
    BY <1>1, <1>2 DEF Baseline
<1>5. month \subseteq Days /\ earlier \in SUBSET Days /\ earlier \subseteq kept
    BY <1>1 DEF Baseline
<1>6. front \in Seq(month) /\ ToSet(front) = month
    <2>1. front = Sorted(month, LAMBDA a, b : a > b)
        BY <1>3 DEF List
    <2> HIDE DEF month, front
    <2> QED
        BY <1>5, <2>1, ReversedDays
<1> HIDE DEF front, month, earlier
<1>7. /\ back \in Seq(Days)
      /\ ToSet(back) = IF earlier = {} THEN {} ELSE {Max(earlier)}
      /\ earlier # {} => Max(earlier) \in earlier
    <2>1. back = IF earlier = {} THEN <<>> ELSE <<Max(earlier)>>
        BY <1>4 DEF LatestBefore
    <2>2. earlier # {} => Max(earlier) \in earlier /\ Max(earlier) \in Days
        BY <1>5, MaxOfDays
    <2> HIDE DEF back
    <2> QED
        BY <2>1, <2>2 DEF ToSet
<1> HIDE DEF back
<1>8. front \in Seq(Days)
    <2>1. Len(front) \in Nat /\ front \in [1..Len(front) -> month]
        BY <1>6
    <2>2. front \in [1..Len(front) -> Days]
        BY <1>5, <2>1
    <2> QED
        BY <2>1, <2>2
<1>9. front \o back \in Seq(Days) /\ ToSet(front \o back) = ToSet(front) \cup ToSet(back)
    BY <1>7, <1>8, ToSetOfBoth
<1>10. Listed(kept, from) = month \cup (IF earlier = {} THEN {} ELSE {Max(earlier)})
    BY DEF Listed, month, earlier
<1>11. month \subseteq kept
    BY DEF month
<1> QED
    BY <1>5, <1>6, <1>7, <1>9, <1>10, <1>11 DEF front, back, rows

\* And shows each of them as its row and the gold of the days it lists.
LEMMA ShownRow ==
    ASSUME today \in Days, NEW kept \in SUBSET (0..today), NEW from \in 0..today,
           NEW day \in Listed(kept, from)
    PROVE  ShownOn(ListHistory(KeptRows(kept), from, today), day)
               = HistoryRow(kept, Listed(kept, from), day)
<1> DEFINE rows == KeptRows(kept)
           list == List(rows, from, today) \o LatestBefore(rows, from)
           shown == ListHistory(rows, from, today)
           days == Listed(kept, from)
<1>1. list \in Seq(Days) /\ ToSet(list) = days /\ list # <<>>
    BY ListedDays DEF ToSet
<1>2. shown = [k \in DOMAIN list |->
                  [date |-> list[k], row |-> historyRowFromSnapshot(rows[list[k]]),
                   gold |-> attachGoldOverlay(list[k], Overlay(ToSet(list)))]]
    BY <1>1 DEF ListHistory
<1> HIDE DEF shown, days, list, rows
<1>3. shown = [k \in DOMAIN list |-> HistoryRow(kept, days, list[k])]
    BY <1>1, <1>2 DEF HistoryRow, rows
<1>4. \A d : HistoryRow(kept, days, d).date = d
    BY DEF HistoryRow
<1>5. \A x \in ToSet(shown) : x.date = day => x = HistoryRow(kept, days, day)
    <2>1. \A k \in DOMAIN shown : shown[k].date = day => shown[k] = HistoryRow(kept, days, day)
        BY <1>3, <1>4
    <2> QED
        BY <2>1 DEF ToSet
<1>6. HistoryRow(kept, days, day) \in ToSet(shown)
    <2>1. PICK k \in DOMAIN list : list[k] = day
        BY <1>1 DEF ToSet, days
    <2> QED
        BY <1>3, <2>1 DEF ToSet
<1>7. ShownOn(shown, day) = HistoryRow(kept, days, day)
    BY <1>4, <1>5, <1>6 DEF ShownOn
<1> QED
    BY <1>7 DEF shown, days, rows

\* What the volatility of a row is taken against is the same in a page from a day
\* on, unless the baseline of the page holds no gold and an earlier row does.
LEMMA SameBefore ==
    ASSUME NEW rows, NEW have, NEW kept \in SUBSET Days, NEW from \in Nat, NEW day \in kept, day >= from,
           LET earlier == Baseline(kept, from)
               golden == {d \in earlier : Owned(rows, have, d)}
           IN  golden = {} \/ Max(earlier) \in golden
    PROVE  LastValue(rows, have, {d \in Listed(kept, from) : Owned(rows, have, d) /\ d < day})
               = LastValue(rows, have, {d \in kept : Owned(rows, have, d) /\ d < day})
<1> DEFINE earlier == Baseline(kept, from)
           golden == {d \in earlier : Owned(rows, have, d)}
           listed == Listed(kept, from)
           some == {d \in listed : Owned(rows, have, d) /\ d < day}
           all == {d \in kept : Owned(rows, have, d) /\ d < day}
<1>1. /\ \A d \in kept : d \in Nat
      /\ \A d : d \in earlier <=> d \in kept /\ d < from
      /\ earlier \in SUBSET Days
    BY DaysAreNumbers DEF Baseline
<1>2. earlier # {} => Max(earlier) \in earlier /\ \A d \in earlier : Max(earlier) >= d
    <2> HIDE DEF earlier
    <2> QED
        BY <1>1, MaxOfDays
<1>a. listed = (kept \ earlier) \cup (IF earlier = {} THEN {} ELSE {Max(earlier)})
    BY Zenon DEF Listed
<1> HIDE DEF earlier, listed
<1>3. /\ listed \subseteq kept
      /\ \A d \in kept : d \notin earlier => d \in listed
      /\ earlier # {} => Max(earlier) \in listed
      /\ \A d \in listed : d \in earlier => d = Max(earlier)
    BY <1>1, <1>2, <1>a
<1>4. all \in SUBSET Days /\ some \in SUBSET Days /\ some \subseteq all
    <2>1. some \subseteq all /\ all \subseteq kept
        BY <1>3
    <2> HIDE DEF some, all
    <2> QED
        BY <2>1
<1>5. ASSUME all = {} PROVE LastValue(rows, have, some) = LastValue(rows, have, all)
    <2> HIDE DEF some, all
    <2> QED
        BY <1>4, <1>5 DEF LastValue
<1>6. ASSUME all # {} PROVE LastValue(rows, have, some) = LastValue(rows, have, all)
    <2>1. Max(all) \in all /\ \A d \in all : Max(all) >= d
        <3> HIDE DEF all
        <3> QED
            BY <1>4, <1>6, MaxOfDays
    <2>2. Max(all) \in some
        <3>1. CASE Max(all) \notin earlier
            BY <1>3, <2>1, <3>1
        <3>2. CASE Max(all) \in earlier
            <4>1. Max(all) \in golden
                BY <2>1, <3>2
            <4>2. Max(earlier) \in golden
                BY <4>1 DEF earlier
            <4>3. Max(earlier) \in all
                <5>1. Max(earlier) \in earlier /\ Owned(rows, have, Max(earlier))
                    BY <4>2
                <5>2. Max(earlier) \in kept /\ Max(earlier) < from /\ day \in Nat /\ Max(earlier) \in Nat
                    BY <1>1, <5>1
                <5> QED
                    BY <5>1, <5>2
            <4>4. Max(all) = Max(earlier)
                BY <1>1, <1>2, <2>1, <3>2, <4>3
            <4> QED
                BY <1>3, <3>2, <4>3, <4>4
        <3> QED
            BY <3>1, <3>2
    <2>3. Max(some) = Max(all)
        <3> HIDE DEF some, all
        <3> QED
            BY <1>4, <2>1, <2>2, MaxIs
    <2> HIDE DEF some, all
    <2> QED
        BY <1>6, <2>2, <2>3 DEF LastValue
<1>7. LastValue(rows, have, some) = LastValue(rows, have, all)
    BY <1>5, <1>6, Zenon
<1> QED
    BY <1>7 DEF listed

\* A page from a day on shows the gold of its rows as the whole history does.
LEMMA SameGold ==
    ASSUME GoldLedger(txns), GoldPrices(prices), NEW kept \in SUBSET Days, NEW from \in Nat,
           NEW day \in kept, day >= from, Listed(kept, from) \subseteq kept,
           LET earlier == Baseline(kept, from)
               golden == {d \in earlier : d \in DOMAIN Overlay(kept)}
           IN  golden = {} \/ Max(earlier) \in golden
    PROVE  attachGoldOverlay(day, Overlay(Listed(kept, from))) = attachGoldOverlay(day, Overlay(kept))
<1> DEFINE rows == ListTransactions(txns)
           listed == Listed(kept, from)
           have == ListPrices(prices, 0, Max(kept))
           part == ListPrices(prices, 0, Max(listed))
<1>1. /\ \A d \in kept : d \in Nat
      /\ \A d \in kept : d >= from => d \in listed
      /\ listed \in SUBSET Days /\ listed # {}
    BY DaysAreNumbers DEF Listed, Baseline
<1> HIDE DEF listed
<1>2. Max(listed) = Max(kept)
    <2>1. Max(kept) \in kept /\ \A d \in kept : Max(kept) >= d
        BY MaxOfDays
    <2>2. Max(kept) \in listed
        BY <1>1, <2>1
    <2> QED
        BY <1>1, <2>1, <2>2, MaxIs DEF listed
<1>3. Overlay(kept) = [d \in {d \in kept : Owned(rows, have, d)} |-> PointOn(rows, have, kept, d)]
    BY OverlayOfDays
<1>4. Overlay(listed) = [d \in {d \in listed : Owned(rows, have, d)} |-> PointOn(rows, have, listed, d)]
    <2>1. Overlay(listed) = [d \in {d \in listed : Owned(rows, part, d)} |-> PointOn(rows, part, listed, d)]
        BY <1>1, OverlayOfDays
    <2> QED
        BY <1>2, <2>1
<1> HIDE DEF rows, have
<1>5. PointOn(rows, have, listed, day) = PointOn(rows, have, kept, day)
    <2>1. {d \in Baseline(kept, from) : d \in DOMAIN Overlay(kept)}
              = {d \in Baseline(kept, from) : Owned(rows, have, d)}
        BY <1>3 DEF Baseline
    <2>2. LastValue(rows, have, {d \in listed : Owned(rows, have, d) /\ d < day})
              = LastValue(rows, have, {d \in kept : Owned(rows, have, d) /\ d < day})
        BY <2>1, SameBefore DEF listed
    <2> QED
        BY <2>2 DEF PointOn
<1>6. attachGoldOverlay(day, Overlay(listed)) = attachGoldOverlay(day, Overlay(kept))
    BY <1>1, <1>3, <1>4, <1>5 DEF attachGoldOverlay
<1> QED
    BY <1>6 DEF listed

\* "A month's opening baseline must not depend on a snapshot existing on the previous
\* month's last calendar day" (history.go:131-135): whatever days have rows, a page
\* from a day on shows each of its rows as the whole history does, unless the gold
\* shown before had all been sold by the baseline.
THEOREM PagingIsInvisibleHolds == Spec => []PagingIsInvisible
<1>1. ASSUME GoldInv PROVE PagingIsInvisible
    <2> USE <1>1
    <2>1. today \in Days /\ today \in Nat /\ GoldLedger(txns) /\ GoldPrices(prices)
        BY DaysAreNumbers DEF GoldInv
    <2>2. \A d \in 0..today : d \in Days
        BY <2>1, PricesArePositive DEF Days
    <2>3. ASSUME NEW kept \in SUBSET (0..today), NEW from \in 1..today
          PROVE  LET whole == ListHistory(KeptRows(kept), 0, today)
                     month == ListHistory(KeptRows(kept), from, today)
                     earlier == Baseline(kept, from)
                     golden == {day \in earlier : ShownOn(whole, day).gold # {}}
                 IN  \/ golden # {} /\ Max(earlier) \notin golden
                     \/ \A day \in kept \ earlier : ShownOn(month, day) = ShownOn(whole, day)
        <3> DEFINE whole == ListHistory(KeptRows(kept), 0, today)
                   month == ListHistory(KeptRows(kept), from, today)
                   earlier == Baseline(kept, from)
                   golden == {day \in earlier : ShownOn(whole, day).gold # {}}
        <3>1. /\ kept \in SUBSET Days /\ from \in Nat /\ from \in 0..today /\ 0 \in 0..today
              /\ \A d \in kept : d \in Nat
              /\ \A d : d \in earlier <=> d \in kept /\ d < from
            <4>1. kept \subseteq Days
                BY <2>2
            <4>2. from \in Nat /\ from \in 0..today /\ 0 \in 0..today
                BY <2>1
            <4>3. \A d : d \in earlier <=> d \in kept /\ d < from
                BY DEF Baseline
            <4> QED
                BY <4>1, <4>2, <4>3, DaysAreNumbers
        <3>2. Listed(kept, 0) = kept
            <4>0. \A d \in kept : ~(d < 0)
                <5> HIDE DEF earlier
                <5> QED
                    BY <3>1
            <4>1. Baseline(kept, 0) = {}
                BY <4>0 DEF Baseline
            <4> QED
                BY <4>1 DEF Listed
        <3>3. \A day \in kept : ShownOn(whole, day) = HistoryRow(kept, kept, day)
            <4> HIDE DEF whole
            <4>1. \A day \in Listed(kept, 0) : ShownOn(whole, day) = HistoryRow(kept, Listed(kept, 0), day)
                BY <2>1, <3>1, ShownRow DEF whole
            <4> QED
                BY <3>2, <4>1
        <3>4. Listed(kept, from) \subseteq kept
            BY <2>1, <3>1, ListedDays
        <3>5. \A day \in kept \ earlier : ShownOn(month, day) = HistoryRow(kept, Listed(kept, from), day)
            <4>1. \A day \in kept \ earlier : day \in Listed(kept, from)
                BY DEF Listed
            <4> HIDE DEF month
            <4>2. \A day \in Listed(kept, from) : ShownOn(month, day) = HistoryRow(kept, Listed(kept, from), day)
                BY <2>1, <3>1, ShownRow DEF month
            <4> QED
                BY <4>1, <4>2
        <3>6. golden = {d \in earlier : d \in DOMAIN Overlay(kept)}
            <4>0. \A d : HistoryRow(kept, kept, d).gold = attachGoldOverlay(d, Overlay(kept))
                BY DEF HistoryRow
            <4>1. \A d \in earlier : ShownOn(whole, d).gold = attachGoldOverlay(d, Overlay(kept))
                <5> HIDE DEF whole, earlier
                <5> QED
                    BY <3>1, <3>3, <4>0
            <4>2. \A d : attachGoldOverlay(d, Overlay(kept)) # {} <=> d \in DOMAIN Overlay(kept)
                BY DEF attachGoldOverlay
            <4> HIDE DEF whole, earlier
            <4> QED
                BY <4>1, <4>2
        <3>7. ASSUME golden = {} \/ Max(earlier) \in golden, NEW day \in kept \ earlier
              PROVE  HistoryRow(kept, Listed(kept, from), day) = HistoryRow(kept, kept, day)
            <4>1. day \in kept /\ day >= from
                BY <3>1
            <4>2. attachGoldOverlay(day, Overlay(Listed(kept, from))) = attachGoldOverlay(day, Overlay(kept))
                <5> HIDE DEF golden
                <5> QED
                    BY <2>1, <3>1, <3>4, <3>6, <3>7, <4>1, SameGold
            <4> QED
                BY <4>2 DEF HistoryRow
        <3> HIDE DEF whole, month, earlier, golden
        <3>8. (golden # {} /\ Max(earlier) \notin golden)
              \/ \A day \in kept \ earlier : ShownOn(month, day) = ShownOn(whole, day)
            BY <3>3, <3>5, <3>7
        <3> QED
            BY <3>8 DEF golden, earlier, month, whole
    <2> QED
        BY <2>3, Zenon DEF PagingIsInvisible, KeptRows, ShownOn, Baseline
<1> QED
    BY <1>1, GoldInvHolds, PTL
==============================================================================
