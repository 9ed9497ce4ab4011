------------------------- MODULE SnapshotStoreProofs -------------------------
(***************************************************************************)
(* What holds of a snapshot row for every set of writers, currencies and   *)
(* amounts, whatever the writers overlap and wherever they stop.  The      *)
(* inductive invariant says of each request in flight what it carries and  *)
(* what of the row it has read is still so, given the kinds of write it    *)
(* has missed since.                                                       *)
(***************************************************************************)
EXTENDS SnapshotStore, TLAPS

RowIsRecord == row = [buckets |-> row.buckets, backed |-> row.backed]

PerClient ==
    /\ req = [c \in Clients |-> req[c]]
    /\ behind = [c \in Clients |-> behind[c]]

\* What a request r carries, whatever becomes of the row.
Offered(r) ==
    /\ r.op \in Jobs /\ r.pc = "find" =>
          \E amounts \in Valuations : r.buckets = CronBuckets(amounts)
    /\ r.op \in Jobs /\ r.pc = "write" => \A k \in Currencies : r.buckets[k] # NoBucket
    /\ \/ r.op \in {"add", "override"} /\ r.pc = "read"
       \/ r.op = "add" /\ r.pc = "find"
       => \E form \in Forms : r.buckets = ManualBuckets(form)
    /\ r.op = "add" /\ r.pc = "write" => \A k \in Keys : ~IsCron(r.buckets[k])

\* What a request r that has missed some writes knows of the stored row s.
StillHolds(r, missed, s) ==
    /\ r.op \in Jobs /\ r.pc = "write" /\ missed \subseteq {"job"} =>
          \E amounts \in Valuations : r.buckets = Merged(s.buckets, CronBuckets(amounts))
    /\ r.op = "heal" /\ r.pc \in {"find", "write"} /\ missed \cap {"add", "delete"} = {} =>
          s.backed
    /\ r.op = "add" /\ r.pc \in {"find", "write"} /\ missed = {} => s = NoRow
    /\ r.op = "add" /\ r.pc = "write" /\ missed = {} =>
          \E form \in Forms : r.buckets = ManualBuckets(form)
    /\ r.op = "override" /\ r.pc = "write" /\ missed \subseteq {"override", "delete"}
       /\ s # NoRow =>
          \E form \in Forms : r.buckets = Anchored(ManualBuckets(form), s.buckets)
    /\ r.op = "delete" /\ r.pc = "write" /\ "job" \notin missed => ~HasCron(s)

StoreInv ==
    /\ RowIsRecord
    /\ PerClient
    /\ \A c \in Clients : Offered(req[c]) /\ StillHolds(req[c], behind[c], row)

------------------------------------------------------------------------------
(***************************************************************************)
(* The operators on buckets.                                               *)
(***************************************************************************)
\* A bucket has one source.
LEMMA Sources ==
    /\ \A amount : IsCron(Cron(amount)) /\ ~IsManual(Cron(amount)) /\ Cron(amount) # NoBucket
    /\ \A amount, anchor : /\ IsManual(Manual(amount, anchor))
                           /\ ~IsCron(Manual(amount, anchor))
                           /\ Manual(amount, anchor) # NoBucket
                           /\ Manual(amount, anchor).amount = amount
                           /\ OriginalCron(Manual(amount, anchor)) = anchor
    /\ ~IsManual(NoBucket) /\ ~IsCron(NoBucket)
    /\ \A bucket : IsManual(bucket) => bucket # NoBucket /\ ~IsCron(bucket)
BY DEF IsCron, IsManual, Cron, Manual, NoBucket, None, OriginalCron

LEMMA EmptyRow ==
    /\ NoRow = [buckets |-> NoRow.buckets, backed |-> FALSE]
    /\ \A k \in Keys : NoRow.buckets[k] = NoBucket
    /\ ~HasCron(NoRow)
BY Sources DEF NoRow, HasCron

\* A merge over a job's buckets leaves no tracked currency empty.
LEMMA JobFillsRow ==
    ASSUME NEW old, NEW amounts, NEW k \in Currencies
    PROVE  Merged(old, CronBuckets(amounts))[k] # NoBucket
<1>1. k \in Keys
  BY DEF Keys
<1>2. Merged(old, CronBuckets(amounts))[k] =
        IF IsManual(old[k]) THEN old[k] ELSE Cron(amounts[k])
  BY <1>1 DEF Merged, CronBuckets
<1> QED BY <1>2, Sources

\* What a merge takes from the row is manual, so a user's write over a row
\* leaves no bucket of the job in it.
LEMMA UserLeavesNoCron ==
    ASSUME NEW old, NEW form, NEW k \in Keys
    PROVE  ~IsCron(Merged(old, ManualBuckets(form))[k])
<1>1. Merged(old, ManualBuckets(form))[k] =
        IF IsManual(old[k]) THEN old[k]
        ELSE IF k \in DOMAIN form THEN Manual(form[k], None) ELSE NoBucket
  BY DEF Merged, ManualBuckets
<1> QED BY <1>1, Sources

\* A job's merge keeps what the next one will keep.
LEMMA MergedTwice ==
    ASSUME NEW old, NEW first, NEW second
    PROVE  Merged(Merged(old, CronBuckets(first)), CronBuckets(second))
              = Merged(old, CronBuckets(second))
<1> DEFINE once == Merged(old, CronBuckets(first))
<1>1. ASSUME NEW k \in Keys
      PROVE  /\ IsManual(once[k]) <=> IsManual(old[k])
             /\ IsManual(old[k]) => once[k] = old[k]
  <2>1. once[k] = IF IsManual(old[k]) THEN old[k]
                  ELSE IF k \in Currencies THEN Cron(first[k]) ELSE NoBucket
    BY DEF Merged, CronBuckets
  <2> QED BY <2>1, Sources
<1> DEFINE next == CronBuckets(second)
<1> HIDE DEF once, next
<1>2. [k \in Keys |-> IF IsManual(once[k]) THEN once[k] ELSE next[k]]
        = [k \in Keys |-> IF IsManual(old[k]) THEN old[k] ELSE next[k]]
  BY <1>1
<1> QED BY <1>2 DEF Merged, once, next

\* Over an empty row a merge is the incoming set.
LEMMA MergedWithNothing ==
    /\ \A amounts : Merged(NoRow.buckets, CronBuckets(amounts)) = CronBuckets(amounts)
    /\ \A form : Merged(NoRow.buckets, ManualBuckets(form)) = ManualBuckets(form)
<1>1. \A k \in Keys : ~IsManual(NoRow.buckets[k])
  BY EmptyRow, Sources
<1>2. \A new : Merged(NoRow.buckets, new) = [k \in Keys |-> new[k]]
  BY <1>1 DEF Merged
<1> QED BY <1>2 DEF CronBuckets, ManualBuckets

\* An override stores, over the row its anchors are from, the promised buckets, and
\* leaves the values of the job where the next override will find them.
LEMMA AnchoredOverrides ==
    ASSUME NEW old, NEW form
    PROVE  LET patch  == Anchored(ManualBuckets(form), old)
               merged == [k \in Keys |-> IF IsManual(patch[k]) THEN patch[k] ELSE old[k]]
           IN  /\ merged = Overridden(old, form)
               /\ \A k \in Keys : OriginalCron(merged[k]) = OriginalCron(old[k])
<1> DEFINE patch  == Anchored(ManualBuckets(form), old)
           merged == [k \in Keys |-> IF IsManual(patch[k]) THEN patch[k] ELSE old[k]]
<1>1. ASSUME NEW k \in Keys
      PROVE  merged[k] = IF k \in DOMAIN form
                         THEN Manual(form[k], OriginalCron(old[k])) ELSE old[k]
  <2>1. ManualBuckets(form)[k] = IF k \in DOMAIN form THEN Manual(form[k], None) ELSE NoBucket
    BY DEF ManualBuckets
  <2>2. patch[k] = IF k \in DOMAIN form THEN Manual(form[k], OriginalCron(old[k])) ELSE NoBucket
    BY <2>1, Sources DEF Anchored
  <2> HIDE DEF patch
  <2> QED BY <2>2, Sources
<1>2. merged = Overridden(old, form)
  <2>1. merged = [k \in Keys |-> merged[k]]
    OBVIOUS
  <2> HIDE DEF merged
  <2> QED BY <1>1, <2>1 DEF Overridden
<1>3. \A k \in Keys : OriginalCron(merged[k]) = OriginalCron(old[k])
  BY <1>1, Sources
<1> QED BY <1>2, <1>3

------------------------------------------------------------------------------
(***************************************************************************)
(* What a write leaves of the row.                                         *)
(***************************************************************************)
\* A job's write fills the row; unless others than jobs have written since it read,
\* it is the merge into the row as it is.
LEMMA JobWrite ==
    ASSUME StoreInv, NEW c \in Clients, UpsertWrites(c), req[c].op \in Jobs, row' # row
    PROVE  /\ row' = [buckets |-> req[c].buckets, backed |-> TRUE]
           /\ row'.backed /\ \A k \in Currencies : row'.buckets[k] # NoBucket
           /\ behind[c] \subseteq {"job"} =>
                  \E amounts \in Valuations :
                      row' = [buckets |-> Merged(row.buckets, CronBuckets(amounts)), backed |-> TRUE]
<1>1. row' = [buckets |-> req[c].buckets, backed |-> TRUE]
  BY DEF UpsertWrites, StoresLines
<1>2. Offered(req[c]) /\ StillHolds(req[c], behind[c], row) /\ req[c].pc = "write"
  BY DEF StoreInv, UpsertWrites, Doing
<1>3. \A k \in Currencies : req[c].buckets[k] # NoBucket
  BY <1>2 DEF Offered
<1>4. ASSUME behind[c] \subseteq {"job"}
      PROVE  \E amounts \in Valuations : req[c].buckets = Merged(row.buckets, CronBuckets(amounts))
  BY <1>2, <1>4 DEF StillHolds
<1> QED BY <1>1, <1>3, <1>4

\* A user's add leaves no bucket of a job and no lines; if it has missed nothing,
\* there is no row.
LEMMA AddWrite ==
    ASSUME StoreInv, NEW c \in Clients, UpsertWrites(c), req[c].op \notin Jobs, row' # row
    PROVE  /\ req[c].op = "add"
           /\ row' = [buckets |-> req[c].buckets, backed |-> FALSE]
           /\ ~row'.backed /\ ~HasCron(row')
           /\ behind[c] = {} => UserAdds
<1>1. row' = [buckets |-> req[c].buckets, backed |-> FALSE]
  <2>1. StoresLines(c) = FALSE
    BY DEF StoresLines
  <2> QED BY <2>1 DEF UpsertWrites
<1>2. /\ Offered(req[c]) /\ StillHolds(req[c], behind[c], row)
      /\ req[c].pc = "write" /\ req[c].op = "add"
  BY DEF StoreInv, UpsertWrites, Doing
<1>3. \A k \in Keys : ~IsCron(req[c].buckets[k])
  BY <1>2 DEF Offered
<1>4. ~row'.backed /\ row'.buckets = req[c].buckets
  BY <1>1
<1>5. ~HasCron(row')
  BY <1>3, <1>4 DEF HasCron
<1>6. ASSUME behind[c] = {}
      PROVE  UserAdds
  <2>1. row = NoRow /\ \E form \in Forms : req[c].buckets = ManualBuckets(form)
    BY <1>2, <1>6 DEF StillHolds
  <2> QED BY <1>1, <2>1 DEF UserAdds
<1> QED BY <1>1, <1>2, <1>4, <1>5, <1>6

\* An override makes buckets manual and leaves the others and the lines; unless a
\* job or an add has written since it read, the anchors are those of the row as it is.
LEMMA OverrideWrite ==
    ASSUME StoreInv, NEW c \in Clients, OverrideWrites(c), row' # row
    PROVE  /\ row # NoRow
           /\ row' = [buckets |-> row'.buckets, backed |-> row.backed]
           /\ \A k \in Keys : IsManual(row'.buckets[k]) \/ row'.buckets[k] = row.buckets[k]
           /\ behind[c] \subseteq {"override", "delete"} =>
                  /\ UserOverrides
                  /\ \A k \in Keys : OriginalCron(row'.buckets[k]) = OriginalCron(row.buckets[k])
<1> DEFINE patch  == req[c].buckets
           merged == [k \in Keys |-> IF IsManual(patch[k]) THEN patch[k] ELSE row.buckets[k]]
<1>1. row # NoRow /\ row' = [row EXCEPT !.buckets = merged]
  BY DEF OverrideWrites
<1>2. row' = [buckets |-> merged, backed |-> row.backed]
  BY <1>1 DEF StoreInv, RowIsRecord
<1>3. row'.buckets = merged /\ row'.backed = row.backed
  BY <1>2
<1>4. \A k \in Keys : IsManual(merged[k]) \/ merged[k] = row.buckets[k]
  OBVIOUS
<1>5. ASSUME behind[c] \subseteq {"override", "delete"}
      PROVE  /\ UserOverrides
             /\ \A k \in Keys : OriginalCron(merged[k]) = OriginalCron(row.buckets[k])
  <2>1. PICK form \in Forms : patch = Anchored(ManualBuckets(form), row.buckets)
    BY <1>1, <1>5 DEF StoreInv, StillHolds, OverrideWrites, Doing
  <2>2. /\ merged = Overridden(row.buckets, form)
        /\ \A k \in Keys : OriginalCron(merged[k]) = OriginalCron(row.buckets[k])
    BY <2>1, AnchoredOverrides
  <2> HIDE DEF merged
  <2> QED BY <1>1, <2>2 DEF UserOverrides
<1> HIDE DEF merged
<1> QED BY <1>1, <1>2, <1>3, <1>4, <1>5

\* Only the four kinds of write change the row, and they end their request.
LEMMA RowChanges ==
    ASSUME StoreInv, [StoreNext]_vars, row' # row
    PROVE  \E c \in Clients :
              /\ UpsertWrites(c) \/ OverrideWrites(c) \/ DeleteWrites(c)
              /\ Finish(c) /\ Overtakes(c) /\ At(c, "write")
<1>1. PICK c \in Clients : UpsertWrites(c) \/ OverrideWrites(c) \/ DeleteWrites(c)
  BY DEF StoreNext, vars, Begin, HealReads, AddReads, OverrideReads, DeleteReads,
         UpsertFinds, Crash
<1> QED BY <1>1 DEF UpsertWrites, OverrideWrites, DeleteWrites, Doing, At

LEMMA RowStaysRecord ==
    ASSUME StoreInv, [StoreNext]_vars
    PROVE  RowIsRecord'
<1>1. CASE row' = row
  BY <1>1 DEF RowIsRecord, StoreInv
<1>2. CASE row' # row
  <2>1. PICK c \in Clients : UpsertWrites(c) \/ OverrideWrites(c) \/ DeleteWrites(c)
    BY <1>2, RowChanges
  <2>2. \E buckets, backed : row' = [buckets |-> buckets, backed |-> backed]
    BY <1>2, <2>1, JobWrite, AddWrite, OverrideWrite, EmptyRow DEF DeleteWrites
  <2> QED BY <2>2 DEF RowIsRecord
<1> QED BY <1>1, <1>2

\* A row without lines holds no bucket of a job, and a row with lines is complete,
\* after any step of jobs and users, overlapping or not, from such a row.
LEMMA StepKeepsExplained ==
    ASSUME StoreInv, LinesExplainRow, [StoreNext]_vars
    PROVE  LinesExplainRow'
<1>1. CASE row' = row
  BY <1>1 DEF LinesExplainRow
<1>2. CASE row' # row
  <2>1. PICK c \in Clients : UpsertWrites(c) \/ OverrideWrites(c) \/ DeleteWrites(c)
    BY <1>2, RowChanges
  <2>2. CASE UpsertWrites(c) /\ req[c].op \in Jobs
    BY <1>2, <2>2, JobWrite DEF LinesExplainRow, Explained
  <2>3. CASE UpsertWrites(c) /\ req[c].op \notin Jobs
    BY <1>2, <2>3, AddWrite DEF LinesExplainRow, Explained
  <2>4. CASE OverrideWrites(c)
    <3>1. /\ row'.backed = row.backed
          /\ \A k \in Keys : IsManual(row'.buckets[k]) \/ row'.buckets[k] = row.buckets[k]
      BY <1>2, <2>4, OverrideWrite
    <3>2. HasCron(row') => HasCron(row)
      BY <3>1, Sources DEF HasCron
    <3>3. Currencies \subseteq Keys
      BY DEF Keys
    <3> QED BY <3>1, <3>2, <3>3, Sources DEF LinesExplainRow, Explained
  <2>5. CASE DeleteWrites(c)
    BY <2>5, EmptyRow DEF DeleteWrites, LinesExplainRow, Explained
  <2> QED BY <2>1, <2>2, <2>3, <2>4, <2>5
<1> QED BY <1>1, <1>2

------------------------------------------------------------------------------
(***************************************************************************)
(* The invariant.                                                          *)
(***************************************************************************)
\* One request changes at a time; the others keep theirs.
LEMMA OthersKeepRequests ==
    ASSUME PerClient, NEW c \in Clients, NEW r, req' = [req EXCEPT ![c] = r]
    PROVE  /\ req'[c] = r /\ \A d \in Clients \ {c} : req'[d] = req[d]
           /\ req' = [d \in Clients |-> req'[d]]
BY DEF PerClient

LEMMA IdleKnowsNothing ==
    /\ Offered(Idle)
    /\ \A missed, s : StillHolds(Idle, missed, s)
BY DEF Offered, StillHolds, Idle, None, Jobs

\* A step of c that leaves the row alone.
LEMMA QuietStep ==
    ASSUME StoreInv, NEW c \in Clients, NEW r, req' = [req EXCEPT ![c] = r], row' = row,
           Offered(r), StillHolds(r, behind'[c], row),
           \/ behind' = behind
           \/ behind' = [behind EXCEPT ![c] = {}]
    PROVE  StoreInv'
<1>1. /\ req'[c] = r /\ \A d \in Clients \ {c} : req'[d] = req[d]
      /\ req' = [d \in Clients |-> req'[d]]
  BY OthersKeepRequests DEF StoreInv
<1>2. /\ behind' = [d \in Clients |-> behind'[d]]
      /\ \A d \in Clients \ {c} : behind'[d] = behind[d]
  BY DEF StoreInv, PerClient
<1>3. \A d \in Clients : Offered(req'[d]) /\ StillHolds(req'[d], behind'[d], row)
  BY <1>1, <1>2 DEF StoreInv
<1>4. RowIsRecord'
  BY DEF StoreInv, RowIsRecord
<1>5. PerClient'
  BY <1>1, <1>2 DEF PerClient
<1>6. \A d \in Clients : Offered(req[d])' /\ StillHolds(req[d], behind[d], row)'
  BY <1>3 DEF Offered, StillHolds
<1> QED BY <1>4, <1>5, <1>6 DEF StoreInv

LEMMA QuietFinish ==
    ASSUME StoreInv, NEW c \in Clients, Finish(c), row' = row,
           \/ behind' = behind
           \/ behind' = [behind EXCEPT ![c] = {}]
    PROVE  StoreInv'
BY IdleKnowsNothing, QuietStep DEF Finish

\* A request that goes on with the row as it is.
LEMMA ContinueStep ==
    ASSUME StoreInv, NEW c \in Clients, NEW pc, NEW buckets, Continue(c, pc, buckets),
           row' = row, behind' = behind,
           \A found : LET now == [op |-> req[c].op, pc |-> pc, buckets |-> buckets, found |-> found]
                      IN  Offered(now) /\ StillHolds(now, behind[c], row)
    PROVE  StoreInv'
BY QuietStep DEF Continue

\* What d knows outlasts the write of c, but for what the new kinds of write excuse.
LEMMA OthersStillHold ==
    ASSUME StoreInv, NEW c \in Clients, NEW d \in Clients,
           UpsertWrites(c) \/ OverrideWrites(c) \/ DeleteWrites(c), row' # row,
           NEW missed, missed = {Kind(req[c].op)} \cup (IF Undisturbed(c) THEN {} ELSE {"stale"})
    PROVE  StillHolds(req[d], behind[d] \cup missed, row')
<1> DEFINE r == req[d]
           all == behind[d] \cup missed
<1>1. StillHolds(r, behind[d], row)
  BY DEF StoreInv
<1>2. /\ Kind(req[c].op) \in missed
      /\ Undisturbed(c) \/ "stale" \in missed
  OBVIOUS
<1>3. /\ req[c].op \in Jobs => Kind(req[c].op) = "job"
      /\ req[c].op \in Removals => Kind(req[c].op) = "delete"
      /\ req[c].op = "override" => Kind(req[c].op) = "override"
      /\ req[c].op = "add" => Kind(req[c].op) = "add"
  BY DEF Kind, Jobs, Removals
<1>4. /\ UpsertWrites(c) => req[c].op \in Jobs \cup {"add"}
      /\ OverrideWrites(c) => req[c].op = "override"
      /\ DeleteWrites(c) => req[c].op \in Removals
  BY DEF UpsertWrites, OverrideWrites, DeleteWrites, Doing
<1>5. ASSUME r.op \in Jobs, r.pc = "write", all \subseteq {"job"}
      PROVE  \E amounts \in Valuations : r.buckets = Merged(row'.buckets, CronBuckets(amounts))
  <2>1. PICK second \in Valuations : r.buckets = Merged(row.buckets, CronBuckets(second))
    BY <1>1, <1>5 DEF StillHolds
  <2>2. UpsertWrites(c) /\ req[c].op \in Jobs /\ Undisturbed(c)
    BY <1>2, <1>3, <1>4, <1>5
  <2>3. behind[c] \subseteq {"job"}
    BY <2>2 DEF Undisturbed, Harmless, Jobs, Edits, Removals
  <2>4. PICK first \in Valuations :
          row' = [buckets |-> Merged(row.buckets, CronBuckets(first)), backed |-> TRUE]
    BY <2>2, <2>3, JobWrite
  <2>5. r.buckets = Merged(row'.buckets, CronBuckets(second))
    BY <2>1, <2>4, MergedTwice
  <2> QED BY <2>5
<1>6. ASSUME r.op = "heal", r.pc \in {"find", "write"}, all \cap {"add", "delete"} = {}
      PROVE  row'.backed
  <2>1. row.backed
    BY <1>1, <1>6 DEF StillHolds
  <2>2. (UpsertWrites(c) /\ req[c].op \in Jobs) \/ OverrideWrites(c)
    BY <1>2, <1>3, <1>4, <1>6
  <2> QED BY <2>1, <2>2, JobWrite, OverrideWrite
<1>7. all # {}
  BY <1>2
<1>8. ASSUME r.op = "override", r.pc = "write", all \subseteq {"override", "delete"}, row' # NoRow
      PROVE  \E form \in Forms : r.buckets = Anchored(ManualBuckets(form), row'.buckets)
  <2>1. OverrideWrites(c) /\ Undisturbed(c)
    BY <1>2, <1>3, <1>4, <1>8 DEF DeleteWrites
  <2>2. behind[c] \subseteq {"override", "delete"}
    BY <1>4, <2>1 DEF Undisturbed, Harmless, Jobs, Edits
  <2>3. row # NoRow /\ \A k \in Keys : OriginalCron(row'.buckets[k]) = OriginalCron(row.buckets[k])
    BY <2>1, <2>2, OverrideWrite
  <2>4. PICK form \in Forms : r.buckets = Anchored(ManualBuckets(form), row.buckets)
    BY <1>1, <1>8, <2>3 DEF StillHolds
  <2>5. Anchored(ManualBuckets(form), row.buckets) = Anchored(ManualBuckets(form), row'.buckets)
    BY <2>3 DEF Anchored
  <2> QED BY <2>4, <2>5
<1>9. ASSUME r.op = "delete", r.pc = "write", "job" \notin all
      PROVE  ~HasCron(row')
  <2>1. ~HasCron(row)
    BY <1>1, <1>9 DEF StillHolds
  <2>2. req[c].op \notin Jobs
    BY <1>2, <1>3, <1>9
  <2>3. CASE UpsertWrites(c)
    BY <2>2, <2>3, AddWrite
  <2>4. CASE OverrideWrites(c)
    BY <2>1, <2>4, OverrideWrite, Sources DEF HasCron
  <2>5. CASE DeleteWrites(c)
    BY <2>5, EmptyRow DEF DeleteWrites
  <2> QED BY <2>3, <2>4, <2>5
<1> HIDE DEF r, all
<1>10. StillHolds(r, all, row')
  BY <1>5, <1>6, <1>7, <1>8, <1>9 DEF StillHolds
<1> QED BY <1>10 DEF r, all

\* A write ends its request, and every other one learns what kind it has missed.
LEMMA WriteStep ==
    ASSUME StoreInv, NEW c \in Clients, UpsertWrites(c) \/ OverrideWrites(c) \/ DeleteWrites(c),
           RowIsRecord'
    PROVE  StoreInv'
<1>1. Finish(c) /\ Overtakes(c)
  BY DEF UpsertWrites, OverrideWrites, DeleteWrites
<1>2. PICK missed : missed = {Kind(req[c].op)} \cup (IF Undisturbed(c) THEN {} ELSE {"stale"})
  OBVIOUS
<1>3. behind' = [d \in Clients |-> IF d = c THEN {}
                                   ELSE IF row' # row /\ HasRead(d) THEN behind[d] \cup missed
                                   ELSE behind[d]]
  BY <1>1, <1>2 DEF Overtakes
<1>4. /\ req'[c] = Idle /\ \A d \in Clients \ {c} : req'[d] = req[d]
      /\ req' = [d \in Clients |-> req'[d]]
  BY <1>1, OthersKeepRequests DEF StoreInv, Finish
<1>5. ASSUME NEW d \in Clients
      PROVE  Offered(req'[d]) /\ StillHolds(req'[d], behind'[d], row')
  <2>1. CASE d = c
    BY <1>4, <2>1, IdleKnowsNothing
  <2>2. CASE d # c /\ row' = row
    BY <1>3, <1>4, <2>2 DEF StoreInv
  <2>3. CASE d # c /\ row' # row /\ HasRead(d)
    <3>1. StillHolds(req[d], behind[d] \cup missed, row')
      BY <1>2, <2>3, OthersStillHold
    <3> QED BY <1>3, <1>4, <2>3, <3>1 DEF StoreInv
  <2>4. CASE d # c /\ ~HasRead(d)
    <3>1. Offered(req'[d]) /\ req'[d] = req[d]
      BY <1>4, <2>4 DEF StoreInv
    <3>2. StillHolds(req'[d], behind'[d], row')
      BY <2>4, <3>1 DEF HasRead, At, Doing, StillHolds
    <3> QED BY <3>1, <3>2
  <2> QED BY <2>1, <2>2, <2>3, <2>4
<1>6. PerClient'
  BY <1>3, <1>4 DEF PerClient
<1>7. \A d \in Clients : Offered(req[d])' /\ StillHolds(req[d], behind[d], row)'
  BY <1>5 DEF Offered, StillHolds
<1> QED BY <1>6, <1>7 DEF StoreInv

LEMMA BeginStep ==
    ASSUME StoreInv, NEW c \in Clients, Begin(c)
    PROVE  StoreInv'
<1>1. PICK op, buckets :
        /\ op \in Operations
        /\ buckets \in CASE op = "cron" -> {CronBuckets(amounts) : amounts \in Valuations}
                         [] op \in {"add", "override"} -> {ManualBuckets(form) : form \in Forms}
                         [] OTHER -> {NoRow.buckets}
        /\ req' = [req EXCEPT ![c] = [op |-> op, buckets |-> buckets, found |-> FALSE,
                                      pc |-> IF op = "cron" THEN "find" ELSE "read"]]
  BY DEF Begin
<1>2. PICK now : now = [op |-> op, buckets |-> buckets, found |-> FALSE,
                        pc |-> IF op = "cron" THEN "find" ELSE "read"]
  OBVIOUS
<1>3. /\ now.op = op /\ now.buckets = buckets
      /\ now.pc = IF op = "cron" THEN "find" ELSE "read"
  BY <1>2
<1>4. /\ op = "cron" => \E amounts \in Valuations : buckets = CronBuckets(amounts)
      /\ op \in {"add", "override"} => \E form \in Forms : buckets = ManualBuckets(form)
  BY <1>1
<1>5. Offered(now)
  BY <1>3, <1>4 DEF Offered, Jobs
<1>6. \A missed : StillHolds(now, missed, row)
  BY <1>3 DEF StillHolds, Jobs
<1> QED BY <1>1, <1>2, <1>5, <1>6, QuietStep DEF Begin

\* A heal goes on with a row that has lines.
LEMMA HealStep ==
    ASSUME StoreInv, NEW c \in Clients, HealReads(c)
    PROVE  StoreInv'
<1>1. /\ req[c].op = "heal" /\ req[c].pc = "read"
      /\ UNCHANGED <<row, behind>>
  BY DEF HealReads, Doing
<1>2. CASE ~row.backed
  BY <1>1, <1>2, QuietFinish DEF HealReads
<1>3. CASE row.backed
  <2>1. PICK amounts \in Valuations : Continue(c, "find", CronBuckets(amounts))
    BY <1>3 DEF HealReads
  <2>2. PICK buckets : buckets = CronBuckets(amounts)
    OBVIOUS
  <2>3. ASSUME NEW found, NEW now,
               now = [op |-> req[c].op, pc |-> "find", buckets |-> buckets, found |-> found]
        PROVE  Offered(now) /\ StillHolds(now, behind[c], row)
    <3>1. now.op = "heal" /\ now.pc = "find" /\ now.buckets = buckets
      BY <1>1, <2>3
    <3>2. Offered(now)
      BY <2>2, <3>1 DEF Offered
    <3>3. StillHolds(now, behind[c], row)
      BY <1>3, <3>1 DEF StillHolds
    <3> QED BY <3>2, <3>3
  <2> QED BY <1>1, <2>1, <2>2, <2>3, ContinueStep
<1> QED BY <1>2, <1>3

\* An add goes on where there is no row.
LEMMA AddStep ==
    ASSUME StoreInv, NEW c \in Clients, AddReads(c)
    PROVE  StoreInv'
<1>1. /\ req[c].op = "add" /\ req[c].pc = "read"
      /\ UNCHANGED <<row, behind>>
  BY DEF AddReads, Doing
<1>2. CASE row # NoRow
  BY <1>1, <1>2, QuietFinish DEF AddReads
<1>3. CASE row = NoRow
  <2>1. Continue(c, "find", req[c].buckets)
    BY <1>3 DEF AddReads
  <2>2. \E form \in Forms : req[c].buckets = ManualBuckets(form)
    BY <1>1 DEF StoreInv, Offered
  <2>3. ASSUME NEW found, NEW now,
               now = [op |-> req[c].op, pc |-> "find", buckets |-> req[c].buckets, found |-> found]
        PROVE  Offered(now) /\ StillHolds(now, behind[c], row)
    <3>1. now.op = "add" /\ now.pc = "find" /\ now.buckets = req[c].buckets
      BY <1>1, <2>3
    <3>2. Offered(now)
      BY <2>2, <3>1 DEF Offered, Jobs
    <3>3. StillHolds(now, behind[c], row)
      BY <1>3, <3>1 DEF StillHolds, Jobs
    <3> QED BY <3>2, <3>3
  <2> QED BY <1>1, <2>1, <2>3, ContinueStep
<1> QED BY <1>2, <1>3

\* An override takes its anchors from the row.
LEMMA OverrideStep ==
    ASSUME StoreInv, NEW c \in Clients, OverrideReads(c)
    PROVE  StoreInv'
<1>1. /\ req[c].op = "override" /\ req[c].pc = "read"
      /\ UNCHANGED <<row, behind>>
  BY DEF OverrideReads, Doing
<1>2. CASE row = NoRow
  BY <1>1, <1>2, QuietFinish DEF OverrideReads
<1>3. CASE row # NoRow
  <2>1. PICK buckets : buckets = Anchored(req[c].buckets, row.buckets)
    OBVIOUS
  <2>2. Continue(c, "write", buckets)
    BY <1>3, <2>1 DEF OverrideReads
  <2>3. \E form \in Forms : buckets = Anchored(ManualBuckets(form), row.buckets)
    BY <1>1, <2>1 DEF StoreInv, Offered
  <2>4. ASSUME NEW found, NEW now,
               now = [op |-> req[c].op, pc |-> "write", buckets |-> buckets, found |-> found]
        PROVE  Offered(now) /\ StillHolds(now, behind[c], row)
    <3>1. now.op = "override" /\ now.pc = "write" /\ now.buckets = buckets
      BY <1>1, <2>4
    <3>2. Offered(now)
      BY <3>1 DEF Offered, Jobs
    <3>3. StillHolds(now, behind[c], row)
      BY <2>3, <3>1 DEF StillHolds, Jobs
    <3> QED BY <3>2, <3>3
  <2> QED BY <1>1, <2>2, <2>4, ContinueStep
<1> QED BY <1>2, <1>3

\* An unforced delete goes on with a row that has no bucket of a job.
LEMMA DeleteStep ==
    ASSUME StoreInv, NEW c \in Clients, DeleteReads(c)
    PROVE  StoreInv'
<1>1. /\ req[c].op \in Removals /\ req[c].pc = "read"
      /\ UNCHANGED <<row, behind>>
  BY DEF DeleteReads, Doing
<1>2. CASE Finish(c)
  BY <1>1, <1>2, QuietFinish
<1>3. CASE ~Finish(c)
  <2>1. /\ Continue(c, "write", NoRow.buckets)
        /\ req[c].op = "delete" => ~HasCron(row)
    BY <1>3 DEF DeleteReads
  <2>2. ASSUME NEW found, NEW now,
               now = [op |-> req[c].op, pc |-> "write", buckets |-> NoRow.buckets, found |-> found]
        PROVE  Offered(now) /\ StillHolds(now, behind[c], row)
    <3>1. now.op \in Removals /\ now.pc = "write" /\ now.op = req[c].op
      BY <1>1, <2>2
    <3>2. Offered(now)
      BY <3>1 DEF Offered, Jobs, Removals
    <3>3. StillHolds(now, behind[c], row)
      BY <2>1, <3>1 DEF StillHolds, Jobs, Removals
    <3> QED BY <3>2, <3>3
  <2> QED BY <1>1, <2>1, <2>2, ContinueStep
<1> QED BY <1>2, <1>3

\* An upsert merges with the row as it is.
LEMMA FindStep ==
    ASSUME StoreInv, NEW c \in Clients, UpsertFinds(c)
    PROVE  StoreInv'
<1>1. /\ req[c].op \in Jobs \cup {"add"} /\ req[c].pc = "find"
      /\ UNCHANGED <<row, behind>>
  BY DEF UpsertFinds, Doing
<1>2. PICK buckets : buckets = Merged(row.buckets, req[c].buckets)
  OBVIOUS
<1>3. Continue(c, "write", buckets)
  BY <1>2 DEF UpsertFinds
<1>4. Offered(req[c]) /\ StillHolds(req[c], behind[c], row)
  BY DEF StoreInv
<1>5. ASSUME NEW found, NEW now,
             now = [op |-> req[c].op, pc |-> "write", buckets |-> buckets, found |-> found]
      PROVE  Offered(now) /\ StillHolds(now, behind[c], row)
  <2>1. now.op = req[c].op /\ now.pc = "write" /\ now.buckets = buckets
    BY <1>5
  <2>2. CASE req[c].op \in Jobs
    <3>1. PICK amounts \in Valuations : buckets = Merged(row.buckets, CronBuckets(amounts))
      BY <1>1, <1>2, <1>4, <2>2 DEF Offered
    <3>2. \A k \in Currencies : buckets[k] # NoBucket
      BY <3>1, JobFillsRow
    <3>3. Offered(now)
      BY <2>1, <2>2, <3>2 DEF Offered, Jobs
    <3>4. now.op = "heal" /\ behind[c] \cap {"add", "delete"} = {} => row.backed
      BY <1>1, <1>4, <2>1 DEF StillHolds
    <3>5. StillHolds(now, behind[c], row)
      BY <2>1, <2>2, <3>1, <3>4 DEF StillHolds, Jobs
    <3> QED BY <3>3, <3>5
  <2>3. CASE req[c].op = "add"
    <3>1. PICK form \in Forms : req[c].buckets = ManualBuckets(form)
      BY <1>1, <1>4, <2>3 DEF Offered
    <3>2. \A k \in Keys : ~IsCron(buckets[k])
      BY <1>2, <3>1, UserLeavesNoCron
    <3>3. Offered(now)
      BY <2>1, <2>3, <3>2 DEF Offered, Jobs
    <3>4. behind[c] = {} => row = NoRow
      BY <1>1, <1>4, <2>3 DEF StillHolds
    <3>5. behind[c] = {} => buckets = ManualBuckets(form)
      BY <1>2, <3>1, <3>4, MergedWithNothing
    <3>6. StillHolds(now, behind[c], row)
      BY <2>1, <2>3, <3>4, <3>5 DEF StillHolds, Jobs
    <3> QED BY <3>3, <3>6
  <2> QED BY <1>1, <2>2, <2>3
<1> QED BY <1>1, <1>3, <1>5, ContinueStep

LEMMA StepKeepsInv ==
    ASSUME StoreInv, [StoreNext]_vars
    PROVE  StoreInv'
<1>1. CASE UNCHANGED vars
  BY <1>1 DEF vars, StoreInv, RowIsRecord, PerClient, Offered, StillHolds
<1>2. ASSUME NEW c \in Clients, Crash(c)
      PROVE  StoreInv'
  BY <1>2, QuietFinish DEF Crash
<1>3. CASE StoreNext
  BY <1>2, <1>3, RowStaysRecord, BeginStep, HealStep, AddStep, OverrideStep, DeleteStep,
     FindStep, WriteStep
  DEF StoreNext
<1> QED BY <1>1, <1>3

LEMMA InitialInv == StoreInit => StoreInv
<1> SUFFICES ASSUME StoreInit PROVE StoreInv
  OBVIOUS
<1>1. \A c \in Clients : req[c] = Idle
  BY DEF StoreInit
<1>2. PerClient
  BY DEF StoreInit, PerClient
<1>3. row \in RowType
  BY InitialRowsAreRows DEF StoreInit
<1>4. RowIsRecord
  BY <1>3, EmptyRow DEF RowType, RowIsRecord
<1> QED BY <1>1, <1>2, <1>4, IdleKnowsNothing DEF StoreInv

LEMMA StoreInvHolds == StoreSpec => []StoreInv
BY InitialInv, StepKeepsInv, PTL DEF StoreSpec

------------------------------------------------------------------------------
(***************************************************************************)
(* The theorems.                                                           *)
(***************************************************************************)
\* No step of any overlap of jobs and users takes from a row what its lines promise.
THEOREM LinesAlwaysStayExplained == StoreSpec => LinesStayExplained
<1>1. StoreInv /\ [StoreNext]_vars => [LinesExplainRow => LinesExplainRow']_vars
  BY StepKeepsExplained
<1> QED
  BY <1>1, StoreInvHolds, PTL DEF StoreSpec, LinesStayExplained

\* So from rows that satisfy it no reachable row has a bucket of a job without
\* lines, or lines without all the tracked buckets.
THEOREM LinesAlwaysExplainRow ==
    ASSUME \A r \in InitialRows : Explained(r)
    PROVE  StoreSpec => []LinesExplainRow
<1>1. StoreInit => LinesExplainRow
  BY DEF StoreInit, LinesExplainRow
<1>2. StoreInv /\ LinesExplainRow /\ [StoreNext]_vars => LinesExplainRow'
  BY StepKeepsExplained
<1> QED
  BY <1>1, <1>2, StoreInvHolds, PTL DEF StoreSpec

\* A request that ends in a step that changes the row has made the change.
LEMMA TheMoverWrote ==
    ASSUME StoreInv, [StoreNext]_vars, row' # row, NEW c \in Clients, NEW ops, NEW pc,
           Moves(c, ops, pc)
    PROVE  /\ UpsertWrites(c) \/ OverrideWrites(c) \/ DeleteWrites(c)
           /\ req[c].op \in ops
<1>1. PICK d \in Clients : /\ UpsertWrites(d) \/ OverrideWrites(d) \/ DeleteWrites(d)
                           /\ Finish(d)
  BY RowChanges
<1>2. \A e \in Clients \ {d} : req'[e] = req[e]
  BY <1>1, OthersKeepRequests DEF Finish, StoreInv
<1> QED BY <1>1, <1>2 DEF Moves, Doing

\* However jobs and users overlap, a job changes a bucket of the user only if a request
\* of the user, or a job that had missed one, wrote the row between the job's read and
\* its write: jobs alone cost no override.
THEOREM OverridesSurviveJobsHolds == StoreSpec => OverridesSurviveJobs
<1>1. StoreInv /\ [StoreNext]_vars =>
        [\A c \in Clients, k \in Keys :
            Moves(c, Jobs, "write") /\ IsManual(row.buckets[k])
            /\ row'.buckets[k] # row.buckets[k] => ~(behind[c] \subseteq {"job"})]_vars
  <2> SUFFICES ASSUME StoreInv, [StoreNext]_vars, NEW c \in Clients, NEW k \in Keys,
                      Moves(c, Jobs, "write"), IsManual(row.buckets[k]),
                      behind[c] \subseteq {"job"}
               PROVE  row'.buckets[k] = row.buckets[k]
    OBVIOUS
  <2>1. CASE row' = row
    BY <2>1
  <2>2. CASE row' # row
    <3>1. UpsertWrites(c) /\ req[c].op \in Jobs
      BY <2>2, TheMoverWrote DEF OverrideWrites, DeleteWrites, Doing, Jobs, Removals
    <3>2. PICK amounts :
            row' = [buckets |-> Merged(row.buckets, CronBuckets(amounts)), backed |-> TRUE]
      BY <2>2, <3>1, JobWrite
    <3>3. row'.buckets[k] = Merged(row.buckets, CronBuckets(amounts))[k]
      BY <3>2
    <3> QED BY <3>3 DEF Merged
  <2> QED BY <2>1, <2>2
<1> QED BY <1>1, StoreInvHolds, PTL DEF StoreSpec, OverridesSurviveJobs

\* However jobs and users overlap and wherever they stop, each write is a job's merge
\* into the row as it is, an add where no row is, an override that remembers the
\* job's value, or a delete, all in one step, unless it has missed a write that
\* hurts its kind.
THEOREM WritersImplementSnapshotRow == StoreSpec => ImplementsSnapshotRow
<1> DEFINE Late == \E c \in Clients : Moves(c, AllOperations, "write") /\ ~Undisturbed(c)
<1>1. StoreInit => Init
  BY InitialRowsAreRows DEF StoreInit, Init
<1>2. StoreInv /\ [StoreNext]_vars => [Next \/ Late]_row
  <2> SUFFICES ASSUME StoreInv, [StoreNext]_vars, row' # row
               PROVE  Next \/ Late
    OBVIOUS
  <2>1. PICK c \in Clients : /\ UpsertWrites(c) \/ OverrideWrites(c) \/ DeleteWrites(c)
                             /\ Finish(c)
    BY RowChanges
  <2>2. req[c].op \in Jobs \cup {"add"} \cup Edits /\ req[c].pc = "write"
    BY <2>1 DEF UpsertWrites, OverrideWrites, DeleteWrites, Doing, Edits
  <2>3. CASE ~Undisturbed(c)
    <3>1. req'[c] # req[c]
      <4>1. req'[c].pc = "idle"
        BY <2>1, OthersKeepRequests DEF StoreInv, Finish, Idle
      <4> QED BY <2>2, <4>1
    <3>2. req[c].op \in AllOperations
      BY <2>2 DEF AllOperations, Jobs, Edits, Removals
    <3> QED BY <2>2, <2>3, <3>1, <3>2 DEF Moves, Doing
  <2>4. CASE Undisturbed(c)
    <3>1. CASE UpsertWrites(c) /\ req[c].op \in Jobs
      <4>1. behind[c] \subseteq {"job"}
        BY <2>4, <3>1 DEF Undisturbed, Harmless, Jobs, Edits, Removals
      <4>2. JobWrites
        BY <3>1, <4>1, JobWrite DEF JobWrites, Valuations
      <4> QED BY <4>2 DEF Next
    <3>2. CASE UpsertWrites(c) /\ req[c].op \notin Jobs
      <4>1. behind[c] = {}
        BY <2>4, <3>2, AddWrite DEF Undisturbed, Harmless, Jobs, Edits, Removals
      <4>2. UserAdds
        BY <3>2, <4>1, AddWrite
      <4> QED BY <4>2 DEF Next
    <3>3. CASE OverrideWrites(c)
      <4>1. behind[c] \subseteq {"override", "delete"}
        BY <2>4, <3>3 DEF Undisturbed, Harmless, OverrideWrites, Doing, Jobs, Edits, Removals
      <4>2. UserOverrides
        BY <3>3, <4>1, OverrideWrite
      <4> QED BY <4>2 DEF Next
    <3>4. CASE DeleteWrites(c)
      BY <3>4 DEF DeleteWrites, Next, Deletes
    <3> QED BY <2>1, <3>1, <3>2, <3>3, <3>4
  <2> QED BY <2>3, <2>4
<1> QED BY <1>1, <1>2, StoreInvHolds, PTL DEF StoreSpec, ImplementsSnapshotRow

\* However they overlap, a heal rewrites a row without lines only if a delete or an
\* add came after it had listed the rows, and an unforced delete takes a bucket of a
\* job only if a job wrote the row after the check.
THEOREM GuardedRowsStayHolds == StoreSpec => GuardedRowsStay
<1>1. StoreInv /\ [StoreNext]_vars =>
        [\A c \in Clients : row' # row =>
            /\ Moves(c, {"heal"}, "write") /\ ~row.backed =>
                   behind[c] \cap {"add", "delete"} # {}
            /\ Moves(c, {"delete"}, "write") /\ HasCron(row) => "job" \in behind[c]]_vars
  BY DEF StoreInv, StillHolds, Moves, Doing
<1> QED BY <1>1, StoreInvHolds, PTL DEF StoreSpec, GuardedRowsStay

==============================================================================
