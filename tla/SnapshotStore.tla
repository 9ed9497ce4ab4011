---------------------------- MODULE SnapshotStore ----------------------------
(***************************************************************************)
(* One (user, date) row of portfolio_snapshots under its writers: the      *)
(* snapshot job, the heal of a backdated ledger edit, and the History page *)
(* (add, paste, override, delete).  Every one of them reads the row in one *)
(* MongoDB call and writes it in another; nothing ties the two together.   *)
(***************************************************************************)
EXTENDS SnapshotRow

CONSTANTS
    Clients,      \* writers in flight at once, one request each
    InitialRows,  \* the rows the modelled period may start from
    Operations    \* the operations offered

AllOperations == {"cron", "heal", "add", "override", "delete", "forceDelete"}
Jobs == {"cron", "heal"}
Removals == {"delete", "forceDelete"}
Edits == {"override"} \cup Removals
Kinds == {"job", "add", "override", "delete", "stale"}

ASSUME InitialRowsAreRows == InitialRows \subseteq RowType
ASSUME KnownOperations == Operations \subseteq AllOperations
ASSUME NoneIsNoAmount == None \notin Amounts

VARIABLES
    (* row, the stored row, is declared by SnapshotRow *)
    req,      \* the request each client has in flight
    behind    \* the kinds of write a request has missed since it read the row:
              \* observation only, read by no guard

vars == <<row, req, behind>>

\* A request carries the buckets it is about to store, and whether its upsert has
\* found a row.
Idle == [op |-> None, pc |-> "idle", buckets |-> NoRow.buckets, found |-> FALSE]

\* The stored row and every request in flight are well formed.
TypeOK ==
    /\ row \in RowType
    /\ DOMAIN req = Clients
    /\ \A c \in Clients :
        /\ req[c].op \in AllOperations \cup {None}
        /\ req[c].pc \in {"idle", "read", "find", "write"}
        /\ req[c].buckets \in [Keys -> Bucket \cup {NoBucket}]
        /\ req[c].found \in BOOLEAN
    /\ behind \in [Clients -> SUBSET Kinds]

StoreInit ==
    /\ row \in InitialRows
    /\ req = [c \in Clients |-> Idle]
    /\ behind = [c \in Clients |-> {}]

------------------------------------------------------------------------------
Valuations == [Currencies -> Amounts]

At(c, pc) == req[c].pc = pc
Doing(c, ops, pc) == req[c].op \in ops /\ req[c].pc = pc
Finish(c) == req' = [req EXCEPT ![c] = Idle]

\* The job values the holdings before it touches the row; the amounts of a heal
\* are computed once it has listed the rows.  A user's amounts come with the form.
Begin(c) ==
    /\ At(c, "idle")
    /\ \E op \in Operations :
        \E buckets \in CASE op = "cron" -> {CronBuckets(amounts) : amounts \in Valuations}
                        [] op \in {"add", "override"} -> {ManualBuckets(form) : form \in Forms}
                        [] OTHER -> {NoRow.buckets} :
            req' = [req EXCEPT ![c] = [op |-> op, buckets |-> buckets, found |-> FALSE,
                                       pc |-> IF op = "cron" THEN "find" ELSE "read"]]
    /\ UNCHANGED <<row, behind>>

Continue(c, pc, buckets) ==
    req' = [req EXCEPT ![c] = [op |-> req[c].op, pc |-> pc, buckets |-> buckets,
                               found |-> row # NoRow]]

(***************************************************************************)
(* Which overlaps hurt.  A request decides on what it read first, and the  *)
(* writes of others it misses since then are noted by their kind, those of *)
(* requests that were themselves overtaken by one that hurts as stale too. *)
(* Jobs may miss jobs, and edits of the user edits: both of a kind keep    *)
(* what the others decide on.                                              *)
(***************************************************************************)
HasRead(c) == At(c, "write") \/ Doing(c, {"heal", "add"}, "find")

Kind(op) == CASE op \in Jobs -> "job" [] op \in Removals -> "delete" [] OTHER -> op

Harmless(op) == CASE op \in Jobs -> {"job"} [] op \in Edits -> {"override", "delete"} [] OTHER -> {}

Undisturbed(c) == behind[c] \subseteq Harmless(req[c].op)

Overtakes(c) ==
    LET missed == {Kind(req[c].op)} \cup (IF Undisturbed(c) THEN {} ELSE {"stale"})
    IN  behind' = [d \in Clients |->
                      IF d = c THEN {}
                      ELSE IF row' # row /\ HasRead(d) THEN behind[d] \cup missed
                      ELSE behind[d]]

\* RecomputeFrom lists the stored rows and leaves out those without lines.
\* Faulty variant: rows without lines are recomputed as well.
HealReads_EveryRow(c) ==
    /\ Doing(c, {"heal"}, "read")
    /\ IF row # NoRow
       THEN \E amounts \in Valuations : Continue(c, "find", CronBuckets(amounts))
       ELSE Finish(c)
    /\ UNCHANGED <<row, behind>>

HealReads(c) ==
    /\ Doing(c, {"heal"}, "read")
    /\ IF row.backed
       THEN \E amounts \in Valuations : Continue(c, "find", CronBuckets(amounts))
       ELSE Finish(c)
    /\ UNCHANGED <<row, behind>>

\* HistoryService.Add and Paste refuse a date that has a row.
AddReads(c) ==
    /\ Doing(c, {"add"}, "read")
    /\ IF row = NoRow THEN Continue(c, "find", req[c].buckets) ELSE Finish(c)
    /\ UNCHANGED <<row, behind>>

\* What an override of some buckets is to store, from the row as read.
\* Faulty variant: the anchor is taken from the latest override.
Anchored_Latest(form, old) ==
    [k \in Keys |-> IF IsManual(form[k]) THEN Manual(form[k].amount, old[k].amount) ELSE NoBucket]

Anchored(form, old) ==
    [k \in Keys |-> IF IsManual(form[k]) THEN Manual(form[k].amount, OriginalCron(old[k]))
                    ELSE NoBucket]

\* HistoryService.PatchRegions reads the row for the values to remember.
OverrideReads(c) ==
    /\ Doing(c, {"override"}, "read")
    /\ IF row # NoRow THEN Continue(c, "write", Anchored(req[c].buckets, row.buckets))
       ELSE Finish(c)
    /\ UNCHANGED <<row, behind>>

\* deleteInternal answers not found, or protected unless it is forced.
\* Faulty variant: only a row that is cron throughout is protected.
DeleteReads_AnyManual(c) ==
    /\ Doing(c, Removals, "read")
    /\ IF /\ row # NoRow
          /\ req[c].op = "forceDelete" \/ \E k \in Keys : IsManual(row.buckets[k])
       THEN Continue(c, "write", NoRow.buckets)
       ELSE Finish(c)
    /\ UNCHANGED <<row, behind>>

DeleteReads(c) ==
    /\ Doing(c, Removals, "read")
    /\ IF row # NoRow /\ (req[c].op = "forceDelete" \/ ~HasCron(row))
       THEN Continue(c, "write", NoRow.buckets)
       ELSE Finish(c)
    /\ UNCHANGED <<row, behind>>

------------------------------------------------------------------------------
(***************************************************************************)
(* SnapshotStore.Upsert: FindOne and the merge with the row it returned,   *)
(* then UpdateOne of the merged buckets, or InsertOne when there was no    *)
(* row.  UpdateOne matches nothing when the row has gone; InsertOne fails  *)
(* on the unique index when one has come.                                  *)
(***************************************************************************)
\* Faulty variant: the merge keeps nothing of the row.
UpsertFinds_Replacing(c) ==
    /\ Doing(c, Jobs \cup {"add"}, "find")
    /\ Continue(c, "write", req[c].buckets)
    /\ UNCHANGED <<row, behind>>

UpsertFinds(c) ==
    /\ Doing(c, Jobs \cup {"add"}, "find")
    /\ Continue(c, "write", Merged(row.buckets, req[c].buckets))
    /\ UNCHANGED <<row, behind>>

\* The jobs store the lines they have valued; a user's row has none.
\* Faulty variant: every upsert stores a list of lines, an empty one for a user's.
StoresLines_Always(c) == TRUE

StoresLines(c) == req[c].op \in Jobs

UpsertWrites(c) ==
    /\ Doing(c, Jobs \cup {"add"}, "write")
    /\ row' = IF req[c].found <=> row # NoRow
              THEN [buckets |-> req[c].buckets, backed |-> StoresLines(c)]
              ELSE row
    /\ Finish(c)
    /\ Overtakes(c)

\* PatchRegions sets the named buckets, whatever the row has become meanwhile.
OverrideWrites(c) ==
    /\ Doing(c, {"override"}, "write")
    /\ row' = IF row = NoRow THEN row
              ELSE [row EXCEPT !.buckets = [k \in Keys |-> IF IsManual(req[c].buckets[k])
                                                           THEN req[c].buckets[k] ELSE @[k]]]
    /\ Finish(c)
    /\ Overtakes(c)

DeleteWrites(c) ==
    /\ Doing(c, Removals, "write")
    /\ row' = NoRow
    /\ Finish(c)
    /\ Overtakes(c)

\* The writer stops between two calls, as often as it may.
Crash(c) ==
    /\ ~At(c, "idle")
    /\ behind' = [behind EXCEPT ![c] = {}]
    /\ Finish(c)
    /\ UNCHANGED row

StoreNext ==
    \E c \in Clients :
        \/ Begin(c) \/ HealReads(c) \/ AddReads(c) \/ OverrideReads(c) \/ DeleteReads(c)
        \/ UpsertFinds(c) \/ UpsertWrites(c) \/ OverrideWrites(c) \/ DeleteWrites(c)
        \/ Crash(c)

StoreSpec == StoreInit /\ [][StoreNext]_vars

------------------------------------------------------------------------------
\* One client's request, in the given step, is what moves now.
Moves(c, ops, pc) == Doing(c, ops, pc) /\ req'[c] # req[c]

\* Every write of the split-up writers is one step of SnapshotRow on the row as it
\* is, unless the request has missed a write that hurts it: no job loses an
\* override, no anchor is rewritten, an add never touches a row that exists
\* (SnapshotStore.Upsert, HistoryService.PatchRegions and Add).
ImplementsSnapshotRow ==
    Init /\ [][Next \/ \E c \in Clients :
                          Moves(c, AllOperations, "write") /\ ~Undisturbed(c)]_row

\* What a job and a user leave of each other's rows: a heal changes only rows
\* that a job has stored lines in, so it creates none and leaves total-only and
\* manual rows alone (snapshot_recompute.go, "forward-only"); an unforced delete
\* removes no bucket of the job (ErrCronProtected).  Both decide on a row read
\* in an earlier call, so each is broken by one overlap, and by no other: the heal
\* by the deletion or the addition of the row in between, the delete by a job.
GuardedRowsStay ==
    [][\A c \in Clients : row' # row =>
        /\ Moves(c, {"heal"}, "write") /\ ~row.backed =>
               behind[c] \cap {"add", "delete"} # {}
        /\ Moves(c, {"delete"}, "write") /\ HasCron(row) => "job" \in behind[c]]_vars

\* A row with lines has a bucket for every tracked currency, and a row with a
\* bucket of the job has lines: what a heal selects by the lines, it may rewrite
\* in full, and nothing of the job is out of its reach (PortfolioSnapshot.Lines).
Explained(r) ==
    /\ r.backed => \A k \in Currencies : r.buckets[k] # NoBucket
    /\ HasCron(r) => r.backed
LinesExplainRow == Explained(row)

\* No writer breaks that, whatever it overlaps: only a row of an earlier version
\* can be without (SnapshotStore.Upsert and PatchRegions).
LinesStayExplained == [][LinesExplainRow => LinesExplainRow']_vars

\* A job changes a bucket of the user only if, between its read and its write, someone
\* else than a job wrote the row, or a job that had itself missed such a write
\* (SnapshotStore.Upsert): which overlaps cost an override, where NoOverrideLost
\* says that none does.
OverridesSurviveJobs ==
    [][\A c \in Clients, k \in Keys :
        Moves(c, Jobs, "write") /\ IsManual(row.buckets[k]) /\ row'.buckets[k] # row.buckets[k]
            => ~(behind[c] \subseteq {"job"})]_vars

\* SnapshotStore.Upsert's own claim: no cron run ever clobbers a manual override.
NoOverrideLost ==
    [][\A c \in Clients, k \in Keys :
        Moves(c, {"cron"}, "write") /\ IsManual(row.buckets[k])
            => row'.buckets[k] = row.buckets[k]]_vars
==============================================================================
