--------------------------- MODULE SchemaMigrations ---------------------------
(***************************************************************************)
(* The boot of server instances against the gold database                  *)
(* (db/postgres.go, connectPostgres of cmd/serve.go).  Each instance pings *)
(* the database, takes an advisory lock, reads which migrations are        *)
(* recorded and applies the others its image embeds, one transaction per   *)
(* file together with its version row.  An instance that fails serves      *)
(* without gold.  Images of a rolling release embed more or fewer files.   *)
(*                                                                         *)
(* The lock belongs to a connection: it goes with an unlock, with the      *)
(* process and with the pool, which a failed boot closes.                  *)
(***************************************************************************)
EXTENDS Integers, Sequences, SequencesExt

CONSTANTS
    Instances,
    Files,        \* the migrations, in order of their numeric prefix
    MaxFailures   \* calls that may fail and instances that may stop

VARIABLES
    schema,    \* the migrations whose statements are committed, in that order
    recorded,  \* the versions in schema_migrations
    lock,      \* the instance whose connection holds the lock, or Nobody
    boot,      \* what each instance is at, and what it knows
    failures

schemaVars == <<schema, recorded, lock, boot, failures>>

Nobody == "nobody"
\* left: the places, among the files of the image, of those still to apply.
Off == [pc |-> "off", files |-> <<>>, left |-> {}, why |-> "none"]

ASSUME FilesAreDistinct == Files \in Seq(ToSet(Files)) /\ IsInjective(Files)
ASSUME NobodyIsNoInstance == Nobody \notin Instances
ASSUME FailureBound == MaxFailures \in Nat

SchemaInit ==
    /\ schema = <<>>
    /\ recorded = {}
    /\ lock = Nobody
    /\ boot = [i \in Instances |-> Off]
    /\ failures = 0

At(i, pc) == boot[i].pc = pc
MoveTo(i, pc) == boot' = [boot EXCEPT ![i].pc = pc]
Without(i) == IF lock = i THEN Nobody ELSE lock

\* An image embeds the migrations up to some version (orderMigrations).
Start(i) ==
    /\ At(i, "off")
    /\ \E n \in 0..Len(Files) :
        boot' = [boot EXCEPT ![i] = [Off EXCEPT !.pc = "ping", !.files = SubSeq(Files, 1, n)]]
    /\ UNCHANGED <<schema, recorded, lock, failures>>

Ping(i) ==
    /\ At(i, "ping")
    /\ MoveTo(i, "lock")
    /\ UNCHANGED <<schema, recorded, lock, failures>>

\* Faulty variant: nobody waits for anybody.
Lock_NoWait(i) ==
    /\ At(i, "lock")
    /\ lock' = i
    /\ MoveTo(i, "read")
    /\ UNCHANGED <<schema, recorded, failures>>

Lock(i) ==
    /\ At(i, "lock")
    /\ lock = Nobody
    /\ lock' = i
    /\ MoveTo(i, "read")
    /\ UNCHANGED <<schema, recorded, failures>>

\* The table of versions is created if need be, and read.
ReadApplied(i) ==
    /\ At(i, "read")
    /\ boot' = [boot EXCEPT ![i].pc = "apply",
                            ![i].left = {k \in DOMAIN boot[i].files : boot[i].files[k] \notin recorded}]
    /\ UNCHANGED <<schema, recorded, lock, failures>>

\* The boot ends without gold; the pool, and with it the lock, is closed.
GivenUp(i, why) == [boot[i] EXCEPT !.pc = "noGold", !.left = {}, !.why = why]
GiveUp(i, why) ==
    /\ boot' = [boot EXCEPT ![i] = GivenUp(i, why)]
    /\ lock' = Without(i)

\* The next file in the order of the image.
First(places) == {k \in places : \A j \in places : k <= j}
Advanced(i, k) == [boot[i] EXCEPT !.left = @ \ {k}]

\* The statements and the version row of a file commit together; a version that
\* has been recorded meanwhile is refused by the primary key.
Apply(i) ==
    /\ At(i, "apply")
    /\ \E k \in First(boot[i].left) :
        LET file    == boot[i].files[k]
            refused == file \in recorded
        IN  /\ schema' = IF refused THEN schema ELSE Append(schema, file)
            /\ recorded' = recorded \cup {file}
            /\ boot' = [boot EXCEPT ![i] = IF refused THEN GivenUp(i, "conflict")
                                           ELSE Advanced(i, k)]
            /\ lock' = IF refused THEN Without(i) ELSE lock
    /\ UNCHANGED failures

Applied(i) ==
    /\ At(i, "apply") /\ boot[i].left = {}
    /\ MoveTo(i, "unlock")
    /\ UNCHANGED <<schema, recorded, lock, failures>>

Unlock(i) ==
    /\ At(i, "unlock")
    /\ MoveTo(i, "up")
    /\ lock' = Without(i)
    /\ UNCHANGED <<schema, recorded, failures>>

\* The sixty seconds ended after the last migration: the unlock is not sent, the
\* boot goes on and the connection returns to the pool with the lock.
UnlockTooLate(i) ==
    /\ At(i, "unlock")
    /\ MoveTo(i, "up")
    /\ failures < MaxFailures /\ failures' = failures + 1
    /\ UNCHANGED <<schema, recorded, lock>>

\* The pool of a running instance closes the connection some day.
Recycle(i) ==
    /\ At(i, "up") /\ lock = i
    /\ lock' = Nobody
    /\ UNCHANGED <<schema, recorded, boot, failures>>

\* The sixty seconds are over before the lock was free.
WaitEnds(i) ==
    /\ At(i, "lock") /\ lock # Nobody
    /\ GiveUp(i, "waited")
    /\ UNCHANGED <<schema, recorded, failures>>

\* Faulty variant: the statements of a file stay although its version was not
\* recorded.
CallFails_KeepsStatements(i) ==
    /\ boot[i].pc \in {"ping", "lock", "read", "apply"}
    /\ failures < MaxFailures /\ failures' = failures + 1
    /\ GiveUp(i, "failed")
    /\ schema' \in IF boot[i].left = {} THEN {schema}
                   ELSE {Append(schema, boot[i].files[k]) : k \in First(boot[i].left)}
    /\ UNCHANGED recorded

\* A call fails or runs out of time; a transaction under way is rolled back.
CallFails(i) ==
    /\ boot[i].pc \in {"ping", "lock", "read", "apply"}
    /\ failures < MaxFailures /\ failures' = failures + 1
    /\ GiveUp(i, "failed")
    /\ UNCHANGED <<schema, recorded>>

\* The instance is stopped, in the middle of its boot or later.
Stop(i) ==
    /\ ~At(i, "off")
    /\ failures < MaxFailures /\ failures' = failures + 1
    /\ boot' = [boot EXCEPT ![i] = Off]
    /\ lock' = Without(i)
    /\ UNCHANGED <<schema, recorded>>

SchemaNext ==
    \E i \in Instances :
        \/ Start(i) \/ Ping(i) \/ Lock(i) \/ ReadApplied(i) \/ Apply(i) \/ Applied(i)
        \/ Unlock(i) \/ UnlockTooLate(i) \/ Recycle(i) \/ WaitEnds(i)
        \/ CallFails(i) \/ Stop(i)

------------------------------------------------------------------------------
\* "A failed migration leaves no half-applied state and the next boot retries it
\* ... a fresh database is only migrated once" (postgres.go:39-48).  However
\* instances of several releases boot, fail and stop, the schema is the recorded
\* migrations in their order, each applied once; an instance serves gold only on
\* all of its own migrations, and goes without gold only because a call of its
\* own failed or its wait for the lock ran out, never because another instance
\* applied what it was about to apply.
SchemaIsWhole ==
    /\ schema = SubSeq(Files, 1, Len(schema))
    /\ recorded = ToSet(schema)
    /\ \A i \in Instances :
        /\ boot[i].pc = "up" => ToSet(boot[i].files) \subseteq recorded
        /\ boot[i].pc = "noGold" => boot[i].why \in {"failed", "waited"}
==============================================================================
