---------------------------- MODULE RolloutProofs ----------------------------
(***************************************************************************)
(* What holds of a release for any number of instances, migrations,        *)
(* commands, holdings and failures: the schema of the gold database is     *)
(* whole, and the positions of the document database stay explained by     *)
(* their ledgers.                                                          *)
(***************************************************************************)
EXTENDS Rollout, FiniteSetTheorems, TLAPS

------------------------------------------------------------------------------
(***************************************************************************)
(* The schema.  Only the holder of the lock is between the reading of the  *)
(* versions and the unlock, so what it read stays true, and the files it   *)
(* has left are the ones that come after the schema.                       *)
(***************************************************************************)
Pcs == {"off", "ping", "lock", "read", "apply", "unlock", "up", "noGold"}
BootType == [pc : Pcs, files : Seq(ToSet(Files)), left : SUBSET Nat,
             why : {"none", "failed", "waited", "conflict"}]

\* An image, or a schema, holds the first of the files.
Prefix(s) == Len(s) <= Len(Files) /\ \A k \in 1..Len(s) : s[k] = Files[k]

Migrated ==
    /\ schema \in Seq(ToSet(Files)) /\ Prefix(schema)
    /\ recorded = {Files[k] : k \in 1..Len(schema)}

Booting(i) ==
    /\ Prefix(boot[i].files)
    /\ boot[i].pc \in {"read", "apply", "unlock"} => lock = i
    /\ boot[i].pc = "apply" => boot[i].left = (Len(schema) + 1)..Len(boot[i].files)
    /\ boot[i].pc \in {"unlock", "up"} => Len(boot[i].files) <= Len(schema)
    /\ boot[i].pc = "noGold" => boot[i].why \in {"failed", "waited"}

SchemaInv ==
    /\ Migrated
    /\ boot \in [Instances -> BootType]
    /\ lock \in Instances \cup {Nobody}
    /\ \A i \in Instances : Booting(i)

LEMMA FilesAreASequence == Files \in Seq(ToSet(Files)) /\ Len(Files) \in Nat
                           /\ \A j, k \in 1..Len(Files) : Files[j] = Files[k] => j = k
  BY FilesAreDistinct DEF IsInjective

\* What is recorded, of the files of an image.
LEMMA RecordedFiles ==
  ASSUME Migrated, NEW s \in Seq(ToSet(Files)), Prefix(s), NEW k \in 1..Len(s)
  PROVE  s[k] \in recorded <=> k <= Len(schema)
  BY FilesAreASequence DEF Migrated, Prefix

\* The boot of the others, and the schema under it, when i moves.
LEMMA OthersBoot ==
  ASSUME SchemaInv, NEW i \in Instances, NEW j \in Instances \ {i},
         boot'[j] = boot[j], UNCHANGED schema,
         lock' = lock \/ lock \in {Nobody, i}
  PROVE  Booting(j)'
  <1>1. Booting(j) /\ Nobody \notin Instances
    BY NobodyIsNoInstance DEF SchemaInv
  <1>2. QED
    BY <1>1 DEF Booting, Prefix

LEMMA OffIsTyped == Off \in BootType /\ Off.pc = "off" /\ Prefix(Off.files)
  BY FilesAreASequence DEF Off, BootType, Pcs, Prefix

\* The steps that leave the schema alone.
LEMMA QuietBoot ==
  ASSUME SchemaInv, NEW i \in Instances, UNCHANGED <<schema, recorded>>,
         NEW now \in BootType, boot' = [boot EXCEPT ![i] = now],
         lock' \in Instances \cup {Nobody}, lock' = lock \/ lock \in {Nobody, i},
         Prefix(now.files),
         now.pc \in {"read", "apply", "unlock"} => lock' = i,
         now.pc = "apply" => now.left = (Len(schema) + 1)..Len(now.files),
         now.pc \in {"unlock", "up"} => Len(now.files) <= Len(schema),
         now.pc = "noGold" => now.why \in {"failed", "waited"}
  PROVE  SchemaInv'
  <1>1. Migrated'
    BY DEF SchemaInv, Migrated, Prefix
  <1>2. boot' \in [Instances -> BootType] /\ boot'[i] = now
    BY DEF SchemaInv
  <1>3. \A j \in Instances \ {i} : boot'[j] = boot[j]
    BY DEF SchemaInv
  <1>4. \A j \in Instances \ {i} : Booting(j)'
    BY <1>3, OthersBoot
  <1>5. Booting(i)'
    BY <1>2 DEF Booting, Prefix
  <1>6. QED
    BY <1>1, <1>2, <1>4, <1>5 DEF SchemaInv

\* The next file of the holder of the lock is the one after the schema, and is
\* not recorded.
LEMMA NextFile ==
  ASSUME SchemaInv, NEW i \in Instances, At(i, "apply"), NEW k \in First(boot[i].left)
  PROVE  /\ k = Len(schema) + 1 /\ k \in 1..Len(boot[i].files) /\ k <= Len(Files)
         /\ boot[i].files[k] = Files[k] /\ Files[k] \notin recorded
         /\ Files[k] \in ToSet(Files) /\ lock = i
  <1>1. /\ boot[i].left = (Len(schema) + 1)..Len(boot[i].files) /\ lock = i
        /\ boot[i].files \in Seq(ToSet(Files)) /\ Prefix(boot[i].files)
        /\ schema \in Seq(ToSet(Files)) /\ Migrated
    BY DEF SchemaInv, Booting, BootType, Migrated, At
  <1>2. Len(schema) \in Nat /\ Len(boot[i].files) \in Nat
    BY <1>1
  <1>3. k \in (Len(schema) + 1)..Len(boot[i].files)
        /\ \A j \in (Len(schema) + 1)..Len(boot[i].files) : k <= j
    BY <1>1 DEF First
  <1>4. k = Len(schema) + 1 /\ k \in 1..Len(boot[i].files)
    BY <1>2, <1>3
  <1>5. boot[i].files[k] = Files[k] /\ k <= Len(Files)
    BY <1>1, <1>2, <1>4, FilesAreASequence DEF Prefix
  <1>6. boot[i].files[k] \notin recorded
    BY <1>1, <1>2, <1>4, RecordedFiles
  <1>7. Files[k] \in ToSet(Files)
    BY <1>4, <1>5, FilesAreASequence DEF ToSet
  <1>8. QED
    BY <1>1, <1>4, <1>5, <1>6, <1>7

LEMMA ApplyKeepsSchema ==
  ASSUME SchemaInv, NEW i \in Instances, Apply(i)
  PROVE  SchemaInv'
  <1> DEFINE m == Len(schema)
  <1>1. PICK k \in First(boot[i].left) :
          LET file    == boot[i].files[k]
              refused == file \in recorded
          IN  /\ schema' = IF refused THEN schema ELSE Append(schema, file)
              /\ recorded' = recorded \cup {file}
              /\ boot' = [boot EXCEPT ![i] = IF refused THEN GivenUp(i, "conflict")
                                             ELSE Advanced(i, k)]
              /\ lock' = IF refused THEN Without(i) ELSE lock
    BY Zenon DEF Apply
  <1> DEFINE now == Advanced(i, k)
  <1>2. /\ k = m + 1 /\ k \in 1..Len(boot[i].files) /\ k <= Len(Files)
        /\ boot[i].files[k] = Files[k] /\ Files[k] \notin recorded
        /\ Files[k] \in ToSet(Files) /\ lock = i
    BY NextFile DEF Apply
  <1>3. /\ schema' = Append(schema, Files[k]) /\ recorded' = recorded \cup {Files[k]}
        /\ boot' = [boot EXCEPT ![i] = now] /\ lock' = i
    BY <1>1, <1>2
  <1>4. /\ schema \in Seq(ToSet(Files)) /\ m \in Nat /\ Prefix(schema)
        /\ recorded = {Files[j] : j \in 1..m}
        /\ boot[i] \in BootType /\ Booting(i) /\ boot[i].pc = "apply"
    BY DEF SchemaInv, Migrated, Apply, At
  <1>5. /\ schema' \in Seq(ToSet(Files)) /\ Len(schema') = m + 1
        /\ \A j \in 1..m + 1 : schema'[j] = Files[j]
    BY <1>2, <1>3, <1>4 DEF Prefix
  <1>6. Migrated'
    <2>1. recorded' = {Files[j] : j \in 1..m + 1}
      BY <1>2, <1>3, <1>4
    <2>2. QED
      BY <1>2, <1>5, <2>1 DEF Migrated, Prefix
  <1>7. /\ now \in BootType /\ now.pc = "apply" /\ now.files = boot[i].files
        /\ now.left = boot[i].left \ {k}
    BY <1>4 DEF BootType, Advanced
  <1>8. now.left = (m + 2)..Len(now.files)
    <2>1. boot[i].left = (m + 1)..Len(boot[i].files) /\ Len(boot[i].files) \in Nat
      BY <1>4 DEF Booting, BootType
    <2>2. \A a, b \in Nat : ((a + 1)..b) \ {a + 1} = (a + 2)..b
      OBVIOUS
    <2>3. boot[i].left \ {k} = (m + 2)..Len(boot[i].files)
      BY <1>2, <1>4, <2>1, <2>2
    <2>4. QED
      BY <1>7, <2>3
  <1> HIDE DEF now
  <1>9. Booting(i)'
    <2>1. boot'[i] = now
      BY <1>3 DEF SchemaInv
    <2>2. Prefix(now.files)
      BY <1>4, <1>7 DEF Booting
    <2>3. m + 2 = Len(schema') + 1
      BY <1>4, <1>5
    <2>4. QED
      BY <1>3, <1>7, <1>8, <2>1, <2>2, <2>3 DEF Booting, Prefix
  <1>10. ASSUME NEW j \in Instances \ {i} PROVE Booting(j)'
    <2>1. boot'[j] = boot[j] /\ lock # j
      BY <1>2, <1>3 DEF SchemaInv
    <2>2. Booting(j) /\ boot[j].files \in Seq(ToSet(Files))
      BY DEF SchemaInv, BootType
    <2>3. QED
      BY <1>4, <1>5, <2>1, <2>2 DEF Booting, Prefix
  <1>11. boot' \in [Instances -> BootType]
    BY <1>3, <1>7 DEF SchemaInv
  <1>12. QED
    BY <1>3, <1>6, <1>9, <1>10, <1>11 DEF SchemaInv

LEMMA StepKeepsSchema ==
  ASSUME SchemaInv, NEW i \in Instances,
         \/ Start(i) \/ Ping(i) \/ Lock(i) \/ ReadApplied(i) \/ Apply(i) \/ Applied(i)
         \/ Unlock(i) \/ UnlockTooLate(i) \/ Recycle(i) \/ WaitEnds(i)
         \/ CallFails(i) \/ Stop(i)
  PROVE  SchemaInv'
  <1>1. /\ boot[i] \in BootType /\ Booting(i) /\ Prefix(boot[i].files)
        /\ boot[i].files \in Seq(ToSet(Files)) /\ Len(boot[i].files) \in Nat
        /\ lock \in Instances \cup {Nobody} /\ Nobody \notin Instances
        /\ Migrated /\ Len(schema) \in Nat
    BY NobodyIsNoInstance DEF SchemaInv, Booting, BootType, Migrated
  <1> DEFINE to(pc) == [boot[i] EXCEPT !.pc = pc]
             givenUp(why) == [boot[i] EXCEPT !.pc = "noGold", !.left = {}, !.why = why]
  <1>2. ASSUME NEW pc \in Pcs
        PROVE  /\ to(pc) \in BootType /\ to(pc).pc = pc /\ to(pc).files = boot[i].files
               /\ to(pc).left = boot[i].left /\ to(pc).why = boot[i].why
    BY <1>1 DEF BootType
  <1>3. ASSUME NEW why \in {"failed", "waited"}
        PROVE  /\ givenUp(why) \in BootType /\ givenUp(why).pc = "noGold"
               /\ givenUp(why).files = boot[i].files /\ givenUp(why).why = why
    BY <1>1 DEF BootType, Pcs
  <1>4. Without(i) \in Instances \cup {Nobody} /\ (Without(i) = lock \/ lock \in {Nobody, i})
    BY <1>1 DEF Without
  <1>5. CASE Start(i)
    <2> DEFINE image(n) == [Off EXCEPT !.pc = "ping", !.files = SubSeq(Files, 1, n)]
    <2>1. PICK n \in 0..Len(Files) : boot' = [boot EXCEPT ![i] = image(n)]
      BY <1>5, Zenon DEF Start
    <2>2. SubSeq(Files, 1, n) \in Seq(ToSet(Files)) /\ Prefix(SubSeq(Files, 1, n))
      BY FilesAreASequence DEF Prefix
    <2>3. image(n) \in BootType /\ image(n).pc = "ping" /\ image(n).files = SubSeq(Files, 1, n)
      BY <2>2 DEF Off, BootType, Pcs
    <2> HIDE DEF image
    <2>4. UNCHANGED <<schema, recorded, lock>>
      BY <1>5 DEF Start
    <2>5. QED
      BY <1>1, <2>1, <2>2, <2>3, <2>4, QuietBoot
  <1>6. CASE Ping(i)
    <2>1. boot' = [boot EXCEPT ![i] = to("lock")] /\ UNCHANGED <<schema, recorded, lock>>
      BY <1>6, Zenon DEF Ping, MoveTo
    <2> HIDE DEF to
    <2>2. QED
      BY <1>1, <1>2, <2>1, QuietBoot DEF Pcs
  <1>7. CASE Lock(i)
    <2>1. /\ boot' = [boot EXCEPT ![i] = to("read")] /\ UNCHANGED <<schema, recorded>>
          /\ lock = Nobody /\ lock' = i
      BY <1>7, Zenon DEF Lock, MoveTo
    <2> HIDE DEF to
    <2>2. QED
      BY <1>1, <1>2, <2>1, QuietBoot DEF Pcs
  <1>8. CASE ReadApplied(i)
    <2> DEFINE left == {k \in DOMAIN boot[i].files : boot[i].files[k] \notin recorded}
               now == [boot[i] EXCEPT !.pc = "apply", !.left = left]
    <2>1. /\ boot' = [boot EXCEPT ![i] = now] /\ UNCHANGED <<schema, recorded, lock>>
          /\ boot[i].pc = "read"
      BY <1>8, Zenon DEF ReadApplied, At
    <2>2. left = (Len(schema) + 1)..Len(boot[i].files)
      <3>1. DOMAIN boot[i].files = 1..Len(boot[i].files)
        BY <1>1
      <3>2. \A k \in 1..Len(boot[i].files) : boot[i].files[k] \in recorded <=> k <= Len(schema)
        BY <1>1, RecordedFiles
      <3>3. QED
        BY <1>1, <3>1, <3>2
    <2>3. left \subseteq Nat
      BY <1>1, <2>2
    <2> HIDE DEF left
    <2>4. now \in BootType /\ now.pc = "apply" /\ now.left = left /\ now.files = boot[i].files
      BY <1>1, <2>3 DEF BootType, Pcs
    <2> HIDE DEF now
    <2>5. lock = i
      BY <1>1, <2>1 DEF Booting
    <2>6. QED
      BY <1>1, <2>1, <2>2, <2>4, <2>5, QuietBoot
  <1>9. CASE Apply(i)
    BY <1>9, ApplyKeepsSchema
  <1>10. CASE Applied(i)
    <2>1. /\ boot' = [boot EXCEPT ![i] = to("unlock")] /\ UNCHANGED <<schema, recorded, lock>>
          /\ boot[i].pc = "apply" /\ boot[i].left = {}
      BY <1>10, Zenon DEF Applied, MoveTo, At
    <2>2. lock = i /\ Len(boot[i].files) <= Len(schema)
      <3>1. lock = i /\ (Len(schema) + 1)..Len(boot[i].files) = {}
        BY <1>1, <2>1 DEF Booting
      <3>2. Len(boot[i].files) \notin (Len(schema) + 1)..Len(boot[i].files)
        BY <3>1
      <3>3. QED
        BY <1>1, <3>1, <3>2
    <2> HIDE DEF to
    <2>3. QED
      BY <1>1, <1>2, <2>1, <2>2, QuietBoot DEF Pcs
  <1>11. CASE Unlock(i) \/ UnlockTooLate(i)
    <2>1. /\ boot' = [boot EXCEPT ![i] = to("up")] /\ UNCHANGED <<schema, recorded>>
          /\ boot[i].pc = "unlock" /\ lock' \in {lock, Without(i)}
      BY <1>11, Zenon DEF Unlock, UnlockTooLate, MoveTo, At
    <2>2. lock = i /\ Len(boot[i].files) <= Len(schema)
      BY <1>1, <2>1 DEF Booting
    <2> HIDE DEF to
    <2>3. QED
      BY <1>1, <1>2, <1>4, <2>1, <2>2, QuietBoot DEF Pcs
  <1>12. CASE Recycle(i)
    <2>1. /\ boot' = [boot EXCEPT ![i] = boot[i]] /\ UNCHANGED <<schema, recorded>>
          /\ boot[i].pc = "up" /\ lock = i /\ lock' = Nobody
      BY <1>12 DEF Recycle, At, SchemaInv
    <2>2. Len(boot[i].files) <= Len(schema)
      BY <1>1, <2>1 DEF Booting
    <2>3. QED
      BY <1>1, <2>1, <2>2, QuietBoot
  <1>13. CASE WaitEnds(i) \/ CallFails(i)
    <2>1. PICK why \in {"failed", "waited"} :
            /\ boot' = [boot EXCEPT ![i] = givenUp(why)] /\ UNCHANGED <<schema, recorded>>
            /\ lock' = Without(i)
      BY <1>13, Zenon DEF WaitEnds, CallFails, GiveUp, GivenUp
    <2> HIDE DEF givenUp
    <2>2. QED
      BY <1>1, <1>3, <1>4, <2>1, QuietBoot
  <1>14. CASE Stop(i)
    <2>1. /\ boot' = [boot EXCEPT ![i] = Off] /\ UNCHANGED <<schema, recorded>>
          /\ lock' = Without(i)
      BY <1>14 DEF Stop
    <2>2. QED
      BY <1>1, <1>4, <2>1, OffIsTyped, QuietBoot
  <1>15. QED
    BY <1>5, <1>6, <1>7, <1>8, <1>9, <1>10, <1>11, <1>12, <1>13, <1>14

\* What the invariant says of the schema, in the words of SchemaIsWhole.
LEMMA SchemaInvSuffices == SchemaInv => SchemaIsWhole
  <1> SUFFICES ASSUME SchemaInv PROVE SchemaIsWhole
    OBVIOUS
  <1>1. /\ schema \in Seq(ToSet(Files)) /\ Len(schema) \in Nat /\ Len(schema) <= Len(Files)
        /\ \A k \in 1..Len(schema) : schema[k] = Files[k]
        /\ recorded = {Files[k] : k \in 1..Len(schema)}
    BY DEF SchemaInv, Migrated, Prefix
  <1>2. schema = SubSeq(Files, 1, Len(schema))
    BY <1>1, FilesAreASequence
  <1>3. recorded = ToSet(schema)
    <2>1. DOMAIN schema = 1..Len(schema)
      BY <1>1
    <2>2. QED
      BY <1>1, <2>1 DEF ToSet
  <1>4. ASSUME NEW i \in Instances, boot[i].pc = "up"
        PROVE  ToSet(boot[i].files) \subseteq recorded
    <2>1. /\ boot[i].files \in Seq(ToSet(Files)) /\ Prefix(boot[i].files)
          /\ Len(boot[i].files) <= Len(schema) /\ Len(boot[i].files) \in Nat
      BY <1>4 DEF SchemaInv, Booting, BootType
    <2>2. DOMAIN boot[i].files = 1..Len(boot[i].files)
      BY <2>1
    <2>3. \A k \in DOMAIN boot[i].files : boot[i].files[k] = Files[k] /\ k \in 1..Len(schema)
      BY <1>1, <2>1, <2>2 DEF Prefix
    <2>4. QED
      BY <1>1, <2>3 DEF ToSet
  <1>5. ASSUME NEW i \in Instances, boot[i].pc = "noGold"
        PROVE  boot[i].why \in {"failed", "waited"}
    BY <1>5 DEF SchemaInv, Booting
  <1>6. QED
    BY <1>2, <1>3, <1>4, <1>5 DEF SchemaIsWhole

\* However many instances of whatever releases boot, fail and stop, the schema is
\* the recorded migrations in their order, each applied once, and an instance that
\* serves gold has all of its own.
THEOREM SchemaIsWholeHolds == Spec => []SchemaIsWhole
<1>1. Init => SchemaInv
  BY OffIsTyped DEF Init, SchemaInit, SchemaInv, Migrated, Prefix, Booting
<1>2. SchemaInv /\ [Next]_vars => SchemaInv'
  <2> SUFFICES ASSUME SchemaInv, [Next]_vars PROVE SchemaInv'
    OBVIOUS
  <2>1. CASE UNCHANGED schemaVars
    BY <2>1 DEF schemaVars, SchemaInv, Migrated, Prefix, Booting
  <2>2. CASE SchemaNext
    BY <2>2, StepKeepsSchema DEF SchemaNext
  <2>3. QED
    BY <2>1, <2>2 DEF Next, Boots, RunsCommands, vars
<1>3. QED
  BY <1>1, <1>2, SchemaInvSuffices, PTL DEF Spec
------------------------------------------------------------------------------
(***************************************************************************)
(* The positions.  A holding without a ledger still has the position it    *)
(* came with, and a command that is about to seed one has listed it as it  *)
(* is, unless a copy came between.                                         *)
(***************************************************************************)
HoldingFields == {"owner", "script", "raw", "position"}
RunFields == {"op", "pc", "users", "todo", "seen", "holding", "found", "left", "alone"}

FirstPositions == {InitialHeld[h].position : h \in DOMAIN InitialHeld}
                    \cup {Source[i].position : i \in DOMAIN Source}

IsSequence(s) == s \in Seq(ToSet(s))

HoldingsInv ==
    /\ held = [h \in Ids |-> held[h]] /\ events = [h \in Ids |-> events[h]]
    /\ \A h \in Ids : /\ held[h] \in {NoHolding, Gone} \/ DOMAIN held[h] = HoldingFields
                      /\ IsSequence(events[h])
                      /\ held[h] = NoHolding => events[h] = <<>>

PositionInv ==
    \A h \in Present \ (copied \cup crossed) :
        IF HasAny(h) THEN Explains(events[h], held[h].position)
        ELSE held[h].position \in FirstPositions

\* A holding nothing has been said of yet.
Unseeded(h) == h \in Present \ copied /\ ~HasAny(h)

Tracks(x) ==
    /\ DOMAIN x = RunFields
    /\ \A h \in x.todo : /\ h \in Ids /\ held[h] # NoHolding
                         /\ Unseeded(h) => x.seen[h].position = held[h].position
    /\ x.op = "transactions" /\ x.pc = "insert" => x.holding \in x.todo /\ x.found = <<>>
    /\ x.op \in {"copy", "mirror"} => x.left \in Seq(ToSet(Source))
                                      /\ (x.pc = "insert" => x.left # <<>>)

RunsInv == run = [r \in Runs |-> run[r]] /\ \A r \in Runs : Tracks(run[r])

DataInv == HoldingsInv /\ PositionInv /\ RunsInv

LEMMA AppendIsSequence ==
  ASSUME NEW s, IsSequence(s), NEW e
  PROVE  IsSequence(Append(s, e)) /\ Append(s, e) # <<>>
  <1> DEFINE S == ToSet(s) \cup {e}
             t == Append(s, e)
  <1>1. s \in Seq(S) /\ Len(s) \in Nat
    BY DEF IsSequence
  <1>2. t \in Seq(S) /\ Len(t) = Len(s) + 1
    BY <1>1
  <1>3. \A k \in 1..Len(t) : t[k] \in ToSet(t)
    BY <1>2 DEF ToSet
  <1>4. t \in Seq(ToSet(t))
    BY <1>2, <1>3
  <1>5. QED
    BY <1>1, <1>2, <1>4 DEF IsSequence

LEMMA IdleTracks == Tracks(Idle) /\ Idle.todo = {}
  BY DEF Tracks, Idle, RunFields

\* What a command knows stays true while nobody touches an unseeded holding.
LEMMA TracksStay ==
  ASSUME NEW x, Tracks(x),
         \A h \in Ids : held[h] # NoHolding => held'[h] # NoHolding,
         \A h \in Ids : held[h] # NoHolding /\ Unseeded(h)'
                          => Unseeded(h) /\ held'[h].position = held[h].position
  PROVE  Tracks(x)'
  BY DEF Tracks

\* What the steps do to the holdings and their ledgers.
HoldingKept(h) ==
    /\ held'[h] \in {NoHolding, Gone} \/ DOMAIN held'[h] = HoldingFields
    /\ IsSequence(events'[h])
    /\ held'[h] = NoHolding => events'[h] = <<>>
    /\ held[h] # NoHolding => held'[h] # NoHolding
    /\ held[h] # NoHolding /\ Unseeded(h)' => Unseeded(h) /\ held'[h].position = held[h].position
    /\ h \in (Present \ (copied \cup crossed))' =>
          IF HasAny(h)' THEN Explains(events'[h], held'[h].position)
          ELSE held'[h].position \in FirstPositions

LEMMA KeptHoldings ==
  ASSUME held' = [h \in Ids |-> held'[h]], events' = [h \in Ids |-> events'[h]],
         \A h \in Ids : HoldingKept(h)
  PROVE  HoldingsInv' /\ PositionInv'
  BY DEF HoldingsInv, PositionInv, HoldingKept, Present

\* A holding nothing happens to, or whose owner or currency alone changes.
LEMMA SamePosition ==
  ASSUME DataInv, NEW h \in Ids, UNCHANGED events, copied \subseteq copied', crossed \subseteq crossed',
         \/ held'[h] = held[h]
         \/ h \in Present /\ DOMAIN held'[h] = HoldingFields /\ held'[h].position = held[h].position
  PROVE  HoldingKept(h)
  <1>1. DOMAIN NoHolding = {"owner"} /\ DOMAIN Gone = {"owner"} /\ "position" \in HoldingFields
    BY DEF NoHolding, Gone, HoldingFields
  <1>2. held'[h] # held[h] => held'[h] \notin {NoHolding, Gone} /\ h \in Present
    BY <1>1 DEF HoldingFields
  <1>3. (h \in Present') => h \in Present /\ held'[h].position = held[h].position
    BY <1>2 DEF Present
  <1>4. QED
    BY <1>2, <1>3 DEF HoldingKept, DataInv, HoldingsInv, PositionInv, Unseeded, HasAny, Present
\* A step of one command.
LEMMA OneRun ==
  ASSUME DataInv, NEW r \in Runs, NEW now, run' = [run EXCEPT ![r] = now],
         Tracks(now)', \A h \in Ids : HoldingKept(h)
  PROVE  RunsInv'
  <1>1. run = [o \in Runs |-> run[o]] /\ \A o \in Runs : Tracks(run[o])
    BY DEF DataInv, RunsInv
  <1>2. \A x : Tracks(x) => Tracks(x)'
    BY TracksStay DEF HoldingKept
  <1>3. run' = [o \in Runs |-> run'[o]] /\ run'[r] = now /\ \A o \in Runs \ {r} : run'[o] = run[o]
    BY <1>1
  <1>4. \A o \in Runs \ {r} : Tracks(run[o])'
    BY <1>1, <1>2, <1>3 DEF Tracks
  <1>5. Tracks(run[r])'
    BY <1>3 DEF Tracks
  <1>6. QED
    BY <1>3, <1>4, <1>5 DEF RunsInv

LEMMA NoStepKept ==
  ASSUME DataInv, UNCHANGED <<held, events, copied, crossed>>
  PROVE  /\ \A h \in Ids : HoldingKept(h)
         /\ HoldingsInv' /\ PositionInv' /\ \A x : Tracks(x) => Tracks(x)'
  <1>1. \A h \in Ids : HoldingKept(h)
    BY SamePosition
  <1>2. QED
    BY <1>1, KeptHoldings, TracksStay DEF HoldingKept, DataInv, HoldingsInv

\* A step of one command that leaves the holdings alone.
LEMMA QuietRun ==
  ASSUME DataInv, UNCHANGED <<held, events, copied, crossed>>,
         NEW r \in Runs, NEW now, run' = [run EXCEPT ![r] = now], Tracks(now)
  PROVE  DataInv'
  <1>1. Tracks(now)'
    BY NoStepKept
  <1>2. QED
    BY <1>1, NoStepKept, OneRun DEF DataInv

LEMMA FinishKeeps ==
  ASSUME DataInv, UNCHANGED <<held, events, copied, crossed>>, NEW r \in Runs, Finish(r)
  PROVE  DataInv'
  BY QuietRun, IdleTracks DEF Finish

LEMMA BeginKeeps ==
  ASSUME DataInv, NEW r \in Runs, Begin(r)
  PROVE  DataInv'
  <1> DEFINE others == {o \in Runs \ {r} : run[o] # Idle}
             fresh(op) ==
               [Idle EXCEPT !.op = op, !.users = Users, !.left = Source,
                            !.pc = IF op = "mirror" THEN "clear" ELSE "next",
                            !.alone = others = {}]
             met(o) == [run[o] EXCEPT !.alone = FALSE]
  <1>1. UNCHANGED <<held, events, copied, crossed>>
    BY DEF Begin, marks
  <1>2. \E op \in Commands :
          run' = [o \in Runs |-> IF o = r THEN fresh(op)
                                 ELSE IF o \in others THEN met(o) ELSE run[o]]
    BY DEF Begin
  <1>3. PICK op \in Commands :
          run' = [o \in Runs |-> IF o = r THEN fresh(op)
                                 ELSE IF o \in others THEN met(o) ELSE run[o]]
    BY <1>2
  <1>4. Tracks(fresh(op))
    BY LegacyHoldings DEF Tracks, Idle, RunFields
  <1>5. ASSUME NEW o \in Runs PROVE Tracks(met(o))
    <2>1. Tracks(run[o])
      BY DEF DataInv, RunsInv
    <2>2. /\ DOMAIN met(o) = RunFields /\ met(o).todo = run[o].todo /\ met(o).seen = run[o].seen
          /\ met(o).op = run[o].op /\ met(o).pc = run[o].pc /\ met(o).left = run[o].left
          /\ met(o).found = run[o].found /\ met(o).holding = run[o].holding
      BY <2>1 DEF Tracks, RunFields
    <2> HIDE DEF met
    <2>3. QED
      BY <2>1, <2>2 DEF Tracks
  <1> HIDE DEF fresh, met
  <1>6. \A o \in Runs : \E x : run'[o] = x /\ Tracks(x)
    BY <1>3, <1>4, <1>5 DEF DataInv, RunsInv
  <1>7. \A o \in Runs : Tracks(run[o])'
    BY <1>1, <1>6, NoStepKept DEF Tracks
  <1>8. run' = [o \in Runs |-> run'[o]]
    BY <1>3
  <1>9. QED
    BY <1>1, <1>7, <1>8, NoStepKept DEF DataInv, RunsInv

\* A command moves on without a look at the holdings.
LEMMA MovesKeep ==
  ASSUME DataInv, NEW r \in Runs, NEW pc, run' = [run EXCEPT ![r].pc = pc],
         run[r].op # "transactions",
         run[r].op \in {"copy", "mirror"} /\ pc = "insert" => run[r].left # <<>>,
         \A h \in Ids : HoldingKept(h)
  PROVE  RunsInv'
  <1>1. PICK now : now = [run[r] EXCEPT !.pc = pc]
    OBVIOUS
  <1>2. Tracks(run[r])
    BY DEF DataInv, RunsInv
  <1>3. /\ DOMAIN now = RunFields /\ now.todo = run[r].todo /\ now.seen = run[r].seen
        /\ now.op = run[r].op /\ now.pc = pc /\ now.left = run[r].left
    BY <1>1, <1>2 DEF Tracks, RunFields
  <1>4. run' = [run EXCEPT ![r] = now]
    BY <1>1
  <1>5. Tracks(now)
    BY <1>2, <1>3 DEF Tracks
  <1>6. Tracks(now)'
    BY <1>5, TracksStay DEF HoldingKept
  <1>7. QED
    BY <1>4, <1>6, OneRun

LEMMA AssignKeeps ==
  ASSUME DataInv, NEW r \in Runs, AssignUnownedTo(r)
  PROVE  DataInv'
  <1>1. PICK user : held' = [h \in Ids |-> IF h \in ListByUser(Unowned)
                                           THEN [held[h] EXCEPT !.owner = user] ELSE held[h]]
    BY DEF AssignUnownedTo
  <1>2. UNCHANGED <<events, copied, crossed>> /\ Finish(r)
    BY DEF AssignUnownedTo
  <1>3. ASSUME NEW h \in Ids PROVE HoldingKept(h)
    <2>1. CASE h \in ListByUser(Unowned)
      <3>1. h \in Present /\ DOMAIN held[h] = HoldingFields
        BY <2>1 DEF ListByUser, Present, DataInv, HoldingsInv
      <3>2. held'[h] = [held[h] EXCEPT !.owner = user]
        BY <1>1, <2>1
      <3>3. DOMAIN held'[h] = HoldingFields /\ held'[h].position = held[h].position
        BY <3>1, <3>2 DEF HoldingFields
      <3>4. QED
        BY <1>2, <3>1, <3>3, SamePosition
    <2>2. CASE h \notin ListByUser(Unowned)
      BY <1>1, <1>2, <2>2, SamePosition
    <2>3. QED
      BY <2>1, <2>2
  <1>4. HoldingsInv' /\ PositionInv'
    BY <1>1, <1>2, <1>3, KeptHoldings DEF DataInv, HoldingsInv
  <1>5. Tracks(Idle)'
    BY IdleTracks DEF Tracks
  <1>6. QED
    BY <1>2, <1>3, <1>4, <1>5, OneRun DEF DataInv, Finish

LEMMA CanonicalizeKeeps ==
  ASSUME DataInv, NEW r \in Runs, CanonicalizeHoldings(r)
  PROVE  DataInv'
  <1>1. held' = [h \in Ids |-> IF h \in Present THEN [held[h] EXCEPT !.raw = FALSE] ELSE held[h]]
    BY DEF CanonicalizeHoldings
  <1>2. /\ UNCHANGED <<events, copied, crossed>> /\ run[r].op = "currencies"
        /\ run' = [run EXCEPT ![r].pc = "events"]
    BY DEF CanonicalizeHoldings, Doing, marks
  <1>3. ASSUME NEW h \in Ids PROVE HoldingKept(h)
    <2>1. CASE h \in Present
      <3>1. DOMAIN held[h] = HoldingFields /\ held'[h] = [held[h] EXCEPT !.raw = FALSE]
        BY <1>1, <2>1 DEF Present, DataInv, HoldingsInv
      <3>2. DOMAIN held'[h] = HoldingFields /\ held'[h].position = held[h].position
        BY <3>1 DEF HoldingFields
      <3>3. QED
        BY <1>2, <2>1, <3>2, SamePosition
    <2>2. CASE h \notin Present
      BY <1>1, <1>2, <2>2, SamePosition
    <2>3. QED
      BY <2>1, <2>2
  <1>4. HoldingsInv' /\ PositionInv'
    BY <1>1, <1>2, <1>3, KeptHoldings DEF DataInv, HoldingsInv
  <1>5. RunsInv'
    BY <1>2, <1>3, MovesKeep
  <1>6. QED
    BY <1>4, <1>5 DEF DataInv
LEMMA ListKeeps ==
  ASSUME DataInv, NEW r \in Runs, ListHoldings(r)
  PROVE  DataInv'
  <1> DEFINE mine == ListByUser(Head(run[r].users))
  <1>1. PICK now : now = [run[r] EXCEPT !.users = Tail(run[r].users), !.todo = mine,
                                        !.seen = [h \in mine |-> held[h]]]
    OBVIOUS
  <1>2. /\ UNCHANGED <<held, events, copied, crossed>> /\ run' = [run EXCEPT ![r] = now]
        /\ run[r].op = "transactions" /\ run[r].pc = "next"
    BY <1>1 DEF ListHoldings, marks, Doing
  <1>3. DOMAIN run[r] = RunFields
    BY DEF DataInv, RunsInv, Tracks
  <1>4. /\ DOMAIN now = RunFields /\ now.todo = mine /\ now.seen = [h \in mine |-> held[h]]
        /\ now.op = "transactions" /\ now.pc = "next"
    BY <1>1, <1>2, <1>3 DEF RunFields
  <1>5. \A h \in mine : h \in Ids /\ held[h] # NoHolding
    BY DEF ListByUser, Present
  <1> HIDE DEF mine
  <1>6. Tracks(now)
    BY <1>4, <1>5 DEF Tracks
  <1>7. QED
    BY <1>2, <1>6, QuietRun

LEMMA CheckKeeps ==
  ASSUME DataInv, NEW r \in Runs, CheckLedger(r)
  PROVE  DataInv'
  <1>1. PICK h \in run[r].todo :
          run' = IF Empty(run[r].seen[h].position) \/ HasAny(h)
                 THEN [run EXCEPT ![r].todo = @ \ {h}]
                 ELSE [run EXCEPT ![r].pc = "insert", ![r].holding = h, ![r].found = events[h]]
    BY DEF CheckLedger
  <1>2. UNCHANGED <<held, events, copied, crossed>> /\ Tracks(run[r])
        /\ run[r].op = "transactions" /\ run[r].pc = "next"
    BY DEF CheckLedger, marks, DataInv, RunsInv, Doing
  <1>3. CASE Empty(run[r].seen[h].position) \/ HasAny(h)
    <2>1. PICK now : now = [run[r] EXCEPT !.todo = run[r].todo \ {h}]
      OBVIOUS
    <2>2. run' = [run EXCEPT ![r] = now]
      BY <1>1, <1>3, <2>1
    <2>3. /\ DOMAIN now = RunFields /\ now.todo = run[r].todo \ {h} /\ now.seen = run[r].seen
          /\ now.op = "transactions" /\ now.pc = "next"
      BY <1>2, <2>1 DEF Tracks, RunFields
    <2>4. Tracks(now)
      BY <1>2, <2>3 DEF Tracks
    <2>5. QED
      BY <1>2, <2>2, <2>4, QuietRun
  <1>4. CASE ~(Empty(run[r].seen[h].position) \/ HasAny(h))
    <2>1. PICK now : now = [run[r] EXCEPT !.pc = "insert", !.holding = h, !.found = events[h]]
      OBVIOUS
    <2>2. run' = [run EXCEPT ![r] = now]
      BY <1>1, <1>4, <2>1
    <2>3. /\ DOMAIN now = RunFields /\ now.todo = run[r].todo /\ now.seen = run[r].seen
          /\ now.op = "transactions" /\ now.holding = h /\ now.found = events[h]
      BY <1>2, <2>1 DEF Tracks, RunFields
    <2>4. events[h] = <<>>
      BY <1>4 DEF HasAny
    <2>5. Tracks(now)
      BY <1>2, <2>3, <2>4 DEF Tracks
    <2>6. QED
      BY <1>2, <2>2, <2>5, QuietRun
  <1>5. QED
    BY <1>3, <1>4

\* The opening explains the position it was made of, which is still the one held
\* unless a copy or a change of the ledger came between.
LEMMA InsertOpeningKeeps ==
  ASSUME DataInv, NEW r \in Runs, InsertOpening(r)
  PROVE  DataInv'
  <1>0. PICK h, opening : h = run[r].holding /\ opening = Opening(run[r].seen[h].position)
    OBVIOUS
  <1>1. /\ events' = [events EXCEPT ![h] = Append(events[h], opening)]
        /\ crossed' = IF events[h] # run[r].found THEN crossed \cup {h} ELSE crossed
        /\ UNCHANGED <<held, copied>>
        /\ run[r].op = "transactions" /\ run[r].pc = "insert"
    BY <1>0 DEF InsertOpening, Doing
  <1>2. Tracks(run[r]) /\ h \in run[r].todo /\ run[r].found = <<>> /\ h \in Ids /\ held[h] # NoHolding
    BY <1>0, <1>1 DEF DataInv, RunsInv, Tracks
  <1>3. IsSequence(events[h])
    BY <1>2 DEF DataInv, HoldingsInv
  <1>4. IsSequence(Append(events[h], opening)) /\ Append(events[h], opening) # <<>>
    BY <1>3, AppendIsSequence
  <1>5. /\ events' = [g \in Ids |-> events'[g]]
        /\ events'[h] = Append(events[h], opening)
        /\ \A g \in Ids \ {h} : events'[g] = events[g]
    BY <1>1, <1>2 DEF DataInv, HoldingsInv
  <1>6. HoldingKept(h)
    <2>1. ASSUME h \in (Present \ (copied \cup crossed))'
          PROVE  Explains(events'[h], held'[h].position)
      <3>1. events[h] = <<>> /\ h \notin crossed
        BY <1>1, <1>2, <2>1
      <3>2. h \in Present \ (copied \cup crossed)
        BY <1>1, <2>1, <3>1 DEF Present
      <3>3. Unseeded(h) /\ held[h].position \in FirstPositions
        BY <3>1, <3>2 DEF Unseeded, HasAny, DataInv, PositionInv
      <3>4. run[r].seen[h].position = held[h].position
        BY <1>2, <3>3 DEF Tracks
      <3>5. events'[h] = <<opening>>
        BY <1>5, <3>1
      <3>6. QED
        BY <1>0, <1>1, <3>3, <3>4, <3>5, OpeningsExplain DEF FirstPositions
    <2>2. HasAny(h)'
      BY <1>4, <1>5 DEF HasAny
    <2>3. QED
      BY <1>1, <1>2, <1>4, <1>5, <2>1, <2>2
      DEF HoldingKept, Unseeded, DataInv, HoldingsInv, Present
  <1>7. ASSUME NEW g \in Ids \ {h} PROVE HoldingKept(g)
    <2>1. /\ events'[g] = events[g] /\ held' = held /\ copied' = copied
          /\ (g \in crossed' <=> g \in crossed)
      BY <1>1, <1>5
    <2>2. QED
      BY <2>1 DEF HoldingKept, DataInv, HoldingsInv, PositionInv, Unseeded, HasAny, Present
  <1>8. \A g \in Ids : HoldingKept(g)
    BY <1>6, <1>7
  <1>9. HoldingsInv' /\ PositionInv'
    BY <1>1, <1>5, <1>8, KeptHoldings DEF DataInv, HoldingsInv
  <1>10. PICK now : now = [run[r] EXCEPT !.pc = "next", !.todo = run[r].todo \ {h},
                                         !.holding = 0, !.found = <<>>]
    OBVIOUS
  <1>11. run' = [run EXCEPT ![r] = now]
    BY <1>0, <1>10 DEF InsertOpening
  <1>12. /\ DOMAIN now = RunFields /\ now.todo = run[r].todo \ {h} /\ now.seen = run[r].seen
         /\ now.op = "transactions" /\ now.pc = "next"
    BY <1>1, <1>2, <1>10 DEF Tracks, RunFields
  <1>13. Tracks(now)
    BY <1>2, <1>12 DEF Tracks
  <1>14. Tracks(now)'
    BY <1>8, <1>13, TracksStay DEF HoldingKept
  <1>15. QED
    BY <1>8, <1>9, <1>11, <1>14, OneRun DEF DataInv

------------------------------------------------------------------------------
\* Clearing takes holdings away; a copy brings one in, or replaces one.
LEMMA ClearKeeps ==
  ASSUME DataInv, NEW r \in Runs, Clear(r)
  PROVE  DataInv'
  <1>1. /\ held' = [h \in Ids |-> IF h \in ListByUser(Admin) THEN Gone ELSE held[h]]
        /\ UNCHANGED <<events, copied, crossed>>
        /\ run' = [run EXCEPT ![r].pc = "next"] /\ run[r].op = "mirror"
    BY DEF Clear, Doing, marks
  <1>2. Gone # NoHolding
    <2>1. Gone.owner # NoHolding.owner
      BY DEF Gone, NoHolding
    <2>2. QED
      BY <2>1
  <1>3. ASSUME NEW h \in Ids PROVE HoldingKept(h)
    <2>1. CASE h \in ListByUser(Admin)
      BY <1>1, <1>2, <2>1 DEF HoldingKept, DataInv, HoldingsInv, Present, Unseeded
    <2>2. CASE h \notin ListByUser(Admin)
      BY <1>1, <2>2, SamePosition
    <2>3. QED
      BY <2>1, <2>2
  <1>4. HoldingsInv' /\ PositionInv'
    BY <1>1, <1>3, KeptHoldings DEF DataInv, HoldingsInv
  <1>5. RunsInv'
    BY <1>1, <1>3, MovesKeep
  <1>6. QED
    BY <1>4, <1>5 DEF DataInv

LEMMA CopiedIsAHolding ==
  ASSUME NEW from
  PROVE  /\ DOMAIN Copied(from) = HoldingFields /\ Copied(from).position = from.position
         /\ Copied(from) \notin {NoHolding, Gone}
  <1>1. DOMAIN Copied(from) = HoldingFields /\ Copied(from).position = from.position
    BY DEF Copied, HoldingFields
  <1>2. DOMAIN NoHolding = {"owner"} /\ DOMAIN Gone = {"owner"}
    BY DEF NoHolding, Gone
  <1>3. QED
    BY <1>1, <1>2 DEF HoldingFields

LEMMA CopyStepRun ==
  ASSUME DataInv, NEW r \in Runs, run[r].op \in {"copy", "mirror"}, run[r].left # <<>>,
         NEW now, now = [run[r] EXCEPT !.left = Tail(run[r].left)]
                  \/ now = [run[r] EXCEPT !.pc = "next", !.left = Tail(run[r].left)],
         now.pc = "next" \/ run[r].pc # "insert"
  PROVE  Tracks(now) /\ Head(run[r].left) \in ToSet(Source)
  <1>1. Tracks(run[r]) /\ run[r].left \in Seq(ToSet(Source))
    BY DEF DataInv, RunsInv, Tracks
  <1>2. Tail(run[r].left) \in Seq(ToSet(Source)) /\ Head(run[r].left) \in ToSet(Source)
    BY <1>1
  <1>3. /\ DOMAIN now = RunFields /\ now.todo = run[r].todo /\ now.seen = run[r].seen
        /\ now.op = run[r].op /\ now.pc \in {run[r].pc, "next"} /\ now.left = Tail(run[r].left)
    BY <1>1 DEF Tracks, RunFields
  <1>4. QED
    BY <1>1, <1>2, <1>3 DEF Tracks

LEMMA UpsertMatchesKeeps ==
  ASSUME DataInv, NEW r \in Runs, UpsertMatches(r)
  PROVE  DataInv'
  <1> DEFINE from == Head(run[r].left)
  <1>1. /\ UNCHANGED <<events, crossed>> /\ run[r].left # <<>>
        /\ run[r].op \in {"copy", "mirror"} /\ run[r].pc = "next"
    BY DEF UpsertMatches, Doing
  <1>2. CASE Matching(from.script) = {}
    <2>1. run' = [run EXCEPT ![r].pc = "insert"] /\ UNCHANGED <<held, copied>>
      BY <1>2 DEF UpsertMatches
    <2>2. \A h \in Ids : HoldingKept(h)
      BY <1>1, <2>1, NoStepKept
    <2>3. RunsInv'
      BY <1>1, <2>1, <2>2, MovesKeep
    <2>4. QED
      BY <1>1, <2>1, <2>3, NoStepKept DEF DataInv
  <1>3. CASE Matching(from.script) # {}
    <2>1. PICK h \in Matching(from.script) :
            held' = [held EXCEPT ![h] = Copied(from)] /\ copied' = copied \cup {h}
      BY <1>3 DEF UpsertMatches
    <2>2. h \in Ids /\ h \in Present
      BY <2>1 DEF Matching, ListByUser, Present
    <2> DEFINE copy == Copied(from)
    <2>3. DOMAIN copy = HoldingFields /\ copy \notin {NoHolding, Gone}
      BY CopiedIsAHolding
    <2> HIDE DEF copy
    <2>4. /\ held' = [g \in Ids |-> held'[g]] /\ held'[h] = copy
          /\ \A g \in Ids \ {h} : held'[g] = held[g]
      BY <2>1, <2>2 DEF DataInv, HoldingsInv, copy
    <2>5. HoldingKept(h)
      BY <1>1, <2>1, <2>2, <2>3, <2>4 DEF HoldingKept, DataInv, HoldingsInv, Unseeded
    <2>6. ASSUME NEW g \in Ids \ {h} PROVE HoldingKept(g)
      BY <1>1, <2>1, <2>4 DEF HoldingKept, DataInv, HoldingsInv, PositionInv, Unseeded, HasAny, Present
    <2>7. HoldingsInv' /\ PositionInv'
      BY <1>1, <2>4, <2>5, <2>6, KeptHoldings DEF DataInv, HoldingsInv
    <2>8. PICK now : now = [run[r] EXCEPT !.left = Tail(run[r].left)]
      OBVIOUS
    <2>9. run' = [run EXCEPT ![r] = now]
      BY <1>3, <2>8 DEF UpsertMatches
    <2>10. Tracks(now)
      BY <1>1, <2>8, CopyStepRun
    <2>11. Tracks(now)'
      BY <2>5, <2>6, <2>10, TracksStay DEF HoldingKept
    <2>12. QED
      BY <2>5, <2>6, <2>7, <2>9, <2>11, OneRun DEF DataInv
  <1>4. QED
    BY <1>2, <1>3

LEMMA UpsertInsertsKeeps ==
  ASSUME DataInv, NEW r \in Runs, UpsertInserts(r)
  PROVE  DataInv'
  <1>0. PICK from, copy, h : from = Head(run[r].left) /\ copy = Copied(from) /\ h = Mint
    OBVIOUS
  <1>1. /\ UNCHANGED <<events, copied, crossed>> /\ held' = [held EXCEPT ![h] = copy]
        /\ run[r].op \in {"copy", "mirror"} /\ run[r].pc = "insert"
        /\ h \in Ids /\ held[h] = NoHolding
    BY <1>0 DEF UpsertInserts, Doing, Unminted
  <1>2. run[r].left # <<>>
    BY <1>1 DEF DataInv, RunsInv, Tracks
  <1>3. PICK now : now = [run[r] EXCEPT !.pc = "next", !.left = Tail(run[r].left)]
    OBVIOUS
  <1>4. run' = [run EXCEPT ![r] = now]
    BY <1>3 DEF UpsertInserts
  <1>5. now.pc = "next"
    BY <1>3 DEF DataInv, RunsInv, Tracks, RunFields
  <1>6. Tracks(now) /\ from \in ToSet(Source)
    BY <1>0, <1>1, <1>2, <1>3, <1>5, CopyStepRun
  <1>7. /\ DOMAIN copy = HoldingFields /\ copy \notin {NoHolding, Gone}
        /\ copy.position \in FirstPositions
    BY <1>0, <1>6, CopiedIsAHolding DEF FirstPositions, ToSet
  <1>8. /\ held' = [g \in Ids |-> held'[g]] /\ held'[h] = copy
        /\ \A g \in Ids \ {h} : held'[g] = held[g]
    BY <1>1 DEF DataInv, HoldingsInv
  <1>9. events[h] = <<>>
    BY <1>1 DEF DataInv, HoldingsInv
  <1>10. HoldingKept(h)
    BY <1>1, <1>7, <1>8, <1>9 DEF HoldingKept, DataInv, HoldingsInv, HasAny
  <1>11. ASSUME NEW g \in Ids \ {h} PROVE HoldingKept(g)
    BY <1>1, <1>8 DEF HoldingKept, DataInv, HoldingsInv, PositionInv, Unseeded, HasAny, Present
  <1>12. HoldingsInv' /\ PositionInv'
    BY <1>1, <1>8, <1>10, <1>11, KeptHoldings DEF DataInv, HoldingsInv
  <1>13. Tracks(now)'
    BY <1>6, <1>10, <1>11, TracksStay DEF HoldingKept
  <1>14. QED
    BY <1>4, <1>10, <1>11, <1>12, <1>13, OneRun DEF DataInv

\* A trade stores the position its ledger replays to.
LEMMA TradeKeeps ==
  ASSUME DataInv, NEW h \in Ids, Trade(h)
  PROVE  DataInv'
  <1> DEFINE buy == [type |-> "buy", date |-> 0, quantity |-> 1, amount |-> 1,
                     ratio |-> Zero, seed |-> 0, openingDate |-> Undated]
  <1>1. /\ h \in Present /\ UNCHANGED <<run, copied, crossed>>
        /\ events' = [events EXCEPT ![h] = Append(events[h], buy)]
        /\ held' = [held EXCEPT ![h].position = RecomputePosition(events'[h])]
    BY DEF Trade, marks
  <1> HIDE DEF buy
  <1>2. DOMAIN held[h] = HoldingFields /\ IsSequence(events[h]) /\ "position" \in HoldingFields
    BY <1>1 DEF DataInv, HoldingsInv, Present, HoldingFields
  <1>3. IsSequence(Append(events[h], buy)) /\ Append(events[h], buy) # <<>>
    BY <1>2, AppendIsSequence
  <1>4. /\ events' = [g \in Ids |-> events'[g]] /\ events'[h] = Append(events[h], buy)
        /\ \A g \in Ids \ {h} : events'[g] = events[g]
    BY <1>1 DEF DataInv, HoldingsInv
  <1>5. /\ held' = [g \in Ids |-> held'[g]]
        /\ held'[h] = [held[h] EXCEPT !.position = RecomputePosition(events'[h])]
        /\ \A g \in Ids \ {h} : held'[g] = held[g]
    BY <1>1 DEF DataInv, HoldingsInv
  <1>6. /\ DOMAIN held'[h] = HoldingFields
        /\ held'[h].position = RecomputePosition(events'[h])
    BY <1>2, <1>5
  <1>7. DOMAIN NoHolding = {"owner"} /\ "position" \notin {"owner"}
    BY DEF NoHolding
  <1>8. held'[h] # NoHolding
    BY <1>2, <1>6, <1>7
  <1>9. HoldingKept(h)
    <2>1. Explains(events'[h], held'[h].position) /\ HasAny(h)'
      BY <1>3, <1>4, <1>6 DEF Explains, HasAny
    <2>2. QED
      BY <1>3, <1>4, <1>6, <1>8, <2>1 DEF HoldingKept, Unseeded
  <1>10. ASSUME NEW g \in Ids \ {h} PROVE HoldingKept(g)
    <2>1. /\ events'[g] = events[g] /\ held'[g] = held[g]
          /\ UNCHANGED <<copied, crossed>>
      BY <1>1, <1>4, <1>5
    <2>2. QED
      BY <2>1 DEF HoldingKept, DataInv, HoldingsInv, PositionInv, Unseeded, HasAny, Present
  <1>11. HoldingsInv' /\ PositionInv'
    BY <1>4, <1>5, <1>9, <1>10, KeptHoldings
  <1>12. \A x : Tracks(x) => Tracks(x)'
    BY <1>9, <1>10, TracksStay DEF HoldingKept
  <1>13. RunsInv'
    BY <1>1, <1>12 DEF DataInv, RunsInv, Tracks
  <1>14. QED
    BY <1>11, <1>13 DEF DataInv

LEMMA DataBegins == Init => DataInv
<1> SUFFICES ASSUME DataInit PROVE DataInv
  BY DEF Init
<1>1. HoldingsInv /\ \A h \in Ids : ~HasAny(h)
  BY LegacyHoldings DEF DataInit, HoldingsInv, HasAny, IsSequence, HoldingFields
<1>2. PositionInv
  BY <1>1 DEF DataInit, PositionInv, FirstPositions, Present
<1>3. RunsInv
  BY IdleTracks DEF DataInit, RunsInv
<1>4. QED
  BY <1>1, <1>2, <1>3 DEF DataInv

LEMMA DataStays == DataInv /\ [Next]_vars => DataInv'
<1> SUFFICES ASSUME DataInv, [Next]_vars PROVE DataInv'
  OBVIOUS
<1>1. CASE UNCHANGED dataVars
  <2>1. UNCHANGED <<held, events, copied, crossed, run>>
    BY <1>1 DEF dataVars
  <2>2. QED
    BY <2>1, NoStepKept DEF DataInv, RunsInv, Tracks
<1>2. ASSUME NEW r \in Runs, CanonicalizeEvents(r) \/ TransactionsDone(r) \/ CopyDone(r) \/ Stops(r)
      PROVE  DataInv'
  BY <1>2, FinishKeeps DEF CanonicalizeEvents, TransactionsDone, CopyDone, Stops, marks
<1>3. ASSUME NEW r \in Runs, Command(r) PROVE DataInv'
  BY <1>2, <1>3, BeginKeeps, AssignKeeps, CanonicalizeKeeps, ListKeeps, CheckKeeps,
     InsertOpeningKeeps, ClearKeeps, UpsertMatchesKeeps, UpsertInsertsKeeps DEF Command
<1>4. QED
  BY <1>1, <1>2, <1>3, TradeKeeps DEF Next, Boots, RunsCommands, DataNext, vars

\* A holding that has events has the position they replay to, however often the
\* commands are run, together or half, beside the trades of its owner, unless a
\* copy replaced it or the ledger changed between a check and its seeding.
THEOREM PositionsAreExplainedHolds == Spec => []PositionsAreExplained
<1>1. DataInv => PositionsAreExplained
  BY DEF DataInv, PositionInv, PositionsAreExplained
<1>2. QED
  BY <1>1, DataBegins, DataStays, PTL DEF Spec

------------------------------------------------------------------------------
(***************************************************************************)
(* The commands.  While no other command runs, what one has still to do is *)
(* all that is left to do: trades neither move a holding between owners    *)
(* nor take a ledger away.                                                 *)
(***************************************************************************)
\* Owners have accounts, and the super admin holds a script once unless an
\* overlap has doubled it.
HoldersInv ==
    /\ stops \in Nat
    /\ \A h \in Present : held[h].owner \in ToSet(Users) \cup {Unowned}
    /\ \A g, h \in ListByUser(Admin) :
          held[g].script = held[h].script => g = h \/ held[h].script \in doubled

AloneInv == \A r \in Runs : run[r].alone => \A o \in Runs \ {r} : run[o] = Idle

ScriptsIn(list) == {list[i].script : i \in DOMAIN list}
ScriptsOfAdmin == {held[h].script : h \in ListByUser(Admin)}

\* A holding of an account that a seeding must not pass over.
ToSeed(h) ==
    /\ h \in Present /\ held[h].owner # Unowned /\ ~HasAny(h)
    /\ ~Empty(held[h].position)

\* What a command that runs alone has done so far.
CurrenciesSoFar(x) == x.pc = "events" => \A h \in Present : ~held[h].raw
SeedsSoFar(x) ==
    /\ x.users \in Seq(ToSet(Users))
    /\ \A h \in Ids : ToSeed(h) =>
          held[h].owner \in ToSet(x.users) \/ (h \in x.todo /\ x.seen[h].position = held[h].position)
CopiesSoFar(x) ==
    IF x.op = "mirror" /\ x.pc = "clear" THEN x.left = Source
    ELSE /\ ScriptsIn(Source) \subseteq ScriptsOfAdmin \cup ScriptsIn(x.left)
         /\ x.op = "mirror" => ScriptsOfAdmin \subseteq ScriptsIn(Source)
         /\ x.pc = "insert" => Matching(Head(x.left).script) = {}

Progress(x) ==
    x.alone => /\ x.op \in AllCommands
               /\ x.op = "currencies" => CurrenciesSoFar(x)
               /\ x.op = "transactions" => SeedsSoFar(x)
               /\ x.op \in {"copy", "mirror"} => CopiesSoFar(x)

DoneInv == HoldersInv /\ AloneInv /\ \A r \in Runs : Progress(run[r])

\* A step that mints nothing and changes neither owner nor script.
LEMMA HoldersStay ==
  ASSUME HoldersInv, stops' \in Nat, doubled \subseteq doubled',
         \A h \in Present' : /\ h \in Present /\ held'[h].owner = held[h].owner
                             /\ held'[h].script = held[h].script
  PROVE  HoldersInv'
  BY DEF HoldersInv, ListByUser

\* While a command takes a step, only it can be running alone.
LEMMA OneRunProgresses ==
  ASSUME DataInv, DoneInv, NEW r \in Runs, run[r] # Idle, NEW now, run' = [run EXCEPT ![r] = now],
         now.alone => run[r].alone, run[r].alone => Progress(now)', HoldersInv'
  PROVE  DoneInv'
  <1>1. run = [o \in Runs |-> run[o]]
    BY DEF DataInv, RunsInv
  <1>2. run'[r] = now /\ \A o \in Runs \ {r} : run'[o] = run[o]
    BY <1>1
  <1>3. \A o \in Runs \ {r} : ~run[o].alone
    BY DEF DoneInv, AloneInv
  <1>4. AloneInv'
    BY <1>2, <1>3 DEF DoneInv, AloneInv
  <1>5. ASSUME NEW o \in Runs PROVE Progress(run[o])'
    <2>1. CASE o = r
      <3>1. CASE run[r].alone
        BY <1>2, <2>1, <3>1 DEF Progress
      <3>2. CASE ~run[r].alone
        BY <1>2, <2>1, <3>2 DEF Progress
      <3>3. QED
        BY <3>1, <3>2
    <2>2. CASE o # r
      BY <1>2, <1>3, <2>2 DEF Progress
    <2>3. QED
      BY <2>1, <2>2
  <1>6. QED
    BY <1>4, <1>5 DEF DoneInv

LEMMA IdleIsDone == ~Idle.alone /\ Idle.op = "none"
  BY DEF Idle

LEMMA FinishProgresses ==
  ASSUME DataInv, DoneInv, NEW r \in Runs, run[r] # Idle, Finish(r), HoldersInv'
  PROVE  DoneInv'
  <1>1. Progress(Idle)'
    BY IdleIsDone DEF Progress
  <1>2. QED
    BY <1>1, IdleIsDone, OneRunProgresses DEF Finish

LEMMA HoldersQuiet ==
  ASSUME HoldersInv, UNCHANGED <<held, doubled>>, stops' \in Nat
  PROVE  HoldersInv'
  BY DEF HoldersInv, ListByUser, Present

LEMMA ProgressQuiet ==
  ASSUME NEW x, Progress(x), UNCHANGED <<held, events, rawEvents>>
  PROVE  Progress(x)'
  BY DEF Progress, CurrenciesSoFar, SeedsSoFar, CopiesSoFar, ToSeed, HasAny, Present,
         ScriptsOfAdmin, Matching, ListByUser

LEMMA BeginProgresses ==
  ASSUME DataInv, DoneInv, NEW r \in Runs, Begin(r)
  PROVE  DoneInv' /\ \A o \in Runs : run[o].alone => ~Ends(o)
  <1> DEFINE others == {o \in Runs \ {r} : run[o] # Idle}
             fresh(op) ==
               [Idle EXCEPT !.op = op, !.users = Users, !.left = Source,
                            !.pc = IF op = "mirror" THEN "clear" ELSE "next",
                            !.alone = others = {}]
             met(o) == [run[o] EXCEPT !.alone = FALSE]
  <1>1. UNCHANGED <<held, events, rawEvents, stops, doubled>> /\ run[r] = Idle
    BY DEF Begin, marks
  <1>2. PICK op \in Commands :
          run' = [o \in Runs |-> IF o = r THEN fresh(op)
                                 ELSE IF o \in others THEN met(o) ELSE run[o]]
    BY DEF Begin
  <1>3. /\ fresh(op).op = op /\ fresh(op).users = Users /\ fresh(op).left = Source
        /\ fresh(op).pc = (IF op = "mirror" THEN "clear" ELSE "next")
        /\ (fresh(op).alone <=> others = {})
    BY DEF Idle
  <1>4. \A o \in Runs : met(o).alone = FALSE /\ met(o).op = run[o].op
    BY DEF DataInv, RunsInv, Tracks, RunFields
  <1>f. PICK now : now = fresh(op)
    OBVIOUS
  <1> HIDE DEF fresh, met
  <1>5. /\ run'[r] = now /\ \A o \in others : run'[o] = met(o)
        /\ \A o \in Runs \ {r} : o \notin others => run'[o] = Idle
    BY <1>2, <1>f
  <1>6. HoldersInv'
    BY <1>1, HoldersQuiet DEF DoneInv, HoldersInv
  <1>7. \A o \in Runs \ {r} : ~run'[o].alone
    BY <1>4, <1>5, IdleIsDone
  <1>8. AloneInv'
    BY <1>3, <1>5, <1>7, <1>f DEF AloneInv
  <1>9. Progress(now)
    <2>1. op = "transactions" => SeedsSoFar(now)
      BY <1>3, <1>f, OwnersHaveAccounts DEF DoneInv, HoldersInv, SeedsSoFar, ToSeed, Present
    <2>2. op \in {"copy", "mirror"} => CopiesSoFar(now)
      BY <1>3, <1>f DEF CopiesSoFar
    <2>3. QED
      BY <1>3, <1>f, <2>1, <2>2, KnownCommands DEF Progress, CurrenciesSoFar
  <1>10. Progress(now)'
    BY <1>1, <1>9, ProgressQuiet
  <1>11. \A o \in Runs : Progress(run[o])'
    BY <1>5, <1>7, <1>10 DEF Progress
  <1>12. ASSUME NEW o \in Runs, run[o].alone PROVE ~Ends(o)
    <2>1. run[o].op \in AllCommands
      BY <1>12 DEF DoneInv, Progress
    <2>2. o # r
      BY <1>1, <1>12, IdleIsDone
    <2>3. CASE run[o] = Idle
      BY <2>3 DEF Ends
    <2>4. CASE run[o] # Idle
      <3>1. run'[o] = met(o)
        BY <1>5, <2>2, <2>4
      <3>2. run'[o].op # "none"
        BY <1>4, <2>1, <3>1 DEF AllCommands
      <3>3. QED
        BY <3>2, IdleIsDone DEF Ends
    <2>5. QED
      BY <2>3, <2>4
  <1>13. QED
    BY <1>6, <1>8, <1>11, <1>12 DEF DoneInv

\* In a step of one command only that one may end, and only a command that ends
\* leaves no operation behind.
LEMMA OneRunEnds ==
  ASSUME DataInv, DoneInv, NEW r \in Runs, run[r] # Idle, NEW now, run' = [run EXCEPT ![r] = now],
         now.op # "none", NEW o \in Runs, run[o].alone
  PROVE  ~Ends(o)
  <1>1. run'[r] = now /\ \A p \in Runs \ {r} : run'[p] = run[p]
    BY DEF DataInv, RunsInv
  <1>2. QED
    BY <1>1, IdleIsDone DEF Ends

LEMMA OnlyOneEnds ==
  ASSUME DataInv, DoneInv, NEW r \in Runs, Finish(r), NEW o \in Runs, Ends(o)
  PROVE  o = r
  <1>1. \A p \in Runs \ {r} : run'[p] = run[p]
    BY DEF Finish, DataInv, RunsInv
  <1>2. QED
    BY <1>1 DEF Ends

------------------------------------------------------------------------------
LEMMA AssignIsDone ==
  ASSUME DataInv, DoneInv, NEW r \in Runs, AssignUnownedTo(r)
  PROVE  DoneInv' /\ \A o \in Runs : Ends(o) /\ run[o].alone => Done(o)
  <1>1. PICK user \in ToSet(Users) :
          /\ held' = [h \in Ids |-> IF h \in ListByUser(Unowned)
                                    THEN [held[h] EXCEPT !.owner = user] ELSE held[h]]
          /\ doubled' = IF user = Admin
                        THEN doubled \cup {held[h].script : h \in ListByUser(Unowned)} ELSE doubled
    BY DEF AssignUnownedTo
  <1>2. Finish(r) /\ run[r].op = "users" /\ run[r] # Idle /\ stops' = stops
    BY IdleIsDone DEF AssignUnownedTo, Doing, kept
  <1>3. user # Unowned
    BY OwnersHaveAccounts
  <1>4. DOMAIN NoHolding = {"owner"} /\ DOMAIN Gone = {"owner"}
    BY DEF NoHolding, Gone
  <1>5. ASSUME NEW h \in ListByUser(Unowned)
        PROVE  /\ held'[h].owner = user /\ held'[h].script = held[h].script
               /\ h \in Present /\ h \in Present'
    <2>1. h \in Ids /\ h \in Present /\ DOMAIN held[h] = HoldingFields
      BY DEF ListByUser, Present, DataInv, HoldingsInv
    <2>2. held'[h] = [held[h] EXCEPT !.owner = user]
      BY <1>1, <2>1
    <2>3. DOMAIN held'[h] = HoldingFields /\ held'[h].owner = user /\ held'[h].script = held[h].script
      BY <2>1, <2>2 DEF HoldingFields
    <2>4. held'[h] \notin {NoHolding, Gone}
      BY <1>4, <2>3 DEF HoldingFields
    <2>5. QED
      BY <2>1, <2>3, <2>4 DEF Present
  <1>6. \A h \in Ids \ ListByUser(Unowned) : held'[h] = held[h]
    BY <1>1
  <1>7. \A h \in Ids : h \in Present' <=> h \in Present
    BY <1>5, <1>6 DEF Present
  <1>8. HoldersInv'
    <2>1. \A h \in Present' : held'[h].owner \in ToSet(Users) \cup {Unowned}
      BY <1>5, <1>6, <1>7 DEF DoneInv, HoldersInv, Present
    <2>2. ASSUME NEW g \in ListByUser(Admin)', NEW h \in ListByUser(Admin)',
                 held'[g].script = held'[h].script
          PROVE  g = h \/ held'[h].script \in doubled'
      <3>1. g \in Present /\ h \in Present /\ g \in Ids /\ h \in Ids
            /\ held'[g].owner = Admin /\ held'[h].owner = Admin
        BY <1>7 DEF ListByUser, Present
      <3>2. CASE g \in ListByUser(Unowned)
        <4>1. user = Admin /\ held'[g].script = held[g].script
          BY <1>5, <3>1, <3>2
        <4>2. held[g].script \in doubled'
          BY <1>1, <3>2, <4>1
        <4>3. QED
          BY <2>2, <4>1, <4>2
      <3>3. CASE h \in ListByUser(Unowned)
        <4>1. user = Admin /\ held'[h].script = held[h].script
          BY <1>5, <3>1, <3>3
        <4>2. held[h].script \in doubled'
          BY <1>1, <3>3, <4>1
        <4>3. QED
          BY <4>1, <4>2
      <3>4. CASE g \notin ListByUser(Unowned) /\ h \notin ListByUser(Unowned)
        <4>1. held'[g] = held[g] /\ held'[h] = held[h] /\ doubled \subseteq doubled'
          BY <1>1, <1>6, <3>1, <3>4
        <4>2. g \in ListByUser(Admin) /\ h \in ListByUser(Admin)
          BY <3>1, <4>1 DEF ListByUser
        <4>3. QED
          BY <2>2, <4>1, <4>2 DEF DoneInv, HoldersInv
      <3>5. QED
        BY <3>2, <3>3, <3>4
    <2>3. QED
      BY <1>2, <2>1, <2>2 DEF HoldersInv, DoneInv
  <1>9. ListByUser(Unowned)' = {}
    BY <1>3, <1>5, <1>6, <1>7 DEF ListByUser, Present
  <1>10. QED
    BY <1>2, <1>8, <1>9, FinishProgresses, OnlyOneEnds DEF Done

LEMMA HeadAndTail ==
  ASSUME NEW S, NEW list \in Seq(S), list # <<>>
  PROVE  /\ Tail(list) \in Seq(S) /\ Head(list) \in S
         /\ \A x : x \in ToSet(list) <=> x = Head(list) \/ x \in ToSet(Tail(list))
  <1>1. /\ Tail(list) \in Seq(S) /\ Head(list) \in S /\ Head(list) = list[1]
        /\ Len(list) \in Nat /\ Len(list) >= 1
        /\ Len(Tail(list)) = Len(list) - 1
        /\ \A i \in 1..(Len(list) - 1) : Tail(list)[i] = list[i + 1]
    OBVIOUS
  <1>2. ASSUME NEW x, x \in ToSet(list) PROVE x = Head(list) \/ x \in ToSet(Tail(list))
    <2>1. PICK i \in 1..Len(list) : list[i] = x
      BY <1>2 DEF ToSet
    <2>2. CASE i = 1
      BY <1>1, <2>1, <2>2
    <2>3. CASE i # 1
      <3>1. PICK j \in 1..(Len(list) - 1) : j + 1 = i
        BY <1>1, <2>3
      <3>2. j \in DOMAIN Tail(list) /\ Tail(list)[j] = x
        BY <1>1, <2>1, <3>1
      <3>3. QED
        BY <3>2 DEF ToSet
    <2>4. QED
      BY <2>2, <2>3
  <1>3. ASSUME NEW x, x = Head(list) \/ x \in ToSet(Tail(list)) PROVE x \in ToSet(list)
    <2>1. CASE x = Head(list)
      BY <1>1, <2>1 DEF ToSet
    <2>2. CASE x \in ToSet(Tail(list))
      <3>1. PICK j \in 1..(Len(list) - 1) : Tail(list)[j] = x
        BY <1>1, <2>2 DEF ToSet
      <3>2. j + 1 \in 1..Len(list) /\ list[j + 1] = x
        BY <1>1, <3>1
      <3>3. QED
        BY <1>1, <3>2 DEF ToSet
    <2>3. QED
      BY <1>3, <2>1, <2>2
  <1>4. QED
    BY <1>1, <1>2, <1>3

LEMMA CanonicalizeIsDone ==
  ASSUME DataInv, DoneInv, NEW r \in Runs, CanonicalizeHoldings(r)
  PROVE  DoneInv' /\ \A o \in Runs : run[o].alone => ~Ends(o)
  <1>1. /\ held' = [h \in Ids |-> IF h \in Present THEN [held[h] EXCEPT !.raw = FALSE] ELSE held[h]]
        /\ UNCHANGED <<stops, doubled>> /\ run[r].op = "currencies" /\ run[r] # Idle
    BY IdleIsDone DEF CanonicalizeHoldings, Doing, kept, marks
  <1>2. PICK now : now = [run[r] EXCEPT !.pc = "events"]
    OBVIOUS
  <1>3. run' = [run EXCEPT ![r] = now]
    BY <1>2 DEF CanonicalizeHoldings
  <1>4. now.op = "currencies" /\ now.alone = run[r].alone
    BY <1>1, <1>2 DEF DataInv, RunsInv, Tracks, RunFields
  <1>5. ASSUME NEW h \in Present'
        PROVE  /\ h \in Present /\ held'[h].owner = held[h].owner
               /\ held'[h].script = held[h].script /\ ~held'[h].raw
    <2>1. h \in Ids /\ (h \notin Present => held'[h] = held[h])
      BY <1>1 DEF Present
    <2>2. h \in Present
      BY <2>1 DEF Present
    <2>3. DOMAIN held[h] = HoldingFields /\ held'[h] = [held[h] EXCEPT !.raw = FALSE]
      BY <1>1, <2>1, <2>2 DEF Present, DataInv, HoldingsInv
    <2>4. QED
      BY <2>2, <2>3 DEF HoldingFields
  <1>6. HoldersInv'
    BY <1>1, <1>5, HoldersStay DEF DoneInv, HoldersInv
  <1>7. run[r].alone => Progress(now)'
    BY <1>4, <1>5 DEF Progress, CurrenciesSoFar, AllCommands
  <1>8. DoneInv'
    BY <1>1, <1>3, <1>4, <1>6, <1>7, OneRunProgresses
  <1>9. QED
    BY <1>1, <1>3, <1>4, <1>8, OneRunEnds

LEMMA CanonicalizeEventsIsDone ==
  ASSUME DataInv, DoneInv, NEW r \in Runs, CanonicalizeEvents(r)
  PROVE  DoneInv' /\ \A o \in Runs : Ends(o) /\ run[o].alone => Done(o)
  <1>1. /\ UNCHANGED <<held, stops, doubled>> /\ rawEvents' = {} /\ Finish(r)
        /\ run[r].op = "currencies" /\ run[r].pc = "events" /\ run[r] # Idle
    BY IdleIsDone DEF CanonicalizeEvents, Doing, kept, marks
  <1>2. HoldersInv'
    BY <1>1, HoldersQuiet DEF DoneInv, HoldersInv
  <1>3. run[r].alone => \A h \in Present : ~held[h].raw
    BY <1>1 DEF DoneInv, Progress, CurrenciesSoFar
  <1>4. run[r].alone => Done(r)
    BY <1>1, <1>3 DEF Done
  <1>5. QED
    BY <1>1, <1>2, <1>4, FinishProgresses, OnlyOneEnds

LEMMA ListIsDone ==
  ASSUME DataInv, DoneInv, NEW r \in Runs, ListHoldings(r)
  PROVE  DoneInv' /\ \A o \in Runs : run[o].alone => ~Ends(o)
  <1> DEFINE mine == ListByUser(Head(run[r].users))
  <1>1. PICK now : now = [run[r] EXCEPT !.users = Tail(run[r].users), !.todo = mine,
                                        !.seen = [h \in mine |-> held[h]]]
    OBVIOUS
  <1>2. /\ UNCHANGED <<held, events, rawEvents, stops, doubled>> /\ run' = [run EXCEPT ![r] = now]
        /\ run[r].op = "transactions" /\ run[r] # Idle /\ run[r].todo = {} /\ run[r].users # <<>>
    BY <1>1, IdleIsDone DEF ListHoldings, marks, kept, Doing
  <1>3. /\ now.users = Tail(run[r].users) /\ now.todo = mine
        /\ now.seen = [h \in mine |-> held[h]] /\ now.op = "transactions"
        /\ now.alone = run[r].alone
    BY <1>1, <1>2 DEF DataInv, RunsInv, Tracks, RunFields
  <1>4. HoldersInv'
    BY <1>2, HoldersQuiet DEF DoneInv, HoldersInv
  <1>5. ASSUME run[r].alone PROVE Progress(now)'
    <2>1. SeedsSoFar(run[r])
      BY <1>2, <1>5 DEF DoneInv, Progress
    <2>2. /\ Tail(run[r].users) \in Seq(ToSet(Users))
          /\ \A user \in ToSet(run[r].users) :
                user = Head(run[r].users) \/ user \in ToSet(Tail(run[r].users))
      BY <1>2, <2>1, HeadAndTail DEF SeedsSoFar
    <2>3. ASSUME NEW h \in Ids, ToSeed(h)
          PROVE  held[h].owner \in ToSet(now.users) \/ (h \in now.todo /\ now.seen[h].position = held[h].position)
      <3>1. held[h].owner \in ToSet(run[r].users)
        BY <1>2, <2>1, <2>3 DEF SeedsSoFar
      <3>2. CASE held[h].owner = Head(run[r].users)
        <4>1. h \in mine
          BY <2>3, <3>2 DEF ListByUser, ToSeed
        <4>2. QED
          BY <1>3, <4>1
      <3>3. CASE held[h].owner # Head(run[r].users)
        BY <1>3, <2>2, <3>1, <3>3
      <3>4. QED
        BY <3>2, <3>3
    <2>4. SeedsSoFar(now)
      BY <1>3, <2>2, <2>3 DEF SeedsSoFar
    <2>5. Progress(now)
      BY <1>3, <2>4 DEF Progress, AllCommands
    <2>6. QED
      BY <1>2, <2>5, ProgressQuiet
  <1> HIDE DEF mine
  <1>6. DoneInv'
    BY <1>2, <1>3, <1>4, <1>5, OneRunProgresses
  <1>7. QED
    BY <1>2, <1>3, <1>6, OneRunEnds

LEMMA CheckIsDone ==
  ASSUME DataInv, DoneInv, NEW r \in Runs, CheckLedger(r)
  PROVE  DoneInv' /\ \A o \in Runs : run[o].alone => ~Ends(o)
  <1>1. PICK h \in run[r].todo :
          run' = IF Empty(run[r].seen[h].position) \/ HasAny(h)
                 THEN [run EXCEPT ![r].todo = @ \ {h}]
                 ELSE [run EXCEPT ![r].pc = "insert", ![r].holding = h, ![r].found = events[h]]
    BY DEF CheckLedger
  <1>2. PICK now : /\ run' = [run EXCEPT ![r] = now]
                   /\ IF Empty(run[r].seen[h].position) \/ HasAny(h)
                      THEN now = [run[r] EXCEPT !.todo = run[r].todo \ {h}]
                      ELSE now = [run[r] EXCEPT !.pc = "insert", !.holding = h, !.found = events[h]]
    BY <1>1
  <1>3. /\ UNCHANGED <<held, events, rawEvents, stops, doubled>>
        /\ run[r].op = "transactions" /\ run[r] # Idle
    BY IdleIsDone DEF CheckLedger, marks, kept, Doing
  <1>4. /\ now.op = "transactions" /\ now.alone = run[r].alone /\ now.users = run[r].users
        /\ now.seen = run[r].seen
        /\ \A g \in run[r].todo :
              g \in now.todo \/ (g = h /\ (Empty(run[r].seen[h].position) \/ HasAny(h)))
    BY <1>2, <1>3 DEF DataInv, RunsInv, Tracks, RunFields
  <1>5. HoldersInv'
    BY <1>3, HoldersQuiet DEF DoneInv, HoldersInv
  <1>6. ASSUME run[r].alone PROVE Progress(now)'
    <2>1. SeedsSoFar(run[r])
      BY <1>3, <1>6 DEF DoneInv, Progress
    <2>2. SeedsSoFar(now)
      BY <1>4, <2>1 DEF SeedsSoFar, ToSeed
    <2>3. Progress(now)
      BY <1>4, <2>2 DEF Progress, AllCommands
    <2>4. QED
      BY <1>3, <2>3, ProgressQuiet
  <1>7. DoneInv'
    BY <1>2, <1>3, <1>4, <1>5, <1>6, OneRunProgresses
  <1>8. QED
    BY <1>2, <1>3, <1>4, <1>7, OneRunEnds

LEMMA InsertOpeningIsDone ==
  ASSUME DataInv, DoneInv, NEW r \in Runs, InsertOpening(r)
  PROVE  DoneInv' /\ \A o \in Runs : run[o].alone => ~Ends(o)
  <1>0. PICK h, opening : h = run[r].holding /\ opening = Opening(run[r].seen[h].position)
    OBVIOUS
  <1>1. /\ events' = [events EXCEPT ![h] = Append(events[h], opening)]
        /\ UNCHANGED <<held, stops, doubled>>
        /\ run[r].op = "transactions" /\ run[r].pc = "insert" /\ run[r] # Idle
    BY <1>0, IdleIsDone DEF InsertOpening, Doing, kept
  <1>2. h \in Ids /\ IsSequence(events[h]) /\ DOMAIN run[r] = RunFields
    BY <1>0, <1>1 DEF DataInv, RunsInv, Tracks, HoldingsInv
  <1>3. events'[h] # <<>> /\ \A g \in Ids \ {h} : events'[g] = events[g]
    BY <1>1, <1>2, AppendIsSequence DEF DataInv, HoldingsInv
  <1>4. PICK now : now = [run[r] EXCEPT !.pc = "next", !.todo = run[r].todo \ {h},
                                        !.holding = 0, !.found = <<>>]
    OBVIOUS
  <1>5. run' = [run EXCEPT ![r] = now]
    BY <1>0, <1>4 DEF InsertOpening
  <1>6. /\ now.op = "transactions" /\ now.alone = run[r].alone /\ now.users = run[r].users
        /\ now.seen = run[r].seen /\ now.todo = run[r].todo \ {h}
    BY <1>1, <1>2, <1>4 DEF RunFields
  <1>7. HoldersInv'
    BY <1>1, HoldersQuiet DEF DoneInv, HoldersInv
  <1>8. ASSUME run[r].alone PROVE Progress(now)'
    <2>1. SeedsSoFar(run[r])
      BY <1>1, <1>8 DEF DoneInv, Progress
    <2>2. \A g \in Ids : ToSeed(g)' => g # h /\ ToSeed(g) /\ held'[g] = held[g]
      BY <1>1, <1>3 DEF ToSeed, HasAny, Present
    <2>3. SeedsSoFar(now)'
      BY <1>6, <2>1, <2>2 DEF SeedsSoFar
    <2>4. QED
      BY <1>6, <2>3 DEF Progress, AllCommands
  <1>9. DoneInv'
    BY <1>1, <1>5, <1>6, <1>7, <1>8, OneRunProgresses
  <1>10. QED
    BY <1>1, <1>5, <1>6, <1>9, OneRunEnds

LEMMA TransactionsAreDone ==
  ASSUME DataInv, DoneInv, NEW r \in Runs, TransactionsDone(r)
  PROVE  DoneInv' /\ \A o \in Runs : Ends(o) /\ run[o].alone => Done(o)
  <1>1. /\ UNCHANGED <<held, events, stops, doubled>> /\ Finish(r)
        /\ run[r].op = "transactions" /\ run[r].todo = {} /\ run[r].users = <<>> /\ run[r] # Idle
    BY IdleIsDone DEF TransactionsDone, Doing, kept, marks
  <1>2. HoldersInv'
    BY <1>1, HoldersQuiet DEF DoneInv, HoldersInv
  <1>3. ASSUME run[r].alone, NEW h \in Present PROVE ~ToSeed(h)
    <2>1. SeedsSoFar(run[r])
      BY <1>1, <1>3 DEF DoneInv, Progress
    <2>2. QED
      BY <1>1, <2>1 DEF SeedsSoFar, ToSet, Present
  <1>4. run[r].alone => Done(r)
    BY <1>1, <1>3 DEF Done, ToSeed, Empty
  <1>5. QED
    BY <1>1, <1>2, <1>4, FinishProgresses, OnlyOneEnds

------------------------------------------------------------------------------
LEMMA ClearIsDone ==
  ASSUME DataInv, DoneInv, NEW r \in Runs, Clear(r)
  PROVE  DoneInv' /\ \A o \in Runs : run[o].alone => ~Ends(o)
  <1>1. /\ held' = [h \in Ids |-> IF h \in ListByUser(Admin) THEN Gone ELSE held[h]]
        /\ UNCHANGED <<stops, doubled>>
        /\ run[r].op = "mirror" /\ run[r].pc = "clear" /\ run[r] # Idle
    BY IdleIsDone DEF Clear, Doing, kept, marks
  <1>2. PICK now : now = [run[r] EXCEPT !.pc = "next"]
    OBVIOUS
  <1>3. run' = [run EXCEPT ![r] = now]
    BY <1>2 DEF Clear
  <1>4. /\ now.op = "mirror" /\ now.alone = run[r].alone /\ now.pc = "next"
        /\ now.left = run[r].left
    BY <1>1, <1>2 DEF DataInv, RunsInv, Tracks, RunFields
  <1>5. ASSUME NEW h \in Present'
        PROVE  h \in Present /\ held'[h] = held[h] /\ held[h].owner # Admin
    <2>1. h \notin ListByUser(Admin)
      BY <1>1 DEF Present
    <2>2. held'[h] = held[h]
      BY <1>1, <2>1 DEF Present
    <2>3. QED
      BY <2>1, <2>2 DEF Present, ListByUser
  <1>6. HoldersInv'
    BY <1>1, <1>5, HoldersStay DEF DoneInv, HoldersInv
  <1>7. ASSUME run[r].alone PROVE Progress(now)'
    <2>1. now.left = Source
      BY <1>1, <1>4, <1>7 DEF DoneInv, Progress, CopiesSoFar
    <2>2. ScriptsOfAdmin' = {}
      BY <1>5 DEF ScriptsOfAdmin, ListByUser
    <2>3. CopiesSoFar(now)'
      BY <1>4, <2>1, <2>2 DEF CopiesSoFar
    <2>4. QED
      BY <1>4, <2>3 DEF Progress, AllCommands
  <1>8. DoneInv'
    BY <1>1, <1>3, <1>4, <1>6, <1>7, OneRunProgresses
  <1>9. QED
    BY <1>1, <1>3, <1>4, <1>8, OneRunEnds

\* A script that is held needs no copy any more.
LEMMA LeftScripts ==
  ASSUME NEW list \in Seq(ToSet(Source)), list # <<>>
  PROVE  /\ \A script \in ScriptsIn(list) :
               script = Head(list).script \/ script \in ScriptsIn(Tail(list))
         /\ Head(list).script \in ScriptsIn(Source)
  <1>1. \A x : x \in ToSet(list) <=> x = Head(list) \/ x \in ToSet(Tail(list))
    BY HeadAndTail
  <1>2. \A any : ScriptsIn(any) = {x.script : x \in ToSet(any)}
    BY DEF ScriptsIn, ToSet
  <1>3. Head(list) \in ToSet(Source)
    BY HeadAndTail
  <1>4. \A script \in ScriptsIn(list) :
               script = Head(list).script \/ script \in ScriptsIn(Tail(list))
    <2>1. ASSUME NEW script \in ScriptsIn(list)
          PROVE  script = Head(list).script \/ script \in ScriptsIn(Tail(list))
      <3>1. PICK x \in ToSet(list) : x.script = script
        BY <1>2
      <3>2. CASE x = Head(list)
        BY <3>1, <3>2
      <3>3. CASE x \in ToSet(Tail(list))
        BY <1>2, <3>1, <3>3
      <3>4. QED
        BY <1>1, <3>2, <3>3
    <2>2. QED
      BY <2>1
  <1>5. QED
    BY <1>2, <1>3, <1>4

\* One more of the source is held.
LEMMA CopyProgresses ==
  ASSUME DataInv, NEW x, Tracks(x), x.op \in {"copy", "mirror"}, x.left # <<>>,
         ~(x.op = "mirror" /\ x.pc = "clear"), CopiesSoFar(x),
         NEW now, now.op = x.op, now.pc = "next", now.left = Tail(x.left),
         ScriptsOfAdmin' = ScriptsOfAdmin \cup {Head(x.left).script}
  PROVE  CopiesSoFar(now)'
  <1>1. x.left \in Seq(ToSet(Source))
    BY DEF Tracks
  <1>2. /\ \A script \in ScriptsIn(x.left) :
               script = Head(x.left).script \/ script \in ScriptsIn(Tail(x.left))
        /\ Head(x.left).script \in ScriptsIn(Source)
    BY <1>1, LeftScripts
  <1>3. /\ ScriptsIn(Source) \subseteq ScriptsOfAdmin \cup ScriptsIn(x.left)
        /\ x.op = "mirror" => ScriptsOfAdmin \subseteq ScriptsIn(Source)
    BY DEF CopiesSoFar
  <1>4. /\ ScriptsIn(Source) \subseteq ScriptsOfAdmin' \cup ScriptsIn(now.left)
        /\ x.op = "mirror" => ScriptsOfAdmin' \subseteq ScriptsIn(Source)
    BY <1>2, <1>3
  <1>5. QED
    BY <1>4 DEF CopiesSoFar, ScriptsIn

LEMMA UpsertMatchesIsDone ==
  ASSUME DataInv, DoneInv, NEW r \in Runs, UpsertMatches(r)
  PROVE  DoneInv' /\ \A o \in Runs : run[o].alone => ~Ends(o)
  <1>0. PICK from : from = Head(run[r].left)
    OBVIOUS
  <1>1. /\ UNCHANGED <<events, rawEvents, stops, doubled>> /\ run[r].left # <<>> /\ run[r] # Idle
        /\ run[r].op \in {"copy", "mirror"} /\ run[r].pc = "next" /\ Tracks(run[r])
    BY IdleIsDone DEF UpsertMatches, Doing, kept, DataInv, RunsInv
  <1>2. run[r].alone => CopiesSoFar(run[r])
    BY <1>1 DEF DoneInv, Progress
  <1>3. CASE Matching(from.script) = {}
    <2>1. PICK now : now = [run[r] EXCEPT !.pc = "insert"]
      OBVIOUS
    <2>2. run' = [run EXCEPT ![r] = now] /\ UNCHANGED held
      BY <1>0, <1>3, <2>1 DEF UpsertMatches
    <2>3. /\ now.op = run[r].op /\ now.alone = run[r].alone /\ now.pc = "insert"
          /\ now.left = run[r].left
      BY <1>1, <2>1 DEF Tracks, RunFields
    <2>4. HoldersInv'
      BY <1>1, <2>2, HoldersQuiet DEF DoneInv, HoldersInv
    <2>5. ASSUME run[r].alone PROVE Progress(now)'
      <3>1. CopiesSoFar(now)
        BY <1>0, <1>1, <1>2, <1>3, <2>3, <2>5 DEF CopiesSoFar
      <3>2. Progress(now)
        BY <1>1, <2>3, <3>1 DEF Progress, AllCommands
      <3>3. QED
        BY <1>1, <2>2, <3>2, ProgressQuiet
    <2>6. DoneInv'
      BY <1>1, <2>2, <2>3, <2>4, <2>5, OneRunProgresses
    <2>7. QED
      BY <1>1, <2>2, <2>3, <2>6, OneRunEnds
  <1>4. CASE Matching(from.script) # {}
    <2>1. PICK h \in Matching(from.script) : held' = [held EXCEPT ![h] = Copied(from)]
      BY <1>0, <1>4 DEF UpsertMatches
    <2>2. PICK now : now = [run[r] EXCEPT !.left = Tail(run[r].left)]
      OBVIOUS
    <2>3. run' = [run EXCEPT ![r] = now]
      BY <1>0, <1>4, <2>2 DEF UpsertMatches
    <2>4. /\ now.op = run[r].op /\ now.alone = run[r].alone /\ now.pc = "next"
          /\ now.left = Tail(run[r].left)
      BY <1>1, <2>2 DEF Tracks, RunFields
    <2>5. /\ h \in Present /\ h \in Ids /\ held[h].owner = Admin /\ held[h].script = from.script
          /\ h \in ListByUser(Admin)
      BY <2>1 DEF Matching, ListByUser, Present
    <2>6. /\ held'[h] = Copied(from) /\ \A g \in Ids \ {h} : held'[g] = held[g]
      BY <2>1, <2>5 DEF DataInv, HoldingsInv
    <2>7. Copied(from).owner = Admin /\ Copied(from).script = from.script
          /\ Copied(from) \notin {NoHolding, Gone}
      BY CopiedIsAHolding DEF Copied
    <2>8. \A g \in Ids : /\ g \in Present' <=> g \in Present
                         /\ held'[g].owner = held[g].owner /\ held'[g].script = held[g].script
      BY <2>5, <2>6, <2>7 DEF Present
    <2>9. HoldersInv'
      BY <1>1, <2>8, HoldersStay DEF DoneInv, HoldersInv, Present
    <2>10. ScriptsOfAdmin' = ScriptsOfAdmin
      <3>1. ListByUser(Admin)' = ListByUser(Admin)
        BY <2>8 DEF ListByUser, Present
      <3>2. \A g \in ListByUser(Admin) : held'[g].script = held[g].script
        BY <2>8 DEF ListByUser, Present
      <3>3. QED
        BY <3>1, <3>2 DEF ScriptsOfAdmin
    <2>11. from.script \in ScriptsOfAdmin
      BY <2>5 DEF ScriptsOfAdmin
    <2>12. ASSUME run[r].alone PROVE Progress(now)'
      <3>1. CopiesSoFar(now)'
        <4>1. ScriptsOfAdmin' = ScriptsOfAdmin \cup {Head(run[r].left).script}
          BY <1>0, <2>10, <2>11
        <4>2. ~(run[r].op = "mirror" /\ run[r].pc = "clear")
          BY <1>1
        <4>3. QED
          BY <1>1, <1>2, <2>4, <2>12, <4>1, <4>2, CopyProgresses
      <3>2. QED
        BY <1>1, <2>4, <3>1 DEF Progress, AllCommands
    <2>13. DoneInv'
      BY <1>1, <2>3, <2>4, <2>9, <2>12, OneRunProgresses
    <2>14. QED
      BY <1>1, <2>3, <2>4, <2>13, OneRunEnds
  <1>5. QED
    BY <1>3, <1>4

LEMMA UpsertInsertsIsDone ==
  ASSUME DataInv, DoneInv, NEW r \in Runs, UpsertInserts(r)
  PROVE  DoneInv' /\ \A o \in Runs : run[o].alone => ~Ends(o)
  <1>0. PICK from, h : from = Head(run[r].left) /\ h = Mint
    OBVIOUS
  <1>1. /\ UNCHANGED <<events, stops>> /\ held' = [held EXCEPT ![h] = Copied(from)]
        /\ run[r].op \in {"copy", "mirror"} /\ run[r].pc = "insert" /\ run[r] # Idle
        /\ h \in Ids /\ held[h] = NoHolding /\ Tracks(run[r])
        /\ doubled' = IF Matching(from.script) # {} /\ ~run[r].alone
                      THEN doubled \cup {from.script} ELSE doubled
    BY <1>0, IdleIsDone DEF UpsertInserts, Doing, Unminted, kept, DataInv, RunsInv
  <1>2. run[r].left # <<>>
    BY <1>1 DEF Tracks
  <1>3. PICK now : now = [run[r] EXCEPT !.pc = "next", !.left = Tail(run[r].left)]
    OBVIOUS
  <1>4. run' = [run EXCEPT ![r] = now]
    BY <1>3 DEF UpsertInserts
  <1>5. /\ now.op = run[r].op /\ now.alone = run[r].alone /\ now.pc = "next"
        /\ now.left = Tail(run[r].left)
    BY <1>1, <1>3 DEF Tracks, RunFields
  <1>6. run[r].alone => CopiesSoFar(run[r])
    BY <1>1 DEF DoneInv, Progress
  <1>7. run[r].alone => Matching(from.script) = {}
    BY <1>0, <1>1, <1>6 DEF CopiesSoFar
  <1>8. /\ held'[h] = Copied(from) /\ \A g \in Ids \ {h} : held'[g] = held[g]
    BY <1>1 DEF DataInv, HoldingsInv
  <1>9. Copied(from).owner = Admin /\ Copied(from).script = from.script
        /\ Copied(from) \notin {NoHolding, Gone}
    BY CopiedIsAHolding DEF Copied
  <1>10. /\ h \notin Present /\ h \in Present'
         /\ \A g \in Ids \ {h} : g \in Present' <=> g \in Present
    BY <1>1, <1>8, <1>9 DEF Present
  <1>11. ListByUser(Admin)' = ListByUser(Admin) \cup {h}
    BY <1>8, <1>9, <1>10 DEF ListByUser, Present
  <1>12. HoldersInv'
    <2>1. \A g \in Present' : held'[g].owner \in ToSet(Users) \cup {Unowned}
      BY <1>8, <1>9, <1>10, OwnersHaveAccounts DEF DoneInv, HoldersInv, Present
    <2>2. \A g \in ListByUser(Admin) : g \in Ids \ {h} /\ held'[g] = held[g]
      BY <1>8, <1>10 DEF ListByUser, Present
    <2>3. doubled \subseteq doubled'
      BY <1>1
    <2>4. ASSUME NEW g \in ListByUser(Admin), held[g].script = from.script
          PROVE  from.script \in doubled'
      <3>1. g \in Matching(from.script)
        BY <2>4 DEF Matching
      <3>2. QED
        BY <1>1, <1>7, <3>1
    <2>5. \A f, g \in ListByUser(Admin)' :
            held'[f].script = held'[g].script => f = g \/ held'[g].script \in doubled'
      BY <1>8, <1>9, <1>11, <2>2, <2>3, <2>4 DEF DoneInv, HoldersInv
    <2>6. QED
      BY <1>1, <2>1, <2>5 DEF DoneInv, HoldersInv
  <1>13. ScriptsOfAdmin' = ScriptsOfAdmin \cup {Head(run[r].left).script}
    <2>1. \A g \in ListByUser(Admin) : held'[g].script = held[g].script
      BY <1>8, <1>10 DEF ListByUser, Present
    <2>2. QED
      BY <1>0, <1>8, <1>9, <1>11, <2>1 DEF ScriptsOfAdmin
  <1>14. ASSUME run[r].alone PROVE Progress(now)'
    <2>1. ~(run[r].op = "mirror" /\ run[r].pc = "clear")
      BY <1>1
    <2>2. CopiesSoFar(now)'
      BY <1>1, <1>2, <1>5, <1>6, <1>13, <1>14, <2>1, CopyProgresses
    <2>3. QED
      BY <1>1, <1>5, <2>2 DEF Progress, AllCommands
  <1>15. DoneInv'
    BY <1>1, <1>4, <1>5, <1>12, <1>14, OneRunProgresses
  <1>16. QED
    BY <1>1, <1>4, <1>5, <1>15, OneRunEnds

LEMMA CopyIsDone ==
  ASSUME DataInv, DoneInv, NEW r \in Runs, CopyDone(r)
  PROVE  DoneInv' /\ \A o \in Runs : Ends(o) /\ run[o].alone => Done(o)
  <1>1. /\ UNCHANGED <<held, stops, doubled>> /\ Finish(r)
        /\ run[r].op \in {"copy", "mirror"} /\ run[r].pc = "next" /\ run[r].left = <<>> /\ run[r] # Idle
    BY IdleIsDone DEF CopyDone, Doing, kept, marks
  <1>2. HoldersInv'
    BY <1>1, HoldersQuiet DEF DoneInv, HoldersInv
  <1>3. ASSUME run[r].alone PROVE Done(r)
    <2>1. CopiesSoFar(run[r])
      BY <1>1, <1>3 DEF DoneInv, Progress
    <2>2. ScriptsIn(run[r].left) = {}
      BY <1>1 DEF ScriptsIn
    <2>3. /\ ScriptsIn(Source) \subseteq ScriptsOfAdmin
          /\ run[r].op = "mirror" => ScriptsOfAdmin = ScriptsIn(Source)
      BY <1>1, <2>1, <2>2 DEF CopiesSoFar
    <2>4. ASSUME NEW script \in ScriptsIn(Source) \ doubled
          PROVE  Cardinality(Matching(script)) = 1
      <3>1. PICK h \in ListByUser(Admin) : held[h].script = script
        BY <2>3, <2>4 DEF ScriptsOfAdmin
      <3>2. \A g \in ListByUser(Admin) : held[g].script = script => g = h
        BY <2>4, <3>1 DEF DoneInv, HoldersInv
      <3>3. Matching(script) = {h}
        BY <3>1, <3>2 DEF Matching
      <3>4. QED
        BY <3>3, FS_Singleton
    <2>5. QED
      BY <1>1, <2>3, <2>4 DEF Done, ScriptsIn, ScriptsOfAdmin
  <1>4. QED
    BY <1>1, <1>2, <1>3, FinishProgresses, OnlyOneEnds

LEMMA StopIsNoEnd ==
  ASSUME DataInv, DoneInv, NEW r \in Runs, Stops(r)
  PROVE  DoneInv' /\ \A o \in Runs : ~Ends(o)
  <1>1. UNCHANGED <<held, doubled>> /\ Finish(r) /\ run[r] # Idle /\ stops' = stops + 1
    BY DEF Stops, marks
  <1>2. stops \in Nat /\ stops' \in Nat /\ stops' # stops
    BY <1>1 DEF DoneInv, HoldersInv
  <1>3. HoldersInv'
    BY <1>1, <1>2, HoldersQuiet DEF DoneInv
  <1>4. QED
    BY <1>1, <1>2, <1>3, FinishProgresses DEF Ends

LEMMA TradeIsNoEnd ==
  ASSUME DataInv, DoneInv, NEW h \in Ids, Trade(h)
  PROVE  DoneInv' /\ \A o \in Runs : ~Ends(o)
  <1> DEFINE buy == [type |-> "buy", date |-> 0, quantity |-> 1, amount |-> 1,
                     ratio |-> Zero, seed |-> 0, openingDate |-> Undated]
  <1>1. /\ h \in Present /\ UNCHANGED <<run, stops, doubled>>
        /\ events' = [events EXCEPT ![h] = Append(events[h], buy)]
        /\ held' = [held EXCEPT ![h].position = RecomputePosition(events'[h])]
    BY DEF Trade, marks
  <1> HIDE DEF buy
  <1>2. DOMAIN held[h] = HoldingFields /\ IsSequence(events[h])
    BY <1>1 DEF DataInv, HoldingsInv, Present
  <1>3. events'[h] # <<>> /\ \A g \in Ids \ {h} : events'[g] = events[g]
    BY <1>1, <1>2, AppendIsSequence DEF DataInv, HoldingsInv
  <1>4. /\ held'[h] = [held[h] EXCEPT !.position = RecomputePosition(events'[h])]
        /\ \A g \in Ids \ {h} : held'[g] = held[g]
    BY <1>1 DEF DataInv, HoldingsInv
  <1>5. /\ DOMAIN held'[h] = HoldingFields /\ held'[h].owner = held[h].owner
        /\ held'[h].script = held[h].script /\ held'[h].raw = held[h].raw
    BY <1>2, <1>4 DEF HoldingFields
  <1>6. held'[h] \notin {NoHolding, Gone}
    <2>1. DOMAIN NoHolding = {"owner"} /\ DOMAIN Gone = {"owner"}
      BY DEF NoHolding, Gone
    <2>2. QED
      BY <1>5, <2>1 DEF HoldingFields
  <1>7. \A g \in Ids : /\ g \in Present' <=> g \in Present
                       /\ held'[g].owner = held[g].owner /\ held'[g].script = held[g].script
                       /\ held'[g].raw = held[g].raw
    BY <1>1, <1>4, <1>5, <1>6 DEF Present
  <1>8. HoldersInv'
    BY <1>1, <1>7, HoldersStay DEF DoneInv, HoldersInv, Present
  <1>9. ListByUser(Admin)' = ListByUser(Admin) /\ ScriptsOfAdmin' = ScriptsOfAdmin
    <2>1. ListByUser(Admin)' = ListByUser(Admin)
      BY <1>7 DEF ListByUser, Present
    <2>2. \A g \in ListByUser(Admin) : held'[g].script = held[g].script
      BY <1>7 DEF ListByUser, Present
    <2>3. QED
      BY <2>1, <2>2 DEF ScriptsOfAdmin
  <1>10. \A script : Matching(script)' = Matching(script)
    BY <1>7, <1>9 DEF Matching, ListByUser, Present
  <1>11. \A g \in Ids : ToSeed(g)' => ToSeed(g) /\ held'[g] = held[g]
    BY <1>3, <1>4, <1>7 DEF ToSeed, HasAny
  <1>12. ASSUME NEW o \in Runs PROVE Progress(run[o])'
    <2>1. PICK x : x = run[o] /\ Progress(x)
      BY DEF DoneInv
    <2>2. CurrenciesSoFar(x) => CurrenciesSoFar(x)'
      BY <1>7 DEF CurrenciesSoFar, Present
    <2>3. SeedsSoFar(x) => SeedsSoFar(x)'
      BY <1>11 DEF SeedsSoFar
    <2>4. CopiesSoFar(x) => CopiesSoFar(x)'
      BY <1>9, <1>10 DEF CopiesSoFar
    <2>5. Progress(x)'
      BY <2>1, <2>2, <2>3, <2>4 DEF Progress
    <2>6. QED
      BY <1>1, <2>1, <2>5 DEF Progress
  <1>13. QED
    BY <1>1, <1>8, <1>12 DEF DoneInv, AloneInv, Ends

LEMMA DoneBegins == Init => DoneInv
<1> SUFFICES ASSUME DataInit PROVE DoneInv
  BY DEF Init
<1>1. \A h \in Present : h \in DOMAIN InitialHeld /\ held[h] = InitialHeld[h]
  BY DEF DataInit, Present
<1>2. \A r \in Runs : run[r] = Idle
  BY DEF DataInit
<1>3. HoldersInv
  BY <1>1, OwnersHaveAccounts, ScriptsAreIdentities DEF DataInit, HoldersInv, ListByUser
<1>4. QED
  BY <1>2, <1>3, IdleIsDone DEF DoneInv, AloneInv, Progress

LEMMA StepIsDone ==
  ASSUME DataInv, DoneInv, [Next]_vars
  PROVE  /\ DoneInv'
         /\ [\A r \in Runs : Ends(r) /\ run[r].alone => Done(r)]_dataVars
<1>1. CASE UNCHANGED dataVars
  <2>1. UNCHANGED <<held, events, rawEvents, doubled, run, stops>>
    BY <1>1 DEF dataVars
  <2>2. HoldersInv'
    BY <2>1, HoldersQuiet DEF DoneInv, HoldersInv
  <2>3. ASSUME NEW r \in Runs PROVE Progress(run[r])'
    <3>1. PICK x : x = run[r] /\ Progress(x)
      BY DEF DoneInv
    <3>2. Progress(x)'
      BY <2>1, <3>1, ProgressQuiet
    <3>3. QED
      BY <2>1, <3>1, <3>2 DEF Progress
  <2>4. QED
    BY <1>1, <2>1, <2>2, <2>3 DEF DoneInv, AloneInv
<1>2. ASSUME NEW r \in Runs, Command(r)
      PROVE  DoneInv' /\ \A o \in Runs : Ends(o) /\ run[o].alone => Done(o)
  BY <1>2, BeginProgresses, AssignIsDone, CanonicalizeIsDone, CanonicalizeEventsIsDone, ListIsDone,
     CheckIsDone, InsertOpeningIsDone, TransactionsAreDone, ClearIsDone, UpsertMatchesIsDone,
     UpsertInsertsIsDone, CopyIsDone DEF Command
<1>3. CASE DataNext
  <2>1. CASE \E r \in Runs : Command(r)
    BY <1>2, <2>1
  <2>2. CASE \E r \in Runs : Stops(r)
    BY <2>2, StopIsNoEnd
  <2>3. CASE \E h \in Ids : Trade(h)
    BY <2>3, TradeIsNoEnd
  <2>4. QED
    BY <1>3, <2>1, <2>2, <2>3 DEF DataNext
<1>4. QED
  BY <1>1, <1>3 DEF Next, Boots, RunsCommands, vars

\* A command that reports success, and that no other overlapped, has done what it
\* says, whatever earlier ones left half done and whatever is traded meanwhile: no
\* holding is unowned, no currency is as it was typed, no owned position without a
\* ledger, no script of the source missing or held twice (cmd/migrate.go,
\* cmd/copyholdings.go).
THEOREM SuccessfulCommandsAreDoneHolds == Spec => SuccessfulCommandsAreDone
<1>1. DataInv /\ DoneInv /\ [Next]_vars
        => DoneInv' /\ [\A r \in Runs : Ends(r) /\ run[r].alone => Done(r)]_dataVars
  BY StepIsDone
<1>2. QED
  BY <1>1, DataBegins, DataStays, DoneBegins, PTL DEF Spec, SuccessfulCommandsAreDone
===============================================================================
