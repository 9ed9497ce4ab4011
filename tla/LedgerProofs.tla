---------------------------- MODULE LedgerProofs ----------------------------
(***************************************************************************)
(* What the replay of a ledger computes, for every ledger: the properties  *)
(* of LedgerReplay as theorems, and the lemmas on the replay that proofs   *)
(* about the services rest on.                                             *)
(*                                                                         *)
(* Induction is over sets of naturals: a set that holds zero and with each *)
(* number the next holds all (Induction), since the library proves that    *)
(* "less than" is well-founded.                                            *)
(***************************************************************************)
EXTENDS LedgerReplay, FiniteSetTheorems, WellFoundedInduction, TLAPS

NatLess == {pair \in Nat \X Nat : pair[1] < pair[2]}

LEMMA NatLessIsLess == OpToRel(<, Nat) = NatLess
BY Zenon DEF OpToRel, NatLess

LEMMA LeastNatural ==
  ASSUME NEW S, S \subseteq Nat, S # {}
  PROVE  \E n \in S : \A m \in S : n <= m
<1>1. IsWellFoundedOn(NatLess, Nat)
  BY NatLessThanWellFounded, NatLessIsLess, Zenon
<1>2. PICK n \in S : \A m \in S : <<m, n>> \notin NatLess
  BY <1>1, WFMin, Zenon
<1>3. \A m \in S : ~(m < n)
  BY <1>2 DEF NatLess
<1>4. QED
  BY <1>3

LEMMA Induction ==
  ASSUME NEW S, 0 \in S, \A n \in Nat : n \in S => n + 1 \in S
  PROVE  Nat \subseteq S
<1>1. SUFFICES ASSUME Nat \ S # {} PROVE FALSE
  OBVIOUS
<1>2. PICK n \in Nat \ S : \A m \in Nat \ S : n <= m
  BY <1>1, LeastNatural
<1>3. n # 0 /\ n - 1 \in Nat /\ n - 1 \in S
  BY <1>2
<1>4. n - 1 + 1 \in S
  BY <1>3
<1>5. QED
  BY <1>2, <1>4

------------------------------------------------------------------------------
(***************************************************************************)
(* Folds over sequences.  Those of the replay are told apart by their      *)
(* kind, so that one lemma serves all: a fold is the last value of a run,  *)
(* which starts at the base and takes one step per element.                *)
(***************************************************************************)
SettleOne(endOfDay, now, txn) ==
    IF endOfDay \/ (now.waiting = <<>> /\ Covered(now, txn))
    THEN Sell(now, txn)
    ELSE [now EXCEPT !.waiting = Append(@, txn)]

KeepOne(kept, txn) == IF txn.type = "dividend" THEN kept ELSE Append(kept, txn)

Step(kind, acc, txn) ==
    CASE kind = "replay"    -> ReplayEvent(acc, txn)
      [] kind = "immediate" -> Effect(acc, txn)
      [] kind = "day"       -> SettleOne(FALSE, acc, txn)
      [] kind = "end"       -> SettleOne(TRUE, acc, txn)
      [] kind = "kept"      -> KeepOne(acc, txn)
      [] kind = "amounts"    -> acc + txn.amount
      [] kind = "quantities" -> acc + txn.quantity

IsRun(kind, base, seq, n, f) ==
    /\ f[0] = base
    /\ \A k \in 1..n : f[k] = Step(kind, f[k - 1], seq[k])

\* The function the folds of the community modules are defined by.
Iterates(kind, base, seq, n, g) ==
    g = [t \in SUBSET (1..n) |->
            IF t = {} THEN base ELSE Step(kind, g[t \ {Max(t)}], seq[Max(t)])]

Folded(kind, base, seq) == (CHOOSE f : IsRun(kind, base, seq, Len(seq), f))[Len(seq)]

LEMMA RunExists ==
  ASSUME NEW kind, NEW base, NEW seq, NEW n \in Nat
  PROVE  \E f : IsRun(kind, base, seq, n, f)
<1> DEFINE Upto(m, f) == /\ f = [k \in 0..m |-> f[k]]
                         /\ f[0] = base
                         /\ \A k \in 1..m : f[k] = Step(kind, f[k - 1], seq[k])
           S == {m \in Nat : \E f : Upto(m, f)}
<1>1. 0 \in S
  <2>1. Upto(0, [k \in 0..0 |-> base])
    OBVIOUS
  <2>2. QED
    BY <2>1, Zenon
<1>2. ASSUME NEW m \in Nat, m \in S PROVE m + 1 \in S
  <2>1. PICK f : Upto(m, f)
    BY <1>2
  <2> DEFINE g == [k \in 0..(m + 1) |->
                      IF k = m + 1 THEN Step(kind, f[m], seq[m + 1]) ELSE f[k]]
  <2>2. g = [k \in 0..(m + 1) |-> g[k]] /\ g[0] = base
    BY <2>1
  <2>3. ASSUME NEW k \in 1..(m + 1) PROVE g[k] = Step(kind, g[k - 1], seq[k])
    <3>1. CASE k = m + 1
      BY <3>1
    <3>2. CASE k # m + 1
      <4>1. k \in 1..m /\ k \in 0..(m + 1) /\ k - 1 \in 0..(m + 1) /\ k - 1 # m + 1
        BY <3>2
      <4>2. g[k] = f[k] /\ g[k - 1] = f[k - 1]
        BY <3>2, <4>1
      <4>3. f[k] = Step(kind, f[k - 1], seq[k])
        BY <2>1, <4>1
      <4>4. QED
        BY <4>2, <4>3, Zenon
    <3>3. QED
      BY <3>1, <3>2
  <2> HIDE DEF g
  <2>4. Upto(m + 1, g)
    BY <2>2, <2>3
  <2>5. m + 1 \in Nat
    OBVIOUS
  <2>6. QED
    BY <2>4, <2>5, Zenon
<1>3. n \in S
  <2> HIDE DEF S
  <2>1. QED
    BY <1>1, <1>2, Induction
<1>4. QED
  BY <1>3, Zenon DEF IsRun

LEMMA MaxOfNumbers ==
  ASSUME NEW n \in Nat, NEW t \in SUBSET (1..n), t # {}
  PROVE  Max(t) \in t /\ \A y \in t : Max(t) >= y
<1>1. PICK m \in {n - x : x \in t} : \A k \in {n - x : x \in t} : m <= k
  <2> DEFINE gaps == {n - x : x \in t}
  <2>1. gaps # {}
    BY Zenon
  <2>2. \A m \in gaps : m \in Nat
    OBVIOUS
  <2> HIDE DEF gaps
  <2>3. PICK m \in gaps : \A k \in gaps : m <= k
    BY <2>1, <2>2, LeastNatural
  <2>4. QED
    BY <2>3 DEF gaps
<1>2. PICK x \in t : m = n - x
  OBVIOUS
<1>3. \A y \in t : x >= y
  <2>1. ASSUME NEW y \in t PROVE x >= y
    <3>1. m <= n - y
      BY <1>1
    <3>2. x \in 1..n /\ y \in 1..n
      OBVIOUS
    <3>3. QED
      BY <1>2, <3>1, <3>2
  <2>2. QED
    BY <2>1
<1>4. QED
  BY <1>3 DEF Max

LEMMA IterationExists ==
  ASSUME NEW kind, NEW base, NEW seq, NEW n \in Nat
  PROVE  \E g : Iterates(kind, base, seq, n, g)
<1> DEFINE Upto(m, g) == g = [t \in SUBSET (1..m) |->
                        IF t = {} THEN base ELSE Step(kind, g[t \ {Max(t)}], seq[Max(t)])]
           S == {m \in Nat : \E g : Upto(m, g)}
<1>1. 0 \in S
  <2> DEFINE g == [t \in {{}} |-> base]
  <2>1. SUBSET (1..0) = {{}}
    OBVIOUS
  <2>2. Upto(0, g)
    BY <2>1
  <2>3. QED
    BY <2>2, Zenon
<1>2. ASSUME NEW m \in Nat, m \in S PROVE m + 1 \in S
  <2>1. PICK f : Upto(m, f)
    BY <1>2
  <2> DEFINE g == [t \in SUBSET (1..(m + 1)) |->
                      IF m + 1 \in t THEN Step(kind, f[t \ {m + 1}], seq[m + 1]) ELSE f[t]]
             h == [t \in SUBSET (1..(m + 1)) |->
                      IF t = {} THEN base ELSE Step(kind, g[t \ {Max(t)}], seq[Max(t)])]
  <2>2. ASSUME NEW t \in SUBSET (1..(m + 1)) PROVE g[t] = h[t]
    <3>1. CASE m + 1 \in t
      <4>1. Max(t) = m + 1
        <5>1. m + 1 \in Nat /\ t # {}
          BY <3>1
        <5>2. Max(t) \in t /\ \A y \in t : Max(t) >= y
          BY <5>1, MaxOfNumbers, Zenon
        <5>3. Max(t) \in 1..(m + 1) /\ Max(t) >= m + 1
          BY <3>1, <5>2
        <5>4. QED
          BY <5>3
      <4>2. t \ {m + 1} \in SUBSET (1..(m + 1)) /\ m + 1 \notin t \ {m + 1}
        OBVIOUS
      <4>3. g[t \ {m + 1}] = f[t \ {m + 1}]
        BY <4>2
      <4>4. QED
        BY <3>1, <4>1, <4>3
    <3>2. CASE m + 1 \notin t /\ t # {}
      <4>1. t \in SUBSET (1..m)
        BY <3>2
      <4>2. f[t] = Step(kind, f[t \ {Max(t)}], seq[Max(t)])
        BY <2>1, <3>2, <4>1
      <4>3. t \ {Max(t)} \in SUBSET (1..(m + 1)) /\ m + 1 \notin t \ {Max(t)}
        BY <3>2
      <4>4. g[t \ {Max(t)}] = f[t \ {Max(t)}]
        BY <4>3
      <4>5. QED
        BY <3>2, <4>2, <4>4
    <3>3. CASE t = {}
      BY <2>1, <3>3
    <3>4. QED
      BY <3>1, <3>2, <3>3
  <2>3. Upto(m + 1, g)
    <3>1. g = h
      BY <2>2
    <3>2. QED
      BY <3>1, Zenon
  <2> HIDE DEF g
  <2>4. m + 1 \in Nat
    OBVIOUS
  <2>5. QED
    BY <2>3, <2>4, Zenon
<1>3. n \in S
  <2> HIDE DEF S
  <2>1. QED
    BY <1>1, <1>2, Induction
<1>4. QED
  BY <1>3, Zenon DEF Iterates

------------------------------------------------------------------------------
(***************************************************************************)
(* The order of a ledger: its events stand at the places 1, 2, ... of the  *)
(* replay, each once.                                                      *)
(***************************************************************************)
IsLedger(ledger) ==
    /\ DOMAIN ledger \subseteq Nat /\ IsFiniteSet(DOMAIN ledger)
    /\ \A i \in Events(ledger) : ledger[i] \in Transaction

Size(ledger) == Cardinality(Events(ledger))

LEMMA EventsAreFinite ==
  ASSUME NEW ledger, IsLedger(ledger)
  PROVE  IsFiniteSet(Events(ledger)) /\ Size(ledger) \in Nat
<1>1. Events(ledger) \in SUBSET DOMAIN ledger
  BY DEF Events
<1>2. IsFiniteSet(Events(ledger))
  BY <1>1, FS_Subset, Zenon DEF IsLedger
<1>3. QED
  BY <1>2, FS_CardinalityType, Zenon DEF Size

\* Precedes orders the events of a ledger strictly and totally.
LEMMA PrecedesIsAnOrder ==
  ASSUME NEW ledger, IsLedger(ledger), NEW i \in Events(ledger), NEW j \in Events(ledger),
         NEW k \in Events(ledger)
  PROVE  /\ ~Precedes(ledger, i, i)
         /\ i # j => Precedes(ledger, i, j) \/ Precedes(ledger, j, i)
         /\ Precedes(ledger, i, j) /\ Precedes(ledger, j, k) => Precedes(ledger, i, k)
<1>1. i \in Nat /\ j \in Nat /\ k \in Nat
  BY DEF IsLedger, Events
<1>2. ledger[i].date \in Nat /\ ledger[j].date \in Nat /\ ledger[k].date \in Nat
  BY DEF IsLedger, Transaction
<1>3. QED
  BY <1>1, <1>2 DEF Precedes, IsOpening

Rank(ledger, i) == Cardinality(Preceding(ledger, i))

LEMMA RanksAreOrdered ==
  ASSUME NEW ledger, IsLedger(ledger), NEW i \in Events(ledger)
  PROVE  /\ IsFiniteSet(Preceding(ledger, i))
         /\ Rank(ledger, i) \in 0..(Size(ledger) - 1)
         /\ \A j \in Events(ledger) : Precedes(ledger, i, j) <=> Rank(ledger, i) < Rank(ledger, j)
         /\ \A j \in Events(ledger) : Rank(ledger, i) = Rank(ledger, j) => i = j
<1>1. IsFiniteSet(Events(ledger)) /\ Size(ledger) \in Nat
  BY EventsAreFinite
<1>2. ASSUME NEW j \in Events(ledger)
      PROVE  /\ IsFiniteSet(Preceding(ledger, j))
             /\ Rank(ledger, j) \in 0..(Size(ledger) - 1)
  <2>1. ~Precedes(ledger, j, j)
    BY PrecedesIsAnOrder
  <2>2. Preceding(ledger, j) \in SUBSET Events(ledger) /\ Preceding(ledger, j) # Events(ledger)
    BY <2>1 DEF Preceding
  <2>3. /\ IsFiniteSet(Preceding(ledger, j))
        /\ Cardinality(Preceding(ledger, j)) <= Cardinality(Events(ledger))
        /\ Cardinality(Preceding(ledger, j)) # Cardinality(Events(ledger))
    BY <1>1, <2>2, FS_Subset, Zenon
  <2>4. Cardinality(Preceding(ledger, j)) \in Nat
    BY <2>3, FS_CardinalityType, Zenon
  <2>5. QED
    BY <1>1, <2>3, <2>4 DEF Rank, Size
<1>3. ASSUME NEW j \in Events(ledger), NEW k \in Events(ledger), Precedes(ledger, j, k)
      PROVE  Rank(ledger, j) < Rank(ledger, k)
  <2>1. Preceding(ledger, j) \in SUBSET Preceding(ledger, k)
    BY <1>3, PrecedesIsAnOrder, Zenon DEF Preceding
  <2>2. j \in Preceding(ledger, k) /\ j \notin Preceding(ledger, j)
    BY <1>3, PrecedesIsAnOrder, Zenon DEF Preceding
  <2>3. IsFiniteSet(Preceding(ledger, k))
    BY <1>2
  <2>4. /\ Cardinality(Preceding(ledger, j)) <= Cardinality(Preceding(ledger, k))
        /\ Cardinality(Preceding(ledger, j)) # Cardinality(Preceding(ledger, k))
    BY <2>1, <2>2, <2>3, FS_Subset, Zenon
  <2>5. Rank(ledger, j) \in Nat /\ Rank(ledger, k) \in Nat
    BY <1>2
  <2>6. QED
    BY <2>4, <2>5 DEF Rank
<1>4. ASSUME NEW j \in Events(ledger)
      PROVE  /\ Precedes(ledger, i, j) <=> Rank(ledger, i) < Rank(ledger, j)
             /\ Rank(ledger, i) = Rank(ledger, j) => i = j
  <2>1. Rank(ledger, i) \in Nat /\ Rank(ledger, j) \in Nat
    BY <1>2
  <2>2. i # j => Precedes(ledger, i, j) \/ Precedes(ledger, j, i)
    BY PrecedesIsAnOrder
  <2>3. Precedes(ledger, i, j) => Rank(ledger, i) < Rank(ledger, j)
    BY <1>3
  <2>4. Precedes(ledger, j, i) => Rank(ledger, j) < Rank(ledger, i)
    BY <1>3
  <2>5. QED
    BY <2>1, <2>2, <2>3, <2>4
<1>5. QED
  BY <1>2, <1>4

\* Every place up to the size of the ledger is taken.
LEMMA PlacesAreTaken ==
  ASSUME NEW ledger, IsLedger(ledger), NEW place \in 1..Size(ledger)
  PROVE  /\ AtPlace(ledger, place) \in Events(ledger)
         /\ Rank(ledger, AtPlace(ledger, place)) = place - 1
<1> DEFINE E == Events(ledger)
           T == 0..(Size(ledger) - 1)
           rank == [i \in E |-> Rank(ledger, i)]
<1>1. IsFiniteSet(E) /\ Size(ledger) \in Nat
  BY EventsAreFinite
<1>2. rank \in Injection(E, T)
  <2>1. rank \in [E -> T]
    BY RanksAreOrdered
  <2>2. \A i, j \in E : rank[i] = rank[j] => i = j
    BY RanksAreOrdered
  <2>3. QED
    BY <2>1, <2>2, Zenon DEF Injection, IsInjective
<1>3. IsFiniteSet(T) /\ Cardinality(T) = Cardinality(E)
  <2>1. Size(ledger) - 1 \in Int /\ 0 \in Int
    BY <1>1
  <2>2. IsFiniteSet(T) /\ Cardinality(T) = IF 0 > Size(ledger) - 1 THEN 0 ELSE Size(ledger) - 1 - 0 + 1
    BY <2>1, FS_Interval
  <2>3. QED
    BY <1>1, <2>2 DEF Size
<1>4. rank \in Surjection(E, T)
  BY <1>2, <1>3, FS_Injection, Zenon
<1>5. place - 1 \in T
  BY <1>1
<1>6. PICK i \in E : rank[i] = place - 1
  BY <1>4, <1>5, Zenon DEF Surjection
<1>7. \E x \in Events(ledger) : Cardinality(Preceding(ledger, x)) = place - 1
  BY <1>6 DEF Rank
<1>8. QED
  BY <1>7, Zenon DEF AtPlace, Rank

\* An event stands at the place its rank says and at no other.
LEMMA PlaceOfAnEvent ==
  ASSUME NEW ledger, IsLedger(ledger), NEW i \in Events(ledger)
  PROVE  /\ Rank(ledger, i) + 1 \in 1..Size(ledger)
         /\ AtPlace(ledger, Rank(ledger, i) + 1) = i
<1>1. Size(ledger) \in Nat /\ Rank(ledger, i) \in 0..(Size(ledger) - 1)
  BY EventsAreFinite, RanksAreOrdered
<1>2. Rank(ledger, i) + 1 \in 1..Size(ledger)
  BY <1>1
<1>3. PICK place \in 1..Size(ledger) : place = Rank(ledger, i) + 1
  BY <1>2, Zenon
<1>4. /\ AtPlace(ledger, place) \in Events(ledger)
      /\ Rank(ledger, AtPlace(ledger, place)) = place - 1
  BY PlacesAreTaken
<1>5. Rank(ledger, AtPlace(ledger, place)) = Rank(ledger, i)
  BY <1>1, <1>3, <1>4
<1>6. AtPlace(ledger, place) = i
  BY <1>4, <1>5, RanksAreOrdered
<1>7. QED
  BY <1>2, <1>3, <1>6, Zenon

LEMMA OrderedEvents ==
  ASSUME NEW ledger, IsLedger(ledger)
  PROVE  /\ Ordered(ledger) \in Seq(Transaction)
         /\ Len(Ordered(ledger)) = Size(ledger)
         /\ Size(ledger) \in Nat
         /\ \A k \in 1..Size(ledger) : /\ AtPlace(ledger, k) \in Events(ledger)
                                       /\ Ordered(ledger)[k] = ledger[AtPlace(ledger, k)]
<1>1. Size(ledger) \in Nat
  BY EventsAreFinite
<1>2. \A k \in 1..Size(ledger) : /\ AtPlace(ledger, k) \in Events(ledger)
                                 /\ ledger[AtPlace(ledger, k)] \in Transaction
  BY PlacesAreTaken DEF IsLedger
<1>3. QED
  BY <1>1, <1>2 DEF Ordered, Size

------------------------------------------------------------------------------
(***************************************************************************)
(* A fold is the last value of the run over its sequence.                  *)
(***************************************************************************)
LEMMA RunsAgree ==
  ASSUME NEW kind, NEW base, NEW seq, NEW other, NEW n \in Nat, NEW f, NEW g,
         IsRun(kind, base, seq, n, f), IsRun(kind, base, other, n, g),
         \A k \in 1..n : seq[k] = other[k]
  PROVE  \A k \in 0..n : f[k] = g[k]
<1> DEFINE S == {k \in Nat : k <= n => f[k] = g[k]}
<1>1. 0 \in S
  BY DEF IsRun
<1>2. ASSUME NEW k \in Nat, k \in S PROVE k + 1 \in S
  <2>1. SUFFICES ASSUME k + 1 <= n PROVE f[k + 1] = g[k + 1]
    OBVIOUS
  <2>2. k + 1 \in 1..n /\ k + 1 - 1 = k /\ f[k] = g[k]
    BY <1>2, <2>1
  <2>3. PICK j \in 1..n : j = k + 1 /\ j - 1 = k
    BY <2>2
  <2>4. f[j] = Step(kind, f[j - 1], seq[j]) /\ g[j] = Step(kind, g[j - 1], other[j])
    BY Zenon DEF IsRun
  <2>5. seq[j] = other[j]
    OBVIOUS
  <2>6. QED
    BY <2>2, <2>3, <2>4, <2>5, Zenon
<1>3. Nat \subseteq S
  <2> HIDE DEF S
  <2>1. QED
    BY <1>1, <1>2, Induction
<1>4. QED
  BY <1>3

LEMMA TwoRunsAgree ==
  \A kind, base, seq, other, f, g : \A n \in Nat :
     /\ IsRun(kind, base, seq, n, f) /\ IsRun(kind, base, other, n, g)
     /\ \A k \in 1..n : seq[k] = other[k]
     => \A k \in 0..n : f[k] = g[k]
BY RunsAgree

LEMMA LastOfARun ==
  ASSUME NEW kind, NEW base, NEW seq, Len(seq) \in Nat, NEW f,
         IsRun(kind, base, seq, Len(seq), f)
  PROVE  Folded(kind, base, seq) = f[Len(seq)]
<1> DEFINE h == CHOOSE h : IsRun(kind, base, seq, Len(seq), h)
<1>1. IsRun(kind, base, seq, Len(seq), h)
  BY Zenon
<1> HIDE DEF h
<1>2. \A k \in 0..Len(seq) : h[k] = f[k]
  BY <1>1, RunsAgree
<1>3. h[Len(seq)] = f[Len(seq)]
  BY <1>2
<1>4. QED
  BY <1>3, Zenon DEF Folded, h

\* The run of a fold.
LEMMA FoldedRun ==
  ASSUME NEW kind, NEW base, NEW seq, Len(seq) \in Nat
  PROVE  \E f : /\ IsRun(kind, base, seq, Len(seq), f)
                /\ Folded(kind, base, seq) = f[Len(seq)]
<1>1. PICK f : IsRun(kind, base, seq, Len(seq), f)
  BY RunExists
<1>2. QED
  BY <1>1, LastOfARun, Zenon

LEMMA FoldedEmpty ==
  ASSUME NEW kind, NEW base
  PROVE  Folded(kind, base, <<>>) = base
<1>1. Len(<<>>) = 0
  OBVIOUS
<1>2. PICK f : IsRun(kind, base, <<>>, Len(<<>>), f) /\ Folded(kind, base, <<>>) = f[Len(<<>>)]
  BY <1>1, FoldedRun
<1>3. QED
  BY <1>1, <1>2, Zenon DEF IsRun

\* A fold over a sequence whose front is another one is one more step.
LEMMA FoldedStep ==
  ASSUME NEW kind, NEW base, NEW seq, NEW front, Len(front) \in Nat,
         Len(seq) = Len(front) + 1, \A k \in 1..Len(front) : seq[k] = front[k]
  PROVE  Folded(kind, base, seq) = Step(kind, Folded(kind, base, front), seq[Len(seq)])
<1>1. Len(seq) \in Nat
  OBVIOUS
<1>2. PICK f : IsRun(kind, base, seq, Len(seq), f) /\ Folded(kind, base, seq) = f[Len(seq)]
  BY <1>1, FoldedRun
<1>3. Len(seq) \in 1..Len(seq) /\ Len(seq) - 1 = Len(front)
  OBVIOUS
<1>4. f[Len(seq)] = Step(kind, f[Len(front)], seq[Len(seq)])
  BY <1>2, <1>3, Zenon DEF IsRun
<1>5. IsRun(kind, base, front, Len(front), f)
  <2>1. \A k \in 1..Len(front) : k \in 1..Len(seq) /\ seq[k] = front[k]
    OBVIOUS
  <2>2. QED
    BY <1>2, <2>1, Zenon DEF IsRun
<1>6. Folded(kind, base, front) = f[Len(front)]
  BY <1>5, LastOfARun
<1>7. QED
  BY <1>2, <1>4, <1>6, Zenon

LEMMA IterationIsRun ==
  ASSUME NEW kind, NEW base, NEW seq, Len(seq) \in Nat, NEW g,
         Iterates(kind, base, seq, Len(seq), g)
  PROVE  g[1..Len(seq)] = Folded(kind, base, seq)
<1> DEFINE f == [k \in 0..Len(seq) |-> g[1..k]]
<1>1. f[0] = base
  <2>1. 1..0 = {} /\ {} \in SUBSET (1..Len(seq))
    OBVIOUS
  <2>2. g[{}] = base
    BY <2>1, Zenon DEF Iterates
  <2>3. QED
    BY <2>1, <2>2
<1>2. ASSUME NEW k \in 1..Len(seq) PROVE f[k] = Step(kind, f[k - 1], seq[k])
  <2>1. 1..k \in SUBSET (1..Len(seq)) /\ 1..k # {} /\ k \in Nat
    <3>1. k \in Nat /\ 1 <= k /\ k <= Len(seq) /\ k \in 1..k
      OBVIOUS
    <3>2. \A x \in 1..k : x \in 1..Len(seq)
      OBVIOUS
    <3>3. QED
      BY <3>1, <3>2, Zenon
  <2>2. Max(1..k) \in 1..k /\ \A y \in 1..k : Max(1..k) >= y
    BY <2>1, MaxOfNumbers, Zenon
  <2>3. Max(1..k) = k
    BY <2>2
  <2>4. g[1..k] = Step(kind, g[(1..k) \ {Max(1..k)}], seq[Max(1..k)])
    BY <2>1, Zenon DEF Iterates
  <2>5. (1..k) \ {k} = 1..(k - 1) /\ k \in 0..Len(seq) /\ k - 1 \in 0..Len(seq)
    OBVIOUS
  <2>6. QED
    BY <2>3, <2>4, <2>5
<1>3. IsRun(kind, base, seq, Len(seq), f)
  <2> HIDE DEF f
  <2>1. QED
    BY <1>1, <1>2, Zenon DEF IsRun
<1>4. Folded(kind, base, seq) = f[Len(seq)]
  <2> HIDE DEF f
  <2>1. QED
    BY <1>3, LastOfARun, Zenon
<1>5. QED
  BY <1>4

LEMMA ReplayIsARun ==
  ASSUME NEW base, NEW seq, DOMAIN seq = 1..Len(seq), Len(seq) \in Nat
  PROVE  FoldLeft(ReplayEvent, base, seq) = Folded("replay", base, seq)
<1> DEFINE iter == CHOOSE g : g = [t \in SUBSET DOMAIN seq |->
              IF t = {} THEN base ELSE ReplayEvent(g[t \ {Max(t)}], seq[Max(t)])]
<1>1. \A acc, txn : Step("replay", acc, txn) = ReplayEvent(acc, txn)
  BY DEF Step
<1>2. PICK g : Iterates("replay", base, seq, Len(seq), g)
  BY IterationExists
<1>3. g = [t \in SUBSET DOMAIN seq |->
              IF t = {} THEN base ELSE ReplayEvent(g[t \ {Max(t)}], seq[Max(t)])]
  BY <1>1, <1>2, Zenon DEF Iterates
<1>4. iter = [t \in SUBSET DOMAIN seq |->
              IF t = {} THEN base ELSE ReplayEvent(iter[t \ {Max(t)}], seq[Max(t)])]
  BY <1>3, Zenon
<1>5. iter[DOMAIN seq] = Folded("replay", base, seq)
  <2> HIDE DEF iter
  <2>1. Iterates("replay", base, seq, Len(seq), iter)
    BY <1>1, <1>4, Zenon DEF Iterates
  <2>2. QED
    BY <2>1, IterationIsRun, Zenon
<1>6. QED
  BY <1>5, Zenon DEF FoldLeft, MapThenFoldSet

LEMMA ImmediateIsARun ==
  ASSUME NEW base, NEW seq, DOMAIN seq = 1..Len(seq), Len(seq) \in Nat
  PROVE  FoldLeft(Effect, base, seq) = Folded("immediate", base, seq)
<1> DEFINE iter == CHOOSE g : g = [t \in SUBSET DOMAIN seq |->
              IF t = {} THEN base ELSE Effect(g[t \ {Max(t)}], seq[Max(t)])]
<1>1. \A acc, txn : Step("immediate", acc, txn) = Effect(acc, txn)
  BY DEF Step
<1>2. PICK g : Iterates("immediate", base, seq, Len(seq), g)
  BY IterationExists
<1>3. g = [t \in SUBSET DOMAIN seq |->
              IF t = {} THEN base ELSE Effect(g[t \ {Max(t)}], seq[Max(t)])]
  BY <1>1, <1>2, Zenon DEF Iterates
<1>4. iter = [t \in SUBSET DOMAIN seq |->
              IF t = {} THEN base ELSE Effect(iter[t \ {Max(t)}], seq[Max(t)])]
  BY <1>3, Zenon
<1>5. iter[DOMAIN seq] = Folded("immediate", base, seq)
  <2> HIDE DEF iter
  <2>1. Iterates("immediate", base, seq, Len(seq), iter)
    BY <1>1, <1>4, Zenon DEF Iterates
  <2>2. QED
    BY <2>1, IterationIsRun, Zenon
<1>6. QED
  BY <1>5, Zenon DEF FoldLeft, MapThenFoldSet

\* The faithful part of Settle: what it folds, without the reset before it.
SettleKind(endOfDay) == IF endOfDay THEN "end" ELSE "day"

LEMMA SettleIsARun ==
  ASSUME NEW acc, NEW endOfDay \in BOOLEAN,
         DOMAIN acc.waiting = 1..Len(acc.waiting), Len(acc.waiting) \in Nat
  PROVE  Settle(acc, endOfDay) =
            Folded(SettleKind(endOfDay), [acc EXCEPT !.waiting = <<>>], acc.waiting)
<1> DEFINE base == [acc EXCEPT !.waiting = <<>>]
           seq  == acc.waiting
           iter == CHOOSE g : g = [t \in SUBSET DOMAIN seq |->
              IF t = {} THEN base ELSE SettleOne(endOfDay, g[t \ {Max(t)}], seq[Max(t)])]
<1>1. \A now, txn : Step(SettleKind(endOfDay), now, txn) = SettleOne(endOfDay, now, txn)
  <2>1. CASE endOfDay
    BY <2>1 DEF Step, SettleKind, SettleOne
  <2>2. CASE ~endOfDay
    BY <2>2 DEF Step, SettleKind, SettleOne
  <2>3. QED
    BY <2>1, <2>2
<1>2. PICK g : Iterates(SettleKind(endOfDay), base, seq, Len(seq), g)
  <2> HIDE DEF base, seq
  <2>1. Len(seq) \in Nat
    BY DEF seq
  <2>2. QED
    BY <2>1, IterationExists
<1>3. g = [t \in SUBSET DOMAIN seq |->
              IF t = {} THEN base ELSE SettleOne(endOfDay, g[t \ {Max(t)}], seq[Max(t)])]
  BY <1>1, <1>2, Zenon DEF Iterates
<1>4. iter = [t \in SUBSET DOMAIN seq |->
              IF t = {} THEN base ELSE SettleOne(endOfDay, iter[t \ {Max(t)}], seq[Max(t)])]
  BY <1>3, ZenonT(40)
<1>5. iter[DOMAIN seq] = Folded(SettleKind(endOfDay), base, seq)
  <2> HIDE DEF iter
  <2>1. Iterates(SettleKind(endOfDay), base, seq, Len(seq), iter)
    BY <1>1, <1>4, ZenonT(40) DEF Iterates
  <2>2. Len(seq) \in Nat
    OBVIOUS
  <2> HIDE DEF base, seq
  <2>3. QED
    BY <2>1, <2>2, IterationIsRun
<1>6. QED
  BY <1>5, Zenon DEF Settle, SettleOne, FoldLeft, MapThenFoldSet

------------------------------------------------------------------------------
(***************************************************************************)
(* Fractions: in lowest terms, so that equal values are equal tuples.      *)
(***************************************************************************)
LEMMA DividesWhole ==
  ASSUME NEW m \in Int, NEW d \in Nat \ {0}
  PROVE  /\ m \div d \in Int
         /\ m % d = 0 <=> (m \div d) * d = m
         /\ \A z \in Int : m = z * d => m % d = 0
<1>1. m \div d \in Int /\ m % d \in 0..(d - 1) /\ m % d = m - d * (m \div d)
  <2>1. m \div d \in Int
    OBVIOUS
  <2>2. m % d \in 0..(d - 1)
    OBVIOUS
  <2>3. m % d = m - d * (m \div d)
    OBVIOUS
  <2>4. QED
    BY <2>1, <2>2, <2>3
<1>2. d * (m \div d) = (m \div d) * d
  BY <1>1
<1>3. ASSUME NEW z \in Int, m = z * d PROVE m % d = 0
  <2> DEFINE q == m \div d
             r == m % d
  <2>0. q \in Int /\ r \in 0..(d - 1) /\ r = m - d * q /\ d * q = q * d
    BY <1>1, <1>2
  <2> HIDE DEF q, r
  <2>1. q \in Int /\ r \in 0..(d - 1) /\ z * d = q * d + r
    <3>1. m \in Int /\ r \in Int /\ q * d \in Int
      BY <2>0
    <3>2. m = q * d + r
      BY <2>0, <3>1
    <3>3. QED
      BY <1>3, <2>0, <3>2
  <2>2. (z - q) * d = r
    BY <2>1
  <2>3. CASE z - q >= 1
    <3>1. (z - q) * d >= d
      BY <2>1, <2>3
    <3>2. QED
      BY <2>1, <2>2, <3>1
  <2>4. CASE z - q <= -1
    <3>1. (z - q) * d <= -d
      BY <2>1, <2>4
    <3>2. QED
      BY <2>1, <2>2, <3>1
  <2>5. CASE z - q = 0
    <3>1. r = 0
      BY <2>1, <2>2, <2>5
    <3>2. QED
      BY <3>1 DEF r
  <2>6. QED
    BY <2>1, <2>3, <2>4, <2>5
<1>4. QED
  BY <1>1, <1>2, <1>3

LEMMA LeastDenominator ==
  ASSUME NEW n \in Int, NEW d \in Nat \ {0}
  PROVE  /\ Denominator(n, d) \in 1..d
         /\ (n * Denominator(n, d)) % d = 0
         /\ \A k \in 1..(Denominator(n, d) - 1) : (n * k) % d # 0
<1> DEFINE whole == {q \in 1..d : (n * q) % d = 0}
<1>1. d \in whole
  <2>1. n * d \in Int /\ d \in 1..d
    OBVIOUS
  <2>2. (n * d) % d = 0
    BY <2>1, DividesWhole
  <2>3. QED
    BY <2>1, <2>2
<1>2. PICK q \in whole : \A k \in whole : q <= k
  <2>1. whole # {}
    BY <1>1, Zenon
  <2>2. whole \subseteq Nat
    OBVIOUS
  <2> HIDE DEF whole
  <2>3. QED
    BY <2>1, <2>2, LeastNatural
<1>3. \A k \in 1..(q - 1) : (n * k) % d # 0
  <2>1. ASSUME NEW k \in 1..(q - 1), (n * k) % d = 0 PROVE FALSE
    <3>1. k \in 1..d /\ k < q /\ q \in 1..d
      <4>1. q \in 1..d
        BY <1>2, Zenon
      <4>2. QED
        BY <4>1
    <3>2. q <= k
      BY <1>2, <2>1, <3>1
    <3>3. QED
      BY <3>1, <3>2
  <2>2. QED
    BY <2>1
<1>4. \E p \in 1..d : (n * p) % d = 0 /\ \A k \in 1..(p - 1) : (n * k) % d # 0
  BY <1>2, <1>3
<1>5. QED
  BY <1>4, Zenon DEF Denominator

LEMMA FractionValue ==
  ASSUME NEW n \in Int, NEW d \in Nat \ {0}
  PROVE  /\ Fraction(n, d) \in Rational
         /\ Fraction(n, d)[1] * d = n * Fraction(n, d)[2]
<1> DEFINE q == Denominator(n, d)
<1>1. q \in 1..d /\ (n * q) % d = 0
  BY LeastDenominator
<1> HIDE DEF q
<1>2. n * q \in Int
  BY <1>1
<1>3. (n * q) \div d \in Int /\ ((n * q) \div d) * d = n * q
  BY <1>1, <1>2, DividesWhole
<1>4. Fraction(n, d) = <<(n * q) \div d, q>>
  BY DEF Fraction, q
<1>5. q \in Nat \ {0}
  BY <1>1
<1>6. QED
  BY <1>3, <1>4, <1>5 DEF Rational

SameValue(n, d, m, e) == n * e = m * d

IsWholeTimes(n, d, q) == (n * q) % d = 0

WholeTimes(n, d, q) == (n * q) \div d

\* A multiple that is whole for one name of a fraction is whole for the other.
LEMMA SameWholeMultiples ==
  ASSUME NEW n \in Int, NEW d \in Nat \ {0}, NEW m \in Int, NEW e \in Nat \ {0},
         SameValue(n, d, m, e), NEW q \in Nat, IsWholeTimes(n, d, q)
  PROVE  IsWholeTimes(m, e, q) /\ WholeTimes(m, e, q) = WholeTimes(n, d, q)
<1> USE DEF SameValue, IsWholeTimes, WholeTimes
<1> DEFINE z == (n * q) \div d
<1>1. z \in Int /\ z * d = n * q
  <2>1. n * q \in Int
    OBVIOUS
  <2>2. QED
    BY <2>1, DividesWhole
<1> HIDE DEF z
<1>2. (m * q) * d = (z * e) * d
  <2>1. (m * q) * d = (m * d) * q
    OBVIOUS
  <2>2. (m * d) * q = (n * e) * q
    OBVIOUS
  <2>3. (n * e) * q = (n * q) * e
    OBVIOUS
  <2>4. (n * q) * e = (z * d) * e
    BY <1>1
  <2>5. (z * d) * e = (z * e) * d
    BY <1>1
  <2>6. QED
    BY <2>1, <2>2, <2>3, <2>4, <2>5
<1>3. m * q = z * e
  <2>1. m * q \in Int /\ z * e \in Int
    BY <1>1
  <2>2. \A a, b \in Int : a * d = b * d => a = b
    OBVIOUS
  <2>3. QED
    BY <1>2, <2>1, <2>2
<1>4. m * q \in Int
  OBVIOUS
<1>5. (m * q) % e = 0
  BY <1>1, <1>3, <1>4, DividesWhole
<1>6. ((m * q) \div e) * e = z * e /\ (m * q) \div e \in Int
  BY <1>3, <1>4, <1>5, DividesWhole
<1>7. (m * q) \div e = z
  <2>1. \A a, b \in Int : a * e = b * e => a = b
    OBVIOUS
  <2>2. QED
    BY <1>1, <1>6, <2>1
<1>8. QED
  BY <1>5, <1>7 DEF z

LEMMA EqualFractions ==
  ASSUME NEW n \in Int, NEW d \in Nat \ {0}, NEW m \in Int, NEW e \in Nat \ {0},
         n * e = m * d
  PROVE  Fraction(n, d) = Fraction(m, e)
<1> DEFINE p == Denominator(n, d)
           q == Denominator(m, e)
<1>1. /\ p \in 1..d /\ (n * p) % d = 0
      /\ \A k \in 1..(p - 1) : (n * k) % d # 0
  BY LeastDenominator
<1>2. /\ q \in 1..e /\ (m * q) % e = 0
      /\ \A k \in 1..(q - 1) : (m * k) % e # 0
  BY LeastDenominator
<1> HIDE DEF p, q
<1>3. p \in Nat /\ q \in Nat /\ p >= 1 /\ q >= 1
  BY <1>1, <1>2
<1>4. (m * p) % e = 0 /\ (m * p) \div e = (n * p) \div d
  <2>1. IsWholeTimes(n, d, p) /\ SameValue(n, d, m, e)
    BY <1>1 DEF IsWholeTimes, SameValue
  <2>2. IsWholeTimes(m, e, p) /\ WholeTimes(m, e, p) = WholeTimes(n, d, p)
    BY <1>3, <2>1, SameWholeMultiples, Zenon
  <2>3. QED
    BY <2>2, Zenon DEF IsWholeTimes, WholeTimes
<1>5. (n * q) % d = 0
  <2>1. IsWholeTimes(m, e, q) /\ SameValue(m, e, n, d)
    BY <1>2 DEF IsWholeTimes, SameValue
  <2>2. IsWholeTimes(n, d, q)
    BY <1>3, <2>1, SameWholeMultiples, Zenon
  <2>3. QED
    BY <2>2, Zenon DEF IsWholeTimes
<1>6. ~(p < q)
  <2>1. p < q => p \in 1..(q - 1)
    BY <1>3
  <2>2. QED
    BY <1>2, <1>4, <2>1
<1>7. ~(q < p)
  <2>1. q < p => q \in 1..(p - 1)
    BY <1>3
  <2>2. QED
    BY <1>1, <1>5, <2>1
<1>8. p = q
  BY <1>3, <1>6, <1>7
<1>9. Fraction(n, d) = <<(n * p) \div d, p>> /\ Fraction(m, e) = <<(m * q) \div e, q>>
  BY DEF Fraction, p, q
<1>10. QED
  BY <1>4, <1>8, <1>9

LEMMA RationalOps ==
  ASSUME NEW x \in Rational, NEW y \in Rational
  PROVE  /\ Plus(x, y) \in Rational /\ Minus(x, y) \in Rational /\ Times(x, y) \in Rational
         /\ Positive(y) => Over(x, y) \in Rational
         /\ Smaller(x, y) \in {x, y}
         /\ Below(x, y) \in BOOLEAN
<1>1. x[1] \in Int /\ x[2] \in Nat \ {0} /\ y[1] \in Int /\ y[2] \in Nat \ {0}
  BY DEF Rational
<1>2. x[2] * y[2] \in Nat \ {0}
  <2>1. \A a, b \in Nat \ {0} : a * b \in Nat \ {0}
    OBVIOUS
  <2>2. QED
    BY <1>1, <2>1
<1>3. /\ x[1] * y[2] + y[1] * x[2] \in Int /\ x[1] * y[2] - y[1] * x[2] \in Int
      /\ x[1] * y[1] \in Int /\ x[1] * y[2] \in Int
  <2>1. \A a, b \in Int : a * b \in Int
    OBVIOUS
  <2>2. x[1] * y[2] \in Int /\ y[1] * x[2] \in Int /\ x[1] * y[1] \in Int
    BY <1>1, <2>1
  <2>3. QED
    BY <2>2
<1>4. Positive(y) => x[2] * y[1] \in Nat \ {0}
  <2>1. \A a, b \in Nat \ {0} : a * b \in Nat \ {0}
    OBVIOUS
  <2>2. Positive(y) => y[1] \in Nat \ {0}
    BY <1>1 DEF Positive
  <2>3. QED
    BY <1>1, <2>1, <2>2
<1>5. Plus(x, y) \in Rational /\ Minus(x, y) \in Rational /\ Times(x, y) \in Rational
  BY <1>2, <1>3, FractionValue DEF Plus, Minus, Times
<1>6. Positive(y) => Over(x, y) \in Rational
  BY <1>3, <1>4, FractionValue DEF Over
<1>7. QED
  BY <1>5, <1>6 DEF Smaller, Below

LEMMA WholeOps ==
  ASSUME NEW m \in Int, NEW n \in Int
  PROVE  /\ Whole(m) \in Rational /\ Zero = Whole(0)
         /\ Plus(Whole(m), Whole(n)) = Whole(m + n)
         /\ Minus(Whole(m), Whole(n)) = Whole(m - n)
         /\ Below(Whole(m), Whole(n)) <=> m < n
         /\ Positive(Whole(m)) <=> m > 0
<1>1. \A k \in Int : Fraction(k, 1) = Whole(k)
  <2>1. ASSUME NEW k \in Int PROVE Fraction(k, 1) = Whole(k)
    <3>1. Denominator(k, 1) \in 1..1
      BY LeastDenominator
    <3>2. Denominator(k, 1) = 1
      BY <3>1
    <3>3. (k * 1) \div 1 = k
      OBVIOUS
    <3>4. QED
      BY <3>2, <3>3 DEF Fraction, Whole
  <2>2. QED
    BY <2>1
<1>2. m * 1 + n * 1 = m + n /\ m * 1 - n * 1 = m - n /\ 1 * 1 = 1
  OBVIOUS
<1>3. Plus(Whole(m), Whole(n)) = Fraction(m + n, 1) /\ Minus(Whole(m), Whole(n)) = Fraction(m - n, 1)
  <2>1. Plus(Whole(m), Whole(n)) = Fraction(m * 1 + n * 1, 1 * 1)
    BY DEF Plus, Whole
  <2>2. Minus(Whole(m), Whole(n)) = Fraction(m * 1 - n * 1, 1 * 1)
    BY DEF Minus, Whole
  <2>3. QED
    BY <1>2, <2>1, <2>2, Zenon
<1>4. m + n \in Int /\ m - n \in Int
  OBVIOUS
<1>5. Below(Whole(m), Whole(n)) <=> m < n
  BY DEF Below, Whole
<1>6. Whole(m) \in Rational /\ Zero = Whole(0) /\ (Positive(Whole(m)) <=> m > 0)
  BY DEF Whole, Rational, Positive, Zero
<1>7. QED
  BY <1>1, <1>3, <1>4, <1>5, <1>6, Zenon

------------------------------------------------------------------------------
(***************************************************************************)
(* The accumulator of the replay.                                          *)
(***************************************************************************)
Replays ==
    [qty: Rational, basis: Rational, realized: Rational, dividends: Rational,
     oversold: BOOLEAN, waiting: Seq(Transaction), day: Int]

LEMMA SameReplay ==
  ASSUME NEW a \in Replays, NEW b \in Replays,
         a.qty = b.qty, a.basis = b.basis, a.realized = b.realized, a.dividends = b.dividends,
         a.oversold = b.oversold, a.waiting = b.waiting, a.day = b.day
  PROVE  a = b
BY DEF Replays

LEMMA EmptyReplayType == EmptyReplay \in Replays
BY WholeOps DEF EmptyReplay, Replays, Undated

LEMMA TransactionType ==
  ASSUME NEW txn \in Transaction
  PROVE  /\ txn.type \in TxnType /\ txn.date \in Nat /\ txn.quantity \in Nat
         /\ txn.amount \in Nat /\ txn.ratio \in Rational /\ txn.seed \in Int
         /\ DayOf(txn.date) \in Nat
         /\ Whole(txn.quantity) \in Rational /\ Whole(txn.amount) \in Rational
         /\ Whole(txn.seed) \in Rational
<1>1. /\ txn.type \in TxnType /\ txn.date \in Nat /\ txn.quantity \in Nat
      /\ txn.amount \in Nat /\ txn.ratio \in Rational /\ txn.seed \in Int
  BY DEF Transaction
<1>2. DayOf(txn.date) \in Nat
  BY <1>1 DEF DayOf, SlotsPerDay
<1>3. QED
  BY <1>1, <1>2 DEF Whole, Rational

LEMMA SellFields ==
  ASSUME NEW acc \in Replays, NEW txn \in Transaction
  PROVE  LET qty == Smaller(Whole(txn.quantity), acc.qty)
             now == Sell(acc, txn)
         IN  /\ now \in Replays
             /\ now.qty = Minus(acc.qty, qty)
             /\ now.basis = Minus(acc.basis, CostOf(acc, qty))
             /\ now.realized = Plus(acc.realized, Minus(Whole(txn.amount), CostOf(acc, qty)))
             /\ (now.oversold <=> acc.oversold \/ ~Covered(acc, txn))
             /\ now.waiting = acc.waiting /\ now.day = acc.day /\ now.dividends = acc.dividends
<1> DEFINE qty == Smaller(Whole(txn.quantity), acc.qty)
           cost == CostOf(acc, qty)
<1>1. qty \in Rational
  BY TransactionType, RationalOps DEF Replays
<1>2. cost \in Rational
  <2>1. acc.qty \in Rational /\ acc.basis \in Rational
    BY DEF Replays
  <2>2. Positive(acc.qty) => Over(acc.basis, acc.qty) \in Rational
    BY <2>1, RationalOps
  <2>3. Zero \in Rational
    BY WholeOps
  <2> HIDE DEF qty
  <2>4. QED
    BY <1>1, <2>2, <2>3, RationalOps DEF CostOf
<1> HIDE DEF qty, cost
<1>3. /\ Minus(acc.qty, qty) \in Rational /\ Minus(acc.basis, cost) \in Rational
      /\ Plus(acc.realized, Minus(Whole(txn.amount), cost)) \in Rational
  <2>1. acc.qty \in Rational /\ acc.basis \in Rational /\ acc.realized \in Rational
    BY DEF Replays
  <2>2. Minus(Whole(txn.amount), cost) \in Rational
    BY <1>2, TransactionType, RationalOps
  <2>3. QED
    BY <1>1, <1>2, <2>1, <2>2, RationalOps
<1>4. Sell(acc, txn) = [acc EXCEPT !.qty = Minus(acc.qty, qty),
                                   !.basis = Minus(acc.basis, cost),
                                   !.realized = Plus(acc.realized, Minus(Whole(txn.amount), cost)),
                                   !.oversold = acc.oversold \/ ~Covered(acc, txn)]
  BY DEF Sell, Book, qty, cost
<1>5. Covered(acc, txn) \in BOOLEAN
  BY DEF Covered
<1>6. QED
  BY <1>3, <1>4, <1>5 DEF Replays, qty, cost

LEMMA AcquireFields ==
  ASSUME NEW acc \in Replays, NEW txn \in Transaction
  PROVE  LET now == Acquire(acc, txn)
         IN  /\ now \in Replays
             /\ now.qty = IF txn.quantity > 0 THEN Plus(acc.qty, Whole(txn.quantity)) ELSE acc.qty
             /\ now.basis = IF txn.quantity > 0 THEN Plus(acc.basis, Whole(txn.amount)) ELSE acc.basis
             /\ now.realized = acc.realized /\ now.dividends = acc.dividends
             /\ now.oversold = acc.oversold /\ now.waiting = acc.waiting /\ now.day = acc.day
<1>1. txn.quantity \in Nat
  BY TransactionType
<1>2. /\ Plus(acc.qty, Whole(txn.quantity)) \in Rational
      /\ Plus(acc.basis, Whole(txn.amount)) \in Rational
  BY TransactionType, RationalOps DEF Replays
<1>3. CASE txn.quantity > 0
  BY <1>2, <1>3 DEF Acquire, Replays
<1>4. CASE ~(txn.quantity > 0)
  BY <1>4 DEF Acquire
<1>5. QED
  BY <1>3, <1>4

LEMMA EffectFields ==
  ASSUME NEW acc \in Replays, NEW txn \in Transaction
  PROVE  LET now == Effect(acc, txn)
         IN  /\ now \in Replays
             /\ (now.oversold <=> acc.oversold \/ (txn.type = "sell" /\ ~Covered(acc, txn)))
             /\ now.waiting = acc.waiting /\ now.day = acc.day
<1> DEFINE now == Effect(acc, txn)
<1>0. acc.oversold \in BOOLEAN
  BY DEF Replays
<1>1. CASE txn.type = "opening"
  <2> DEFINE held == Acquire(acc, txn)
  <2>1. now = [held EXCEPT !.realized = Plus(@, Whole(txn.seed))]
    BY <1>1 DEF Effect
  <2>2. /\ held \in Replays /\ held.oversold = acc.oversold
        /\ held.waiting = acc.waiting /\ held.day = acc.day
    BY AcquireFields
  <2>3. Plus(held.realized, Whole(txn.seed)) \in Rational
    <3>1. held.realized \in Rational
      BY <2>2 DEF Replays
    <3>2. QED
      BY <3>1, TransactionType, RationalOps
  <2> HIDE DEF held, now
  <2>4. now \in Replays /\ now.oversold = held.oversold /\ now.waiting = held.waiting /\ now.day = held.day
    BY <2>1, <2>2, <2>3 DEF Replays
  <2>5. QED
    BY <1>0, <1>1, <2>2, <2>4 DEF now
<1>2. CASE txn.type = "buy"
  <2>1. now = Acquire(acc, txn)
    BY <1>2 DEF Effect
  <2>2. QED
    BY <1>0, <1>2, <2>1, AcquireFields
<1>3. CASE txn.type = "sell"
  <2>1. now = Sell(acc, txn)
    BY <1>3 DEF Effect
  <2>2. QED
    BY <1>3, <2>1, SellFields
<1>4. CASE txn.type \in {"split", "bonus"}
  <2>1. Times(acc.qty, txn.ratio) \in Rational
    BY TransactionType, RationalOps DEF Replays
  <2>2. now = IF Positive(txn.ratio) THEN [acc EXCEPT !.qty = Times(@, txn.ratio)] ELSE acc
    BY <1>4 DEF Effect
  <2> HIDE DEF now
  <2>3. now \in Replays /\ now.oversold = acc.oversold /\ now.waiting = acc.waiting /\ now.day = acc.day
    BY <2>1, <2>2 DEF Replays
  <2>4. QED
    BY <1>0, <1>4, <2>3 DEF now
<1>5. CASE txn.type = "dividend"
  <2>1. Plus(acc.dividends, Whole(txn.amount)) \in Rational
    BY TransactionType, RationalOps DEF Replays
  <2>2. now = [acc EXCEPT !.dividends = Plus(@, Whole(txn.amount))]
    BY <1>5 DEF Effect
  <2> HIDE DEF now
  <2>3. now \in Replays /\ now.oversold = acc.oversold /\ now.waiting = acc.waiting /\ now.day = acc.day
    BY <2>1, <2>2 DEF Replays
  <2>4. QED
    BY <1>0, <1>5, <2>3 DEF now
<1>6. CASE txn.type = "merger"
  BY <1>0, <1>6 DEF Effect
<1>7. txn.type \in TxnType
  BY TransactionType
<1>8. QED
  BY <1>1, <1>2, <1>3, <1>4, <1>5, <1>6, <1>7 DEF TxnType

\* The day of the accumulator is no part of what an event does to it.
LEMMA EffectOnAnotherDay ==
  ASSUME NEW acc \in Replays, NEW txn \in Transaction, NEW day \in Int
  PROVE  Effect([acc EXCEPT !.day = day], txn) = [Effect(acc, txn) EXCEPT !.day = day]
<1> DEFINE other == [acc EXCEPT !.day = day]
<1>1. /\ other \in Replays /\ other.qty = acc.qty /\ other.basis = acc.basis
      /\ other.realized = acc.realized /\ other.dividends = acc.dividends
      /\ other.oversold = acc.oversold /\ other.waiting = acc.waiting /\ other.day = day
  BY DEF Replays
<1>2. Covered(other, txn) = Covered(acc, txn)
  BY <1>1 DEF Covered
<1>3. \A qty : CostOf(other, qty) = CostOf(acc, qty)
  BY <1>1 DEF CostOf
<1>4. Sell(other, txn) = [Sell(acc, txn) EXCEPT !.day = day]
  <2>1. \A qty, cost : Book(other, txn, qty, cost) = [Book(acc, txn, qty, cost) EXCEPT !.day = day]
    BY <1>1, <1>2 DEF Book, Replays
  <2> HIDE DEF other
  <2>2. QED
    BY <1>1, <1>3, <2>1 DEF Sell
<1>5. Acquire(other, txn) = [Acquire(acc, txn) EXCEPT !.day = day]
  BY <1>1 DEF Acquire, Replays
<1>6. QED
  <2>1. CASE txn.type = "opening"
    BY <1>5, <2>1, AcquireFields DEF Effect, Replays
  <2>2. CASE txn.type = "buy"
    BY <1>5, <2>2 DEF Effect
  <2>3. CASE txn.type = "sell"
    BY <1>4, <2>3 DEF Effect
  <2>4. CASE txn.type \in {"split", "bonus"}
    BY <1>1, <2>4 DEF Effect, Replays
  <2>5. CASE txn.type = "dividend"
    BY <1>1, <2>5 DEF Effect, Replays
  <2>6. CASE txn.type = "merger"
    BY <2>6 DEF Effect
  <2>7. txn.type \in TxnType
    BY TransactionType
  <2>8. QED
    BY <2>1, <2>2, <2>3, <2>4, <2>5, <2>6, <2>7 DEF TxnType

LEMMA WaitFields ==
  ASSUME NEW acc \in Replays, NEW txn \in Transaction
  PROVE  LET now == [acc EXCEPT !.waiting = Append(@, txn)]
         IN  /\ now \in Replays
             /\ now.waiting = Append(acc.waiting, txn)
             /\ now.qty = acc.qty /\ now.basis = acc.basis /\ now.realized = acc.realized
             /\ now.dividends = acc.dividends /\ now.oversold = acc.oversold /\ now.day = acc.day
<1>1. Append(acc.waiting, txn) \in Seq(Transaction)
  BY DEF Replays
<1>2. QED
  BY <1>1 DEF Replays

\* One sell that waited: at the end of the day it is booked, before it only
\* when it is covered.
LEMMA SettleOneFields ==
  ASSUME NEW acc \in Replays, NEW txn \in Transaction, NEW endOfDay \in BOOLEAN
  PROVE  LET now == SettleOne(endOfDay, acc, txn)
         IN  /\ now \in Replays
             /\ now.day = acc.day /\ now.dividends = acc.dividends
             /\ acc.oversold => now.oversold
             /\ ~endOfDay => (now.oversold <=> acc.oversold)
             /\ endOfDay => now.waiting = acc.waiting
<1>1. CASE endOfDay \/ (acc.waiting = <<>> /\ Covered(acc, txn))
  BY <1>1, SellFields DEF SettleOne
<1>2. CASE ~(endOfDay \/ (acc.waiting = <<>> /\ Covered(acc, txn)))
  BY <1>2, WaitFields DEF SettleOne
<1>3. QED
  BY <1>1, <1>2

LEMMA StepOfSettle ==
  ASSUME NEW endOfDay \in BOOLEAN, NEW now, NEW txn
  PROVE  Step(SettleKind(endOfDay), now, txn) = SettleOne(endOfDay, now, txn)
<1>1. CASE endOfDay
  BY <1>1 DEF Step, SettleKind, SettleOne
<1>2. CASE ~endOfDay
  BY <1>2 DEF Step, SettleKind, SettleOne
<1>3. QED
  BY <1>1, <1>2

LEMMA SettleRun ==
  ASSUME NEW base \in Replays, NEW seq \in Seq(Transaction), NEW endOfDay \in BOOLEAN, NEW f,
         IsRun(SettleKind(endOfDay), base, seq, Len(seq), f)
  PROVE  \A k \in 0..Len(seq) :
            /\ f[k] \in Replays
            /\ f[k].day = base.day /\ f[k].dividends = base.dividends
            /\ base.oversold => f[k].oversold
            /\ ~endOfDay => (f[k].oversold <=> base.oversold)
            /\ endOfDay => f[k].waiting = base.waiting
<1> DEFINE Fits(acc) == /\ acc \in Replays
                        /\ acc.day = base.day /\ acc.dividends = base.dividends
                        /\ base.oversold => acc.oversold
                        /\ ~endOfDay => (acc.oversold <=> base.oversold)
                        /\ endOfDay => acc.waiting = base.waiting
           S == {k \in Nat : k <= Len(seq) => Fits(f[k])}
<1>1. 0 \in S
  BY DEF IsRun
<1>2. ASSUME NEW k \in Nat, k \in S PROVE k + 1 \in S
  <2>1. SUFFICES ASSUME k + 1 <= Len(seq) PROVE Fits(f[k + 1])
    OBVIOUS
  <2>2. Len(seq) \in Nat
    OBVIOUS
  <2>3. k + 1 \in 1..Len(seq) /\ k + 1 - 1 = k /\ k <= Len(seq)
    BY <2>1, <2>2
  <2>4. PICK j \in 1..Len(seq) : j = k + 1 /\ j - 1 = k
    BY <2>3
  <2>5. f[j] = SettleOne(endOfDay, f[j - 1], seq[j])
    <3>1. f[j] = Step(SettleKind(endOfDay), f[j - 1], seq[j])
      BY Zenon DEF IsRun
    <3>2. QED
      BY <3>1, StepOfSettle
  <2>6. seq[j] \in Transaction
    OBVIOUS
  <2>7. Fits(f[k])
    BY <1>2, <2>3
  <2>8. Fits(SettleOne(endOfDay, f[k], seq[j]))
    BY <2>6, <2>7, SettleOneFields
  <2>9. QED
    BY <2>4, <2>5, <2>8, Zenon
<1>3. Nat \subseteq S
  <2> HIDE DEF S
  <2>1. QED
    BY <1>1, <1>2, Induction
<1>4. QED
  BY <1>3

LEMMA WithoutWaiting ==
  ASSUME NEW acc \in Replays
  PROVE  LET now == [acc EXCEPT !.waiting = <<>>]
         IN  /\ now \in Replays /\ now.waiting = <<>>
             /\ now.qty = acc.qty /\ now.basis = acc.basis /\ now.realized = acc.realized
             /\ now.dividends = acc.dividends /\ now.oversold = acc.oversold /\ now.day = acc.day
             /\ acc.waiting = <<>> => now = acc
<1>1. <<>> \in Seq(Transaction)
  OBVIOUS
<1>2. QED
  BY <1>1 DEF Replays

LEMMA SettleFields ==
  ASSUME NEW acc \in Replays, NEW endOfDay \in BOOLEAN
  PROVE  LET now == Settle(acc, endOfDay)
         IN  /\ now \in Replays
             /\ now.day = acc.day /\ now.dividends = acc.dividends
             /\ acc.oversold => now.oversold
             /\ ~endOfDay => (now.oversold <=> acc.oversold)
             /\ endOfDay => now.waiting = <<>>
             /\ acc.waiting = <<>> => now = acc
<1> DEFINE base == [acc EXCEPT !.waiting = <<>>]
           seq == acc.waiting
<1>1. /\ base \in Replays /\ base.waiting = <<>> /\ base.dividends = acc.dividends
      /\ base.oversold = acc.oversold /\ base.day = acc.day
      /\ acc.waiting = <<>> => base = acc
  BY WithoutWaiting
<1>2. seq \in Seq(Transaction) /\ Len(seq) \in Nat /\ DOMAIN seq = 1..Len(seq)
  BY DEF Replays
<1>3. Settle(acc, endOfDay) = Folded(SettleKind(endOfDay), base, seq)
  BY <1>2, SettleIsARun
<1> HIDE DEF base, seq
<1>4. PICK f : /\ IsRun(SettleKind(endOfDay), base, seq, Len(seq), f)
               /\ Folded(SettleKind(endOfDay), base, seq) = f[Len(seq)]
  BY <1>2, FoldedRun
<1>5. Len(seq) \in 0..Len(seq)
  BY <1>2
<1>6. /\ f[Len(seq)] \in Replays
      /\ f[Len(seq)].day = base.day /\ f[Len(seq)].dividends = base.dividends
      /\ base.oversold => f[Len(seq)].oversold
      /\ ~endOfDay => (f[Len(seq)].oversold <=> base.oversold)
      /\ endOfDay => f[Len(seq)].waiting = base.waiting
  BY <1>1, <1>2, <1>4, <1>5, SettleRun
<1>7. acc.waiting = <<>> => Settle(acc, endOfDay) = acc
  <2>1. SUFFICES ASSUME acc.waiting = <<>> PROVE f[Len(seq)] = acc
    BY <1>3, <1>4
  <2>2. Len(seq) = 0
    BY <2>1 DEF seq
  <2>3. QED
    BY <1>1, <1>4, <2>1, <2>2, Zenon DEF IsRun
<1>8. QED
  BY <1>1, <1>3, <1>4, <1>6, <1>7

LEMMA NewDayFields ==
  ASSUME NEW acc \in Replays, NEW day \in Int
  PROVE  LET now == NewDay(acc, day)
         IN  /\ now \in Replays /\ now.day = day /\ now.dividends = acc.dividends
             /\ acc.oversold => now.oversold
             /\ acc.day # day => now.waiting = <<>> /\ (Settle(acc, TRUE).oversold => now.oversold)
             /\ acc.waiting = <<>> => now = [acc EXCEPT !.day = day]
<1> DEFINE end == IF day # acc.day THEN Settle(acc, TRUE) ELSE acc
<1>1. end \in Replays /\ end.dividends = acc.dividends /\ (acc.oversold => end.oversold)
  BY SettleFields
<1>2. acc.day # day => end.waiting = <<>> /\ end = Settle(acc, TRUE)
  BY SettleFields
<1>3. acc.waiting = <<>> => end = acc
  BY SettleFields
<1>4. NewDay(acc, day) = [end EXCEPT !.day = day]
  BY DEF NewDay
<1> HIDE DEF end
<1>5. /\ [end EXCEPT !.day = day] \in Replays
      /\ [end EXCEPT !.day = day].day = day
      /\ [end EXCEPT !.day = day].dividends = end.dividends
      /\ [end EXCEPT !.day = day].waiting = end.waiting
      /\ [end EXCEPT !.day = day].oversold = end.oversold
  BY <1>1 DEF Replays
<1>6. QED
  BY <1>1, <1>2, <1>3, <1>4, <1>5

LEMMA ReplayEventFields ==
  ASSUME NEW acc \in Replays, NEW txn \in Transaction
  PROVE  LET now == ReplayEvent(acc, txn)
         IN  /\ now \in Replays /\ now.day = DayOf(txn.date)
             /\ acc.oversold => now.oversold
             /\ acc.day # DayOf(txn.date) /\ Settle(acc, TRUE).oversold => now.oversold
<1> DEFINE start == NewDay(acc, DayOf(txn.date))
<1>1. DayOf(txn.date) \in Int
  BY TransactionType
<1>2. /\ start \in Replays /\ start.day = DayOf(txn.date)
      /\ acc.oversold => start.oversold
      /\ acc.day # DayOf(txn.date) /\ Settle(acc, TRUE).oversold => start.oversold
  BY <1>1, NewDayFields
<1>3. ReplayEvent(acc, txn) = Meet(start, txn)
  BY DEF ReplayEvent
<1> HIDE DEF start
<1>4. Meet(start, txn) \in Replays /\ Meet(start, txn).day = start.day
      /\ (start.oversold => Meet(start, txn).oversold)
  <2>1. CASE txn.type = "sell" /\ ~Covered(start, txn)
    BY <1>2, <2>1, WaitFields DEF Meet
  <2>2. CASE ~(txn.type = "sell" /\ ~Covered(start, txn))
    <3>1. Meet(start, txn) = Settle(Effect(start, txn), FALSE)
      BY <2>2 DEF Meet
    <3> DEFINE after == Effect(start, txn)
    <3>2. after \in Replays /\ after.day = start.day /\ (start.oversold => after.oversold)
      BY <1>2, EffectFields
    <3> HIDE DEF after
    <3>3. /\ Settle(after, FALSE) \in Replays /\ Settle(after, FALSE).day = after.day
          /\ (after.oversold => Settle(after, FALSE).oversold)
      BY <3>2, SettleFields
    <3>4. QED
      BY <3>1, <3>2, <3>3 DEF after
  <2>3. QED
    BY <2>1, <2>2
<1>5. QED
  BY <1>2, <1>3, <1>4

------------------------------------------------------------------------------
(***************************************************************************)
(* The runs of a whole ledger.                                             *)
(***************************************************************************)
LEMMA LedgerRun ==
  ASSUME NEW kind \in {"replay", "immediate"}, NEW seq \in Seq(Transaction), NEW f,
         NEW base \in Replays, IsRun(kind, base, seq, Len(seq), f)
  PROVE  \A k \in 0..Len(seq) :
            /\ f[k] \in Replays
            /\ \A j \in 0..k : f[j].oversold => f[k].oversold
<1> DEFINE S == {k \in Nat : k <= Len(seq) =>
                    /\ f[k] \in Replays
                    /\ \A j \in 0..k : f[j].oversold => f[k].oversold}
<1>0. Len(seq) \in Nat
  OBVIOUS
<1>1. 0 \in S
  <2>1. f[0] \in Replays
    BY Zenon DEF IsRun
  <2>2. \A j \in 0..0 : j = 0
    OBVIOUS
  <2>3. QED
    BY <2>1, <2>2
<1>2. ASSUME NEW k \in Nat, k \in S PROVE k + 1 \in S
  <2>1. SUFFICES ASSUME k + 1 <= Len(seq)
                 PROVE  /\ f[k + 1] \in Replays
                        /\ \A j \in 0..(k + 1) : f[j].oversold => f[k + 1].oversold
    OBVIOUS
  <2>2. PICK m \in 1..Len(seq) : m = k + 1 /\ m - 1 = k
    BY <1>0, <2>1
  <2>3. f[m] = Step(kind, f[k], seq[m]) /\ seq[m] \in Transaction
    <3>1. f[m] = Step(kind, f[m - 1], seq[m])
      BY Zenon DEF IsRun
    <3>2. QED
      BY <2>2, <3>1
  <2>4. /\ f[k] \in Replays
        /\ \A j \in 0..k : f[j].oversold => f[k].oversold
    BY <1>0, <1>2, <2>1
  <2>5. Step(kind, f[k], seq[m]) = IF kind = "replay" THEN ReplayEvent(f[k], seq[m])
                                                       ELSE Effect(f[k], seq[m])
    BY DEF Step
  <2>6. f[m] \in Replays /\ (f[k].oversold => f[m].oversold)
    <3>1. CASE kind = "replay"
      <4>1. f[m] = ReplayEvent(f[k], seq[m])
        BY <2>3, <2>5, <3>1
      <4>2. QED
        BY <2>3, <2>4, <4>1, ReplayEventFields
    <3>2. CASE kind # "replay"
      <4>1. f[m] = Effect(f[k], seq[m])
        BY <2>3, <2>5, <3>2
      <4>2. QED
        BY <2>3, <2>4, <4>1, EffectFields
    <3>3. QED
      BY <3>1, <3>2
  <2>7. \A j \in 0..(k + 1) : j \in 0..k \/ j = m
    BY <2>2
  <2>8. QED
    BY <2>2, <2>4, <2>6, <2>7
<1>3. Nat \subseteq S
  <2> HIDE DEF S
  <2>1. QED
    BY <1>1, <1>2, Induction
<1>4. QED
  BY <1>0, <1>3

LEMMA ReplayOfALedger ==
  ASSUME NEW ledger, IsLedger(ledger)
  PROVE  \E f : /\ IsRun("replay", EmptyReplay, Ordered(ledger), Size(ledger), f)
                /\ \A k \in 0..Size(ledger) :
                      /\ f[k] \in Replays
                      /\ \A j \in 0..k : f[j].oversold => f[k].oversold
                /\ Replay(ledger) = Settle(f[Size(ledger)], TRUE)
<1> DEFINE seq == Ordered(ledger)
<1>1. seq \in Seq(Transaction) /\ Len(seq) = Size(ledger) /\ Size(ledger) \in Nat
      /\ DOMAIN seq = 1..Len(seq)
  BY OrderedEvents
<1>2. Replay(ledger) = Settle(FoldLeft(ReplayEvent, EmptyReplay, seq), TRUE)
  BY DEF Replay
<1> HIDE DEF seq
<1>3. FoldLeft(ReplayEvent, EmptyReplay, seq) = Folded("replay", EmptyReplay, seq)
  BY <1>1, ReplayIsARun
<1>4. PICK f : /\ IsRun("replay", EmptyReplay, seq, Len(seq), f)
               /\ Folded("replay", EmptyReplay, seq) = f[Len(seq)]
  BY <1>1, FoldedRun
<1>5. \A k \in 0..Len(seq) : /\ f[k] \in Replays
                             /\ \A j \in 0..k : f[j].oversold => f[k].oversold
  BY <1>1, <1>4, LedgerRun, EmptyReplayType
<1>6. QED
  BY <1>1, <1>2, <1>3, <1>4, <1>5 DEF seq

\* Two replays differ in their day alone, and nothing waits.
SameButDay(one, other) == other.waiting = <<>> /\ one = [other EXCEPT !.day = one.day]

LEMMA BookingAtOnce ==
  ASSUME NEW seq \in Seq(Transaction), NEW f, NEW g,
         IsRun("replay", EmptyReplay, seq, Len(seq), f),
         IsRun("immediate", EmptyReplay, seq, Len(seq), g),
         ~g[Len(seq)].oversold
  PROVE  \A k \in 0..Len(seq) : SameButDay(f[k], g[k])
<1> USE DEF SameButDay
<1> DEFINE S == {k \in Nat : k <= Len(seq) =>
                    g[k].waiting = <<>> /\ f[k] = [g[k] EXCEPT !.day = f[k].day]}
<1>0. Len(seq) \in Nat
  OBVIOUS
<1>a. \A k \in 0..Len(seq) : g[k] \in Replays /\ ~g[k].oversold
  <2>1. \A k \in 0..Len(seq) : /\ g[k] \in Replays
                               /\ \A j \in 0..k : g[j].oversold => g[k].oversold
    BY LedgerRun, EmptyReplayType
  <2>2. Len(seq) \in 0..Len(seq)
    BY <1>0
  <2>3. QED
    BY <2>1, <2>2
<1>1. 0 \in S
  <2>1. f[0] = EmptyReplay /\ g[0] = EmptyReplay
    BY Zenon DEF IsRun
  <2>2. QED
    BY <2>1 DEF EmptyReplay
<1>2. ASSUME NEW k \in Nat, k \in S PROVE k + 1 \in S
  <2>1. SUFFICES ASSUME k + 1 <= Len(seq)
                 PROVE  g[k + 1].waiting = <<>> /\ f[k + 1] = [g[k + 1] EXCEPT !.day = f[k + 1].day]
    OBVIOUS
  <2>2. PICK m \in 1..Len(seq) : m = k + 1 /\ m - 1 = k
    BY <1>0, <2>1
  <2> DEFINE txn == seq[m]
             acc == g[k]
             day == DayOf(txn.date)
             start == [acc EXCEPT !.day = day]
  <2>3. txn \in Transaction /\ day \in Int
    BY TransactionType
  <2>4. f[m] = ReplayEvent(f[k], txn) /\ g[m] = Effect(acc, txn)
    <3>1. f[m] = Step("replay", f[m - 1], seq[m]) /\ g[m] = Step("immediate", g[m - 1], seq[m])
      BY Zenon DEF IsRun
    <3>2. QED
      BY <2>2, <3>1 DEF Step
  <2>5. acc.waiting = <<>> /\ f[k] = [acc EXCEPT !.day = f[k].day]
    BY <1>0, <1>2, <2>1
  <2>6. acc \in Replays /\ ~acc.oversold /\ ~g[m].oversold
    BY <1>a, <2>2
  <2>7. start \in Replays /\ start.waiting = <<>> /\ start.oversold = acc.oversold /\ start.qty = acc.qty
    BY <2>3, <2>5, <2>6 DEF Replays
  <2>8. NewDay(f[k], day) = start
    <3>1. f[k] \in Replays /\ f[k].waiting = <<>>
      <4>1. \A j \in 0..Len(seq) : f[j] \in Replays
        BY LedgerRun, EmptyReplayType
      <4>2. k \in 0..Len(seq)
        BY <2>2
      <4>3. QED
        BY <2>5, <2>6, <4>1, <4>2 DEF Replays
    <3>2. NewDay(f[k], day) = [f[k] EXCEPT !.day = day]
      BY <2>3, <3>1, NewDayFields
    <3>3. QED
      BY <2>5, <2>6, <3>2 DEF Replays
  <2>9. ~(txn.type = "sell" /\ ~Covered(acc, txn))
    BY <2>3, <2>4, <2>6, EffectFields
  <2>10. Covered(start, txn) = Covered(acc, txn)
    BY <2>7 DEF Covered
  <2>11. f[m] = Settle(Effect(start, txn), FALSE)
    BY <2>4, <2>8, <2>9, <2>10 DEF ReplayEvent, Meet
  <2>12. Effect(start, txn) = [Effect(acc, txn) EXCEPT !.day = day]
    BY <2>3, <2>6, EffectOnAnotherDay
  <2>13. Effect(start, txn) \in Replays /\ Effect(start, txn).waiting = <<>>
         /\ Effect(start, txn).day = day
    <3> HIDE DEF start
    <3>1. Effect(start, txn) \in Replays /\ Effect(start, txn).waiting = <<>>
         /\ Effect(start, txn).day = start.day
      BY <2>3, <2>7, EffectFields
    <3>2. QED
      BY <2>6, <3>1 DEF start, Replays
  <2> HIDE DEF start, acc, txn, day
  <2>14. f[m] = Effect(start, txn)
    <3>1. Settle(Effect(start, txn), FALSE) = Effect(start, txn)
      BY <2>13, SettleFields, Zenon
    <3>2. QED
      BY <2>11, <3>1, Zenon
  <2>15. g[m].waiting = <<>>
    <3>1. Effect(acc, txn).waiting = acc.waiting
      BY <2>3, <2>6, EffectFields, Zenon
    <3>2. QED
      BY <2>4, <2>5, <3>1, Zenon
  <2>16. f[m] = [g[m] EXCEPT !.day = f[m].day]
    BY <2>4, <2>12, <2>13, <2>14
  <2>17. QED
    BY <2>2, <2>15, <2>16
<1>3. Nat \subseteq S
  <2> HIDE DEF S
  <2>1. QED
    BY <1>1, <1>2, Induction
<1>4. QED
  BY <1>0, <1>3

------------------------------------------------------------------------------
(***************************************************************************)
(* The ledgers that are recorded.                                          *)
(***************************************************************************)
BookedType == booked \in [RecordIds -> Transaction \cup {NoEvent}]

LEMMA BookedInvariant == RecordSpec => []BookedType
<1>1. RecordInit => BookedType
  BY DEF RecordInit, BookedType
<1>2. BookedType /\ [RecordNext]_booked => BookedType'
  <2>1. SUFFICES ASSUME BookedType, [RecordNext]_booked PROVE BookedType'
    OBVIOUS
  <2>2. CASE RecordNext
    <3>1. PICK txn \in Recordable : Record(txn)
      BY <2>2 DEF RecordNext
    <3>2. txn \in Transaction
      BY RecordableAreTransactions
    <3> DEFINE next == Cardinality(Events(booked)) + 1
    <3>3. next \in RecordIds /\ booked' = [booked EXCEPT ![next] = txn]
      BY <3>1 DEF Record
    <3>4. QED
      BY <2>1, <3>2, <3>3 DEF BookedType
  <2>3. CASE UNCHANGED booked
    BY <2>1, <2>3 DEF BookedType
  <2>4. QED
    BY <2>1, <2>2, <2>3
<1>3. QED
  BY <1>1, <1>2, PTL DEF RecordSpec

LEMMA BookedIsALedger ==
  ASSUME BookedType
  PROVE  IsLedger(booked)
<1>1. DOMAIN booked = RecordIds /\ \A i \in Events(booked) : booked[i] \in Transaction
  BY DEF BookedType, Events
<1>2. QED
  BY <1>1, RecordIdsAreNumbers, Zenon DEF IsLedger

\* A ledger that never oversells when every sell is booked as it is met has the
\* same replay with waiting (ledger.go:76-77).
THEOREM WaitingOnlyHelpsHolds == RecordSpec => []WaitingOnlyHelps
<1>1. ASSUME BookedType PROVE WaitingOnlyHelps
  <2> DEFINE seq == Ordered(booked)
             n == Size(booked)
  <2>1. SUFFICES ASSUME ~ImmediateReplay.oversold
                 PROVE  Replay(booked) = [ImmediateReplay EXCEPT !.day = Replay(booked).day]
    BY DEF WaitingOnlyHelps
  <2>2. IsLedger(booked)
    BY <1>1, BookedIsALedger
  <2>3. seq \in Seq(Transaction) /\ Len(seq) = n /\ n \in Nat /\ DOMAIN seq = 1..Len(seq)
    BY <2>2, OrderedEvents
  <2>4. PICK f : /\ IsRun("replay", EmptyReplay, seq, n, f)
                 /\ \A k \in 0..n : f[k] \in Replays
                 /\ Replay(booked) = Settle(f[n], TRUE)
    BY <2>2, ReplayOfALedger
  <2>5. ImmediateReplay = FoldLeft(Effect, EmptyReplay, seq)
    BY DEF ImmediateReplay
  <2> HIDE DEF seq, n
  <2>6. ImmediateReplay = Folded("immediate", EmptyReplay, seq)
    BY <2>3, <2>5, ImmediateIsARun
  <2>7. PICK g : /\ IsRun("immediate", EmptyReplay, seq, Len(seq), g)
                 /\ Folded("immediate", EmptyReplay, seq) = g[Len(seq)]
    BY <2>3, FoldedRun
  <2>8. n \in 0..n
    BY <2>3
  <2>9. g[n].waiting = <<>> /\ f[n] = [g[n] EXCEPT !.day = f[n].day]
    <3>1. ~g[Len(seq)].oversold
      BY <2>1, <2>6, <2>7
    <3>2. IsRun("replay", EmptyReplay, seq, Len(seq), f)
      BY <2>3, <2>4
    <3>3. \A k \in 0..Len(seq) : SameButDay(f[k], g[k])
      BY <2>3, <2>7, <3>1, <3>2, BookingAtOnce, Zenon
    <3>4. QED
      BY <2>3, <2>8, <3>3, Zenon DEF SameButDay
  <2>10. f[n] \in Replays /\ g[n] \in Replays
    <3>1. \A k \in 0..Len(seq) : g[k] \in Replays
      BY <2>3, <2>7, LedgerRun, EmptyReplayType
    <3>2. QED
      BY <2>3, <2>4, <2>8, <3>1
  <2>11. f[n].waiting = <<>>
    BY <2>9, <2>10 DEF Replays
  <2>12. Replay(booked) = f[n]
    BY <2>4, <2>10, <2>11, SettleFields
  <2>13. QED
    BY <2>3, <2>6, <2>7, <2>9, <2>12
<1>2. QED
  BY <1>1, BookedInvariant, PTL

------------------------------------------------------------------------------
(***************************************************************************)
(* Ledgers that share events: an initial part of a ledger keeps its order. *)
(***************************************************************************)
\* The events of part are events of ledger, with all that precede them there.
IsInitialPart(part, ledger) ==
    /\ IsLedger(part) /\ IsLedger(ledger)
    /\ Events(part) \subseteq Events(ledger)
    /\ \A i \in Events(part) : part[i] = ledger[i]
    /\ \A i \in Events(part), j \in Events(ledger) : Precedes(ledger, j, i) => j \in Events(part)

LEMMA InitialPartKeepsPlaces ==
  ASSUME NEW part, NEW ledger, IsInitialPart(part, ledger)
  PROVE  /\ Size(part) \in Nat /\ Size(ledger) \in Nat /\ Size(part) <= Size(ledger)
         /\ \A k \in 1..Size(part) : /\ AtPlace(part, k) = AtPlace(ledger, k)
                                     /\ Ordered(part)[k] = Ordered(ledger)[k]
         /\ \A k \in 1..Size(ledger) : AtPlace(ledger, k) \in Events(part) => k \in 1..Size(part)
<1>1. IsLedger(part) /\ IsLedger(ledger) /\ Events(part) \subseteq Events(ledger)
  BY DEF IsInitialPart
<1>2. Size(part) \in Nat /\ Size(ledger) \in Nat /\ Size(part) <= Size(ledger)
  <2>1. IsFiniteSet(Events(ledger)) /\ Size(part) \in Nat /\ Size(ledger) \in Nat
    BY <1>1, EventsAreFinite
  <2>2. QED
    BY <1>1, <2>1, FS_Subset DEF Size
<1>3. \A i \in Events(part) : Rank(part, i) = Rank(ledger, i)
  <2>1. ASSUME NEW i \in Events(part) PROVE Preceding(part, i) = Preceding(ledger, i)
    <3>1. \A j \in Events(part) : Precedes(part, j, i) <=> Precedes(ledger, j, i)
      BY DEF IsInitialPart, Precedes
    <3>2. \A j \in Events(ledger) : Precedes(ledger, j, i) => j \in Events(part)
      BY DEF IsInitialPart
    <3>3. QED
      BY <1>1, <3>1, <3>2, Zenon DEF Preceding
  <2>2. QED
    BY <2>1 DEF Rank
<1>4. ASSUME NEW k \in 1..Size(part)
      PROVE  /\ AtPlace(part, k) = AtPlace(ledger, k)
             /\ Ordered(part)[k] = Ordered(ledger)[k]
  <2>1. k \in 1..Size(ledger)
    BY <1>2
  <2> DEFINE i == AtPlace(part, k)
             j == AtPlace(ledger, k)
  <2>2. i \in Events(part) /\ Rank(part, i) = k - 1
    BY <1>1, PlacesAreTaken
  <2>3. j \in Events(ledger) /\ Rank(ledger, j) = k - 1
    BY <1>1, <2>1, PlacesAreTaken
  <2>4. Ordered(part)[k] = part[i] /\ Ordered(ledger)[k] = ledger[j]
    BY <1>1, <2>1, OrderedEvents
  <2> HIDE DEF i, j
  <2>5. i \in Events(ledger) /\ Rank(ledger, i) = Rank(ledger, j)
    BY <1>1, <1>3, <2>2, <2>3, Zenon
  <2>6. i = j
    BY <1>1, <2>3, <2>5, RanksAreOrdered
  <2>7. part[i] = ledger[i]
    BY <2>2 DEF IsInitialPart
  <2>8. QED
    BY <2>4, <2>6, <2>7 DEF i, j
<1>5. ASSUME NEW k \in 1..Size(ledger), AtPlace(ledger, k) \in Events(part)
      PROVE  k \in 1..Size(part)
  <2> DEFINE i == AtPlace(ledger, k)
  <2>1. Rank(ledger, i) = k - 1
    BY <1>1, PlacesAreTaken
  <2>2. Rank(part, i) \in 0..(Size(part) - 1)
    BY <1>1, <1>5, RanksAreOrdered
  <2>3. Rank(part, i) = k - 1
    BY <1>3, <1>5, <2>1
  <2> HIDE DEF i
  <2>4. QED
    BY <1>2, <2>2, <2>3
<1>6. QED
  BY <1>2, <1>4, <1>5

LEMMA EventWithoutSell ==
  ASSUME NEW acc \in Replays, NEW txn \in Transaction, acc.waiting = <<>>, txn.type # "sell"
  PROVE  LET start == [acc EXCEPT !.day = DayOf(txn.date)]
             now == ReplayEvent(acc, txn)
         IN  /\ start \in Replays /\ start.qty = acc.qty /\ start.basis = acc.basis
             /\ start.realized = acc.realized /\ start.dividends = acc.dividends
             /\ now = Effect(start, txn) /\ now \in Replays /\ now.waiting = <<>>
             /\ (now.oversold <=> acc.oversold)
<1> DEFINE start == [acc EXCEPT !.day = DayOf(txn.date)]
           after == Effect(start, txn)
<1>1. DayOf(txn.date) \in Int
  BY TransactionType
<1>2. NewDay(acc, DayOf(txn.date)) = start
  BY <1>1, NewDayFields
<1>3. /\ start \in Replays /\ start.waiting = <<>> /\ start.oversold = acc.oversold
      /\ start.qty = acc.qty /\ start.basis = acc.basis /\ start.realized = acc.realized
      /\ start.dividends = acc.dividends
  BY <1>1 DEF Replays
<1>4. ReplayEvent(acc, txn) = Settle(after, FALSE)
  BY <1>2 DEF ReplayEvent, Meet
<1> HIDE DEF start
<1>5. after \in Replays /\ after.waiting = <<>> /\ (after.oversold <=> acc.oversold)
  BY <1>3, EffectFields
<1> HIDE DEF after
<1>6. Settle(after, FALSE) = after
  BY <1>5, SettleFields, Zenon
<1>7. QED
  BY <1>3, <1>4, <1>5, <1>6 DEF start, after

LEMMA RunWithoutSells ==
  ASSUME NEW seq \in Seq(Transaction), NEW f, IsRun("replay", EmptyReplay, seq, Len(seq), f),
         NEW n \in 0..Len(seq), \A k \in 1..n : seq[k].type # "sell"
  PROVE  \A k \in 0..n : f[k] \in Replays /\ f[k].waiting = <<>> /\ ~f[k].oversold
<1> DEFINE S == {k \in Nat : k <= n => f[k] \in Replays /\ f[k].waiting = <<>> /\ ~f[k].oversold}
<1>0. Len(seq) \in Nat /\ n \in Nat
  OBVIOUS
<1>1. 0 \in S
  <2>1. f[0] = EmptyReplay
    BY Zenon DEF IsRun
  <2>2. QED
    BY <2>1, EmptyReplayType DEF EmptyReplay
<1>2. ASSUME NEW k \in Nat, k \in S PROVE k + 1 \in S
  <2>1. SUFFICES ASSUME k + 1 <= n
                 PROVE  f[k + 1] \in Replays /\ f[k + 1].waiting = <<>> /\ ~f[k + 1].oversold
    OBVIOUS
  <2>2. PICK m \in 1..n : m = k + 1 /\ m - 1 = k
    BY <1>0, <2>1
  <2>3. m \in 1..Len(seq) /\ seq[m] \in Transaction /\ seq[m].type # "sell"
    OBVIOUS
  <2>4. f[m] = ReplayEvent(f[k], seq[m])
    <3>1. f[m] = Step("replay", f[m - 1], seq[m])
      BY <2>3, Zenon DEF IsRun
    <3>2. QED
      BY <2>2, <3>1 DEF Step
  <2>5. f[k] \in Replays /\ f[k].waiting = <<>> /\ ~f[k].oversold
    BY <1>0, <1>2, <2>1
  <2>6. f[m] \in Replays /\ f[m].waiting = <<>> /\ ~f[m].oversold
    <3>1. LET now == ReplayEvent(f[k], seq[m])
          IN  now \in Replays /\ now.waiting = <<>> /\ (now.oversold <=> f[k].oversold)
      BY <2>3, <2>5, EventWithoutSell, Zenon
    <3>2. QED
      BY <2>4, <2>5, <3>1, Zenon
  <2>7. QED
    BY <2>2, <2>6
<1>3. Nat \subseteq S
  <2> HIDE DEF S
  <2>1. QED
    BY <1>1, <1>2, Induction
<1>4. QED
  BY <1>0, <1>3

\* A day that ends oversold in a part of the ledger ends oversold in the whole.
LEMMA OversoldPart ==
  ASSUME NEW part, NEW ledger, IsInitialPart(part, ledger), NEW day \in Int,
         \A i \in Events(part) : IsOpening(ledger[i]) \/ DayOf(ledger[i].date) <= day,
         \A i \in Events(ledger) \ Events(part) : DayOf(ledger[i].date) > day,
         Oversells(part)
  PROVE  Oversells(ledger)
<1>1. IsLedger(part) /\ IsLedger(ledger)
  BY DEF IsInitialPart
<1> DEFINE whole == Ordered(ledger)
           first == Ordered(part)
           n == Size(ledger)
           m == Size(part)
<1>2. /\ whole \in Seq(Transaction) /\ Len(whole) = n /\ n \in Nat
      /\ first \in Seq(Transaction) /\ Len(first) = m /\ m \in Nat
  BY <1>1, OrderedEvents
<1>3. PICK f : /\ IsRun("replay", EmptyReplay, whole, n, f)
               /\ \A k \in 0..n : /\ f[k] \in Replays
                                  /\ \A j \in 0..k : f[j].oversold => f[k].oversold
               /\ Replay(ledger) = Settle(f[n], TRUE)
  BY <1>1, ReplayOfALedger
<1>4. PICK g : /\ IsRun("replay", EmptyReplay, first, m, g)
               /\ \A k \in 0..m : g[k] \in Replays
               /\ Replay(part) = Settle(g[m], TRUE)
  BY <1>1, ReplayOfALedger
<1>5. /\ m <= n
      /\ \A k \in 1..m : AtPlace(part, k) = AtPlace(ledger, k) /\ first[k] = whole[k]
      /\ \A k \in 1..n : AtPlace(ledger, k) \in Events(part) => k \in 1..m
  BY InitialPartKeepsPlaces
<1>6. \A k \in 1..n : AtPlace(ledger, k) \in Events(ledger) /\ whole[k] = ledger[AtPlace(ledger, k)]
  BY <1>1, OrderedEvents
<1>7. \A k \in 1..m : AtPlace(part, k) \in Events(part)
  BY <1>1, OrderedEvents
<1>7a. \A k \in 1..n : Rank(ledger, AtPlace(ledger, k)) = k - 1
  BY <1>1, PlacesAreTaken
<1> HIDE DEF whole, first, n, m
<1>8. f[m] = g[m]
  <2>1. IsRun("replay", EmptyReplay, whole, m, f)
    <3>1. \A k \in 1..m : k \in 1..n
      BY <1>2, <1>5
    <3>2. QED
      BY <1>3, <3>1, Zenon DEF IsRun
  <2>2. \A k \in 0..m : f[k] = g[k]
    BY <1>2, <1>4, <1>5, <2>1, RunsAgree
  <2>3. QED
    BY <1>2, <2>2
<1>9. m \in 0..n /\ n \in 0..n /\ f[m] \in Replays /\ f[n] \in Replays
  BY <1>2, <1>3, <1>5
<1>10. Settle(f[m], TRUE).oversold
  BY <1>4, <1>8 DEF Oversells
<1>11. CASE m = n
  BY <1>3, <1>10, <1>11 DEF Oversells
<1>12. CASE m < n
  <2>1. PICK k \in 1..n : k = m + 1 /\ k - 1 = m
    BY <1>2, <1>12
  <2>2. AtPlace(ledger, k) \in Events(ledger) \ Events(part)
    <3>1. k \notin 1..m
      BY <1>2, <2>1
    <3>2. QED
      BY <1>5, <1>6, <3>1
  <2>3. whole[k] \in Transaction /\ DayOf(whole[k].date) > day
    BY <1>2, <1>6, <2>2
  <2>4. f[k] = ReplayEvent(f[m], whole[k])
    <3>1. f[k] = Step("replay", f[k - 1], whole[k])
      BY <1>3, Zenon DEF IsRun
    <3>2. QED
      BY <2>1, <3>1 DEF Step
  <2>5. CASE m > 0 /\ ~IsOpening(whole[m])
    <3>1. m \in 1..n /\ m \in 1..m /\ m - 1 \in 0..n
      BY <1>2, <1>5, <2>5
    <3>2. AtPlace(ledger, m) \in Events(part) /\ whole[m] = ledger[AtPlace(ledger, m)]
      BY <1>5, <1>6, <1>7, <3>1
    <3>3. DayOf(whole[m].date) <= day
      BY <2>5, <3>2
    <3>4. f[m] = ReplayEvent(f[m - 1], whole[m])
      <4>1. f[m] = Step("replay", f[m - 1], whole[m])
        BY <1>3, <3>1, Zenon DEF IsRun
      <4>2. QED
        BY <4>1 DEF Step
    <3>5. f[m].day = DayOf(whole[m].date)
      <4>1. f[m - 1] \in Replays /\ whole[m] \in Transaction
        BY <1>2, <1>3, <3>1
      <4>2. ReplayEvent(f[m - 1], whole[m]).day = DayOf(whole[m].date)
        BY <4>1, ReplayEventFields
      <4>3. QED
        BY <3>4, <4>2, Zenon
    <3>6. DayOf(whole[m].date) \in Int /\ DayOf(whole[k].date) \in Int
      BY <1>2, <2>3, <3>1, TransactionType
    <3>7. f[m].day # DayOf(whole[k].date)
      BY <2>3, <3>3, <3>5, <3>6
    <3>8. f[k].oversold
      BY <1>9, <1>10, <2>3, <2>4, <3>7, ReplayEventFields
    <3>9. f[n].oversold
      <4>1. k \in 0..n
        BY <1>2, <2>1
      <4>2. QED
        BY <1>3, <1>9, <3>8, <4>1
    <3>10. QED
      BY <1>3, <1>9, <3>9, SettleFields DEF Oversells
  <2>6. CASE m > 0 => IsOpening(whole[m])
    <3>1. \A l \in 1..m : whole[l].type # "sell"
      <4>1. ASSUME NEW l \in 1..m PROVE IsOpening(whole[l])
        <5>1. m \in 1..n /\ l \in 1..n /\ IsOpening(whole[m])
          BY <1>2, <1>5, <2>6
        <5>2. CASE l = m
          BY <5>1, <5>2
        <5>3. CASE l # m
          <6> DEFINE i == AtPlace(ledger, l)
                     j == AtPlace(ledger, m)
          <6>1. i \in Events(ledger) /\ j \in Events(ledger) /\ whole[l] = ledger[i] /\ whole[m] = ledger[j]
            BY <1>6, <5>1
          <6>2. Rank(ledger, i) = l - 1 /\ Rank(ledger, j) = m - 1
            BY <1>7a, <5>1
          <6> HIDE DEF i, j
          <6>3. Rank(ledger, i) < Rank(ledger, j)
            BY <1>2, <5>3, <6>2
          <6>4. Precedes(ledger, i, j)
            BY <1>1, <6>1, <6>3, RanksAreOrdered
          <6>5. QED
            BY <5>1, <6>1, <6>4 DEF Precedes
        <5>4. QED
          BY <5>2, <5>3
      <4>2. QED
        BY <4>1 DEF IsOpening
    <3>2. f[m] \in Replays /\ f[m].waiting = <<>> /\ ~f[m].oversold
      <4>1. \A l \in 0..m : f[l] \in Replays /\ f[l].waiting = <<>> /\ ~f[l].oversold
        BY <1>2, <1>3, <1>9, <3>1, RunWithoutSells
      <4>2. QED
        BY <1>2, <4>1
    <3>3. Settle(f[m], TRUE) = f[m]
      BY <3>2, SettleFields, Zenon
    <3>4. QED
      BY <1>10, <3>2, <3>3
  <2>7. QED
    BY <2>5, <2>6
<1>13. QED
  BY <1>2, <1>5, <1>11, <1>12

\* A ledger without sells oversells on no day.
LEMMA NoSellNoOversell ==
  ASSUME NEW ledger, IsLedger(ledger), \A i \in Events(ledger) : ledger[i].type # "sell"
  PROVE  ~Oversells(ledger)
<1>1. PICK f : /\ IsRun("replay", EmptyReplay, Ordered(ledger), Size(ledger), f)
               /\ Replay(ledger) = Settle(f[Size(ledger)], TRUE)
  BY ReplayOfALedger
<1> DEFINE seq == Ordered(ledger)
<1>2. /\ seq \in Seq(Transaction) /\ Len(seq) = Size(ledger) /\ Size(ledger) \in Nat
      /\ \A k \in 1..Size(ledger) : seq[k].type # "sell"
  BY OrderedEvents
<1> HIDE DEF seq
<1>3. IsRun("replay", EmptyReplay, seq, Len(seq), f) /\ Len(seq) \in 0..Len(seq)
      /\ \A k \in 1..Len(seq) : seq[k].type # "sell"
  BY <1>1, <1>2 DEF seq
<1>4. \A k \in 0..Len(seq) : f[k] \in Replays /\ f[k].waiting = <<>> /\ ~f[k].oversold
  BY <1>2, <1>3, RunWithoutSells, Zenon
<1>5. f[Len(seq)] \in Replays /\ f[Len(seq)].waiting = <<>> /\ ~f[Len(seq)].oversold
  BY <1>3, <1>4, Zenon
<1>6. Settle(f[Len(seq)], TRUE) = f[Len(seq)]
  BY <1>5, SettleFields, Zenon
<1>7. QED
  BY <1>1, <1>2, <1>5, <1>6 DEF Oversells

LEMMA AsOfIsALedger ==
  ASSUME NEW ledger, IsLedger(ledger), NEW day
  PROVE  /\ IsLedger(AsOfLedger(ledger, day))
         /\ Events(AsOfLedger(ledger, day)) = {i \in Events(ledger) : InEffect(ledger[i], day)}
         /\ \A i \in Events(AsOfLedger(ledger, day)) : AsOfLedger(ledger, day)[i] = ledger[i]
<1> DEFINE past == AsOfLedger(ledger, day)
<1>1. DOMAIN past = DOMAIN ledger
      /\ \A i \in DOMAIN ledger :
            past[i] = IF ledger[i] # NoEvent /\ InEffect(ledger[i], day) THEN ledger[i] ELSE NoEvent
  BY DEF AsOfLedger
<1> HIDE DEF past
<1>2. Events(past) = {i \in Events(ledger) : InEffect(ledger[i], day)}
      /\ \A i \in Events(past) : past[i] = ledger[i]
  BY <1>1 DEF Events
<1>3. IsLedger(past)
  BY <1>1, <1>2 DEF IsLedger
<1>4. QED
  BY <1>2, <1>3 DEF past

\* An accepted ledger whose sells are not before a declared opening oversells on
\* no past day, as the heal replays them (snapshot_recompute.go:153-165).
LEMMA AcceptedOnEveryDay ==
  ASSUME NEW ledger, IsLedger(ledger), NEW day \in Int, ~Oversells(ledger),
         \A i, j \in Events(ledger) :
            ledger[i].type = "opening" /\ ledger[j].type = "sell"
            => ledger[i].openingDate <= DayOf(ledger[j].date)
  PROVE  ~Oversells(AsOfLedger(ledger, day))
<1> DEFINE past == AsOfLedger(ledger, day)
<1>1. /\ IsLedger(past)
      /\ Events(past) = {i \in Events(ledger) : InEffect(ledger[i], day)}
      /\ \A i \in Events(past) : past[i] = ledger[i]
  BY AsOfIsALedger
<1> HIDE DEF past
<1>2. \A i \in Events(ledger) : /\ ledger[i] \in Transaction /\ DayOf(ledger[i].date) \in Int
                                /\ ledger[i].openingDate \in Int /\ i \in Nat
                                /\ ledger[i].date \in Nat
  BY TransactionType DEF IsLedger, Transaction, Undated, Events
<1>3. CASE \A i \in Events(ledger) : ledger[i].type = "opening" => InEffect(ledger[i], day)
  <2>1. \A i \in Events(ledger) \ Events(past) :
            ledger[i].type # "opening" /\ DayOf(ledger[i].date) > day
    BY <1>1, <1>2, <1>3 DEF InEffect
  <2>2. \A i \in Events(past) : IsOpening(ledger[i]) \/ DayOf(ledger[i].date) <= day
    BY <1>1, <1>2 DEF InEffect, IsOpening
  <2>3. ASSUME NEW i \in Events(past), NEW j \in Events(ledger), Precedes(ledger, j, i)
        PROVE  j \in Events(past)
    <3>1. CASE IsOpening(ledger[j])
      BY <1>1, <1>3, <3>1 DEF IsOpening
    <3>2. CASE ~IsOpening(ledger[j])
      <4>1. ~IsOpening(ledger[i]) /\ ledger[j].date <= ledger[i].date
        BY <1>1, <1>2, <2>3, <3>2 DEF Precedes
      <4>2. DayOf(ledger[j].date) <= DayOf(ledger[i].date)
        BY <1>1, <1>2, <4>1 DEF DayOf, SlotsPerDay
      <4>3. DayOf(ledger[i].date) <= day
        BY <2>2, <4>1
      <4>4. QED
        BY <1>1, <1>2, <3>2, <4>2, <4>3 DEF InEffect, IsOpening
    <3>3. QED
      BY <3>1, <3>2
  <2>4. IsInitialPart(past, ledger)
    BY <1>1, <2>3 DEF IsInitialPart
  <2>5. QED
    BY <2>1, <2>2, <2>4, OversoldPart DEF past
<1>4. CASE \E i \in Events(ledger) : ledger[i].type = "opening" /\ ~InEffect(ledger[i], day)
  <2>1. PICK i \in Events(ledger) : ledger[i].type = "opening" /\ ~InEffect(ledger[i], day)
    BY <1>4
  <2>2. ledger[i].openingDate > day
    BY <1>2, <2>1 DEF InEffect
  <2>3. \A j \in Events(past) : past[j].type # "sell"
    <3>1. ASSUME NEW j \in Events(past), past[j].type = "sell" PROVE FALSE
      <4>1. j \in Events(ledger) /\ ledger[j].type = "sell" /\ InEffect(ledger[j], day)
        BY <1>1, <3>1
      <4>2. DayOf(ledger[j].date) <= day
        BY <4>1 DEF InEffect
      <4>3. ledger[i].openingDate <= DayOf(ledger[j].date)
        BY <2>1, <4>1
      <4>4. QED
        BY <1>2, <2>2, <4>1, <4>2, <4>3
    <3>2. QED
      BY <3>1
  <2>4. QED
    BY <1>1, <2>3, NoSellNoOversell DEF past
<1>5. QED
  BY <1>3, <1>4

\* An accepted ledger oversells on none of the past days the heal replays it as
\* of, when no sell is dated before a declared opening.
THEOREM AsOfNeverOversellsHolds == RecordSpec => []AsOfNeverOversells
<1>1. ASSUME BookedType PROVE AsOfNeverOversells
  <2>1. IsLedger(booked)
    BY <1>1, BookedIsALedger
  <2>2. SUFFICES ASSUME ~Oversells(booked),
                        \A i \in Typed({"opening"}), j \in Typed({"sell"}) :
                            booked[i].openingDate <= DayOf(booked[j].date),
                        NEW day \in BookedDays
                 PROVE  ~Oversells(AsOfLedger(booked, day))
    BY DEF AsOfNeverOversells
  <2>3. day \in Int
    BY <2>1, TransactionType DEF BookedDays, IsLedger
  <2>4. \A i, j \in Events(booked) :
            booked[i].type = "opening" /\ booked[j].type = "sell"
            => booked[i].openingDate <= DayOf(booked[j].date)
    BY <2>2 DEF Typed
  <2>5. QED
    BY <2>1, <2>2, <2>3, <2>4, AcceptedOnEveryDay
<1>2. QED
  BY <1>1, BookedInvariant, PTL

------------------------------------------------------------------------------
(***************************************************************************)
(* Sums over finite sets, as the community modules compute them: one       *)
(* element after another, in an order nobody chooses.                      *)
(***************************************************************************)
Pick(t) == CHOOSE x \in t : TRUE

Sums(v, base, g) ==
    g = [t \in SUBSET base |-> IF t = {} THEN 0 ELSE v[Pick(t)] + g[t \ {Pick(t)}]]

SumOver(v, ids) == (CHOOSE g : Sums(v, ids, g))[ids]

LEMMA PickedIsRemoved ==
  ASSUME NEW t, IsFiniteSet(t), t # {}
  PROVE  /\ Pick(t) \in t /\ IsFiniteSet(t \ {Pick(t)})
         /\ Cardinality(t) \in Nat \ {0}
         /\ Cardinality(t \ {Pick(t)}) = Cardinality(t) - 1
<1>1. Pick(t) \in t
  BY Zenon DEF Pick
<1>2. Cardinality(t) \in Nat /\ Cardinality(t) # 0
  BY FS_CardinalityType, FS_EmptySet, Zenon
<1>3. QED
  BY <1>1, <1>2, FS_RemoveElement

LEMMA SumsExist ==
  ASSUME NEW v, NEW base, IsFiniteSet(base)
  PROVE  \E g : Sums(v, base, g)
<1> DEFINE Small(n) == {t \in SUBSET base : Cardinality(t) <= n}
           Upto(n, g) == g = [t \in Small(n) |->
                                IF t = {} THEN 0 ELSE v[Pick(t)] + g[t \ {Pick(t)}]]
           S == {n \in Nat : \E g : Upto(n, g)}
<1>a. \A t \in SUBSET base : IsFiniteSet(t) /\ Cardinality(t) \in Nat
  BY FS_Subset, FS_CardinalityType, Zenon
<1>b. {} \in SUBSET base /\ Cardinality({}) = 0
  BY FS_EmptySet, Zenon
<1>1. 0 \in S
  <2> DEFINE g == [t \in Small(0) |-> 0]
  <2>1. \A t \in Small(0) : t = {}
    <3>1. \A t \in SUBSET base : Cardinality(t) <= 0 => Cardinality(t) = 0
      BY <1>a
    <3>2. QED
      BY <1>a, <3>1, FS_EmptySet, Zenon
  <2>2. Upto(0, g)
    BY <2>1
  <2>3. QED
    BY <2>2, Zenon
<1>2. ASSUME NEW n \in Nat, n \in S PROVE n + 1 \in S
  <2>1. PICK f : Upto(n, f)
    BY <1>2
  <2> DEFINE g == [t \in Small(n + 1) |->
                      IF t \in Small(n) THEN f[t] ELSE v[Pick(t)] + f[t \ {Pick(t)}]]
             h == [t \in Small(n + 1) |->
                      IF t = {} THEN 0 ELSE v[Pick(t)] + g[t \ {Pick(t)}]]
  <2>2. ASSUME NEW t \in Small(n + 1) PROVE g[t] = h[t]
    <3>1. CASE t = {}
      <4>1. t \in Small(n)
        BY <1>b, <3>1
      <4>2. QED
        BY <2>1, <3>1, <4>1
    <3>2. CASE t # {}
      <4>1. /\ Cardinality(t) \in Nat \ {0} /\ Cardinality(t) <= n + 1
            /\ Cardinality(t \ {Pick(t)}) = Cardinality(t) - 1
        BY <1>a, <3>2, PickedIsRemoved
      <4>2. t \ {Pick(t)} \in Small(n) /\ t \ {Pick(t)} \in Small(n + 1)
        BY <4>1
      <4>3. g[t \ {Pick(t)}] = f[t \ {Pick(t)}]
        BY <4>2
      <4>4. t \in Small(n) => f[t] = v[Pick(t)] + f[t \ {Pick(t)}]
        BY <2>1, <3>2
      <4>5. QED
        BY <3>2, <4>3, <4>4
    <3>3. QED
      BY <3>1, <3>2
  <2>3. Upto(n + 1, g)
    <3>1. g = h
      BY <2>2
    <3>2. QED
      BY <3>1, Zenon
  <2> HIDE DEF g
  <2>4. n + 1 \in Nat
    OBVIOUS
  <2>5. QED
    BY <2>3, <2>4, Zenon
<1>3. Cardinality(base) \in S
  <2>1. Cardinality(base) \in Nat
    BY FS_CardinalityType, Zenon
  <2> HIDE DEF S
  <2>2. QED
    BY <1>1, <1>2, <2>1, Induction
<1>4. PICK g : Upto(Cardinality(base), g)
  BY <1>3
<1>5. Small(Cardinality(base)) = SUBSET base
  BY FS_Subset, Zenon
<1>6. QED
  BY <1>4, <1>5, Zenon DEF Sums

LEMMA SumsAgree ==
  ASSUME NEW v, NEW w, NEW one, NEW other, NEW g, NEW h,
         Sums(v, one, g), Sums(w, other, h),
         NEW ids, IsFiniteSet(ids), ids \in SUBSET one, ids \in SUBSET other,
         \A i \in ids : v[i] = w[i]
  PROVE  g[ids] = h[ids]
<1> DEFINE S == {n \in Nat : \A t \in SUBSET ids : Cardinality(t) = n => g[t] = h[t]}
<1>a. \A t \in SUBSET ids : IsFiniteSet(t) /\ Cardinality(t) \in Nat
  BY FS_Subset, FS_CardinalityType, Zenon
<1>1. 0 \in S
  <2>1. \A t \in SUBSET ids : Cardinality(t) = 0 => t = {}
    BY <1>a, FS_EmptySet, Zenon
  <2>2. g[{}] = 0 /\ h[{}] = 0
    <3>1. {} \in SUBSET one /\ {} \in SUBSET other
      OBVIOUS
    <3>2. QED
      BY <3>1, Zenon DEF Sums
  <2>3. QED
    BY <2>1, <2>2
<1>2. ASSUME NEW n \in Nat, n \in S PROVE n + 1 \in S
  <2>1. ASSUME NEW t \in SUBSET ids, Cardinality(t) = n + 1 PROVE g[t] = h[t]
    <3>1. t # {}
      BY <2>1, FS_EmptySet
    <3>2. /\ Pick(t) \in t
          /\ Cardinality(t \ {Pick(t)}) = Cardinality(t) - 1
      BY <1>a, <3>1, PickedIsRemoved, Zenon
    <3>3. g[t \ {Pick(t)}] = h[t \ {Pick(t)}]
      <4>1. t \ {Pick(t)} \in SUBSET ids /\ Cardinality(t \ {Pick(t)}) = n
        BY <2>1, <3>2
      <4>2. QED
        BY <1>2, <4>1
    <3>4. t \in SUBSET one /\ t \in SUBSET other
      OBVIOUS
    <3>5. /\ g[t] = v[Pick(t)] + g[t \ {Pick(t)}]
          /\ h[t] = w[Pick(t)] + h[t \ {Pick(t)}]
      BY <3>1, <3>4, Zenon DEF Sums
    <3>6. v[Pick(t)] = w[Pick(t)]
      BY <3>2
    <3>7. QED
      BY <3>3, <3>5, <3>6, Zenon
  <2>2. n + 1 \in Nat
    OBVIOUS
  <2>3. QED
    BY <2>1, <2>2, Zenon
<1>3. Cardinality(ids) \in S
  <2>1. Cardinality(ids) \in Nat
    BY <1>a
  <2> HIDE DEF S
  <2>2. QED
    BY <1>1, <1>2, <2>1, Induction
<1>4. QED
  BY <1>3

LEMMA SumOfASum ==
  ASSUME NEW v, NEW base, NEW g, Sums(v, base, g), NEW ids, IsFiniteSet(ids), ids \in SUBSET base
  PROVE  g[ids] = SumOver(v, ids)
<1> DEFINE h == CHOOSE h : Sums(v, ids, h)
<1>1. Sums(v, ids, h)
  BY SumsExist, Zenon
<1> HIDE DEF h
<1>2. \A i \in ids : v[i] = v[i]
  OBVIOUS
<1>3. ids \in SUBSET ids
  OBVIOUS
<1>4. g[ids] = h[ids]
  BY <1>1, <1>2, <1>3, SumsAgree
<1>5. QED
  BY <1>4, Zenon DEF SumOver, h

LEMMA SameSums ==
  ASSUME NEW v, NEW w, NEW ids, IsFiniteSet(ids), \A i \in ids : v[i] = w[i]
  PROVE  SumOver(v, ids) = SumOver(w, ids)
<1>1. PICK g : Sums(v, ids, g)
  BY SumsExist, Zenon
<1>2. PICK h : Sums(w, ids, h)
  BY SumsExist, Zenon
<1>3. ids \in SUBSET ids
  OBVIOUS
<1>4. g[ids] = h[ids]
  BY <1>1, <1>2, <1>3, SumsAgree
<1>5. g[ids] = SumOver(v, ids) /\ h[ids] = SumOver(w, ids)
  BY <1>1, <1>2, <1>3, SumOfASum
<1>6. QED
  BY <1>4, <1>5

LEMMA EmptySum ==
  ASSUME NEW v
  PROVE  SumOver(v, {}) = 0
<1>1. IsFiniteSet({})
  BY FS_EmptySet
<1>2. PICK g : Sums(v, {}, g)
  BY <1>1, SumsExist, Zenon
<1>3. {} \in SUBSET {}
  OBVIOUS
<1>4. g[{}] = 0
  BY <1>2, <1>3, Zenon DEF Sums
<1>5. g[{}] = SumOver(v, {})
  BY <1>1, <1>2, <1>3, SumOfASum
<1>6. QED
  BY <1>4, <1>5

LEMMA PickedSum ==
  ASSUME NEW v, NEW ids, IsFiniteSet(ids), ids # {}
  PROVE  SumOver(v, ids) = v[Pick(ids)] + SumOver(v, ids \ {Pick(ids)})
<1>1. PICK g : Sums(v, ids, g)
  BY SumsExist, Zenon
<1>2. IsFiniteSet(ids \ {Pick(ids)})
  BY PickedIsRemoved, Zenon
<1>3. ids \in SUBSET ids /\ ids \ {Pick(ids)} \in SUBSET ids
  OBVIOUS
<1>4. g[ids] = v[Pick(ids)] + g[ids \ {Pick(ids)}]
  BY <1>1, <1>3, Zenon DEF Sums
<1>5. g[ids] = SumOver(v, ids) /\ g[ids \ {Pick(ids)}] = SumOver(v, ids \ {Pick(ids)})
  BY <1>1, <1>2, <1>3, SumOfASum
<1>6. QED
  BY <1>4, <1>5, Zenon

LEMMA SumType ==
  ASSUME NEW v, NEW ids, IsFiniteSet(ids), \A i \in ids : v[i] \in Int
  PROVE  SumOver(v, ids) \in Int /\ ((\A i \in ids : v[i] >= 0) => SumOver(v, ids) >= 0)
<1> DEFINE Fits(t) == SumOver(v, t) \in Int /\ ((\A i \in ids : v[i] >= 0) => SumOver(v, t) >= 0)
           S == {n \in Nat : \A t \in SUBSET ids : Cardinality(t) = n => Fits(t)}
<1>a. \A t \in SUBSET ids : IsFiniteSet(t) /\ Cardinality(t) \in Nat
  BY FS_Subset, FS_CardinalityType, Zenon
<1>1. 0 \in S
  <2>1. \A t \in SUBSET ids : Cardinality(t) = 0 => t = {}
    BY <1>a, FS_EmptySet, Zenon
  <2>2. Fits({})
    BY EmptySum
  <2>3. QED
    BY <2>1, <2>2, Zenon
<1>2. ASSUME NEW n \in Nat, n \in S PROVE n + 1 \in S
  <2>1. ASSUME NEW t \in SUBSET ids, Cardinality(t) = n + 1 PROVE Fits(t)
    <3>1. t # {}
      BY <2>1, FS_EmptySet
    <3>2. /\ Pick(t) \in t
          /\ Cardinality(t \ {Pick(t)}) = Cardinality(t) - 1
      BY <1>a, <3>1, PickedIsRemoved, Zenon
    <3>3. Fits(t \ {Pick(t)})
      <4>1. t \ {Pick(t)} \in SUBSET ids /\ Cardinality(t \ {Pick(t)}) = n
        BY <2>1, <3>2
      <4>2. QED
        BY <1>2, <4>1
    <3>4. SumOver(v, t) = v[Pick(t)] + SumOver(v, t \ {Pick(t)})
      BY <1>a, <3>1, PickedSum, Zenon
    <3>5. v[Pick(t)] \in Int /\ Pick(t) \in ids
      BY <3>2
    <3>6. QED
      BY <3>3, <3>4, <3>5
  <2>2. n + 1 \in Nat
    OBVIOUS
  <2>3. QED
    BY <2>1, <2>2, Zenon
<1>3. Cardinality(ids) \in S
  <2>1. Cardinality(ids) \in Nat
    BY <1>a
  <2> HIDE DEF S
  <2>2. QED
    BY <1>1, <1>2, <2>1, Induction
<1>4. QED
  BY <1>3

LEMMA SumWithOneMore ==
  ASSUME NEW v, NEW ids, IsFiniteSet(ids), NEW x, x \notin ids,
         \A i \in ids \cup {x} : v[i] \in Int
  PROVE  SumOver(v, ids \cup {x}) = v[x] + SumOver(v, ids)
<1> DEFINE all == ids \cup {x}
           More(t, y) == SumOver(v, t \cup {y}) = v[y] + SumOver(v, t)
           S == {n \in Nat : \A t \in SUBSET all : \A y \in all \ t : Cardinality(t) = n => More(t, y)}
<1>0. IsFiniteSet(all)
  BY FS_AddElement, Zenon
<1>a. \A t \in SUBSET all : IsFiniteSet(t) /\ Cardinality(t) \in Nat
  BY <1>0, FS_Subset, FS_CardinalityType, Zenon
<1>b. ASSUME NEW t \in SUBSET all PROVE SumOver(v, t) \in Int
  <2>1. IsFiniteSet(t) /\ \A i \in t : v[i] \in Int
    BY <1>a
  <2>2. QED
    BY <2>1, SumType, Zenon
<1>c. ASSUME NEW t \in SUBSET all, NEW y \in all \ t
      PROVE  /\ IsFiniteSet(t \cup {y}) /\ t \cup {y} # {} /\ (t \cup {y}) \ {y} = t
             /\ Pick(t \cup {y}) = y => More(t, y)
  <2>1. IsFiniteSet(t \cup {y})
    BY <1>a, FS_AddElement, Zenon
  <2>2. t \cup {y} # {} /\ (t \cup {y}) \ {y} = t
    OBVIOUS
  <2>3. SumOver(v, t \cup {y}) = v[Pick(t \cup {y})] + SumOver(v, (t \cup {y}) \ {Pick(t \cup {y})})
    BY <2>1, <2>2, PickedSum, Zenon
  <2>4. Pick(t \cup {y}) = y => SumOver(v, t \cup {y}) = v[y] + SumOver(v, t)
    BY <2>2, <2>3, Zenon
  <2>5. QED
    BY <2>1, <2>2, <2>4
<1>1. 0 \in S
  <2>1. ASSUME NEW t \in SUBSET all, NEW y \in all \ t, Cardinality(t) = 0 PROVE More(t, y)
    <3>1. t = {}
      BY <1>a, <2>1, FS_EmptySet, Zenon
    <3>2. Pick(t \cup {y}) \in t \cup {y}
      BY Zenon DEF Pick
    <3>3. Pick(t \cup {y}) = y
      BY <3>1, <3>2
    <3>4. QED
      BY <1>c, <3>3, Zenon
  <2>2. QED
    BY <2>1, Zenon
<1>2. ASSUME NEW n \in Nat, n \in S PROVE n + 1 \in S
  <2>1. ASSUME NEW t \in SUBSET all, NEW y \in all \ t, Cardinality(t) = n + 1 PROVE More(t, y)
    <3> DEFINE p == Pick(t \cup {y})
               rest == t \ {p}
    <3>1. p \in t \cup {y}
      BY Zenon DEF Pick
    <3>2. CASE p = y
      BY <1>c, <3>2
    <3>3. CASE p # y
      <4>1. p \in t
        BY <3>1, <3>3
      <4>2. rest \in SUBSET all /\ Cardinality(rest) = n /\ p \in all \ rest /\ y \in all \ rest
        <5>1. Cardinality(t \ {p}) = Cardinality(t) - 1
          BY <1>a, <4>1, FS_RemoveElement, Zenon
        <5>2. QED
          BY <2>1, <4>1, <5>1
      <4>3. More(rest, y) /\ More(rest, p)
        BY <1>2, <4>2
      <4>4. SumOver(v, t \cup {y}) = v[p] + SumOver(v, (t \cup {y}) \ {p})
        BY <1>c, PickedSum, Zenon
      <4>5. (t \cup {y}) \ {p} = rest \cup {y} /\ rest \cup {p} = t
        BY <3>3, <4>1
      <4>6. v[p] \in Int /\ v[y] \in Int /\ SumOver(v, rest) \in Int
        BY <1>b, <4>2
      <4>7. SumOver(v, t) = v[p] + SumOver(v, rest)
        BY <4>3, <4>5, Zenon
      <4>8. SumOver(v, t \cup {y}) = v[p] + (v[y] + SumOver(v, rest))
        BY <4>3, <4>4, <4>5, Zenon
      <4> HIDE DEF p, rest
      <4>9. QED
        BY <4>6, <4>7, <4>8
    <3>4. QED
      BY <3>2, <3>3
  <2>2. n + 1 \in Nat
    OBVIOUS
  <2> HIDE DEF More
  <2>3. QED
    BY <2>1, <2>2, Zenon
<1>3. Cardinality(ids) \in S
  <2>1. Cardinality(ids) \in Nat
    BY <1>a
  <2> HIDE DEF S
  <2>2. QED
    BY <1>1, <1>2, <2>1, Induction
<1>4. ids \in SUBSET all /\ x \in all \ ids
  OBVIOUS
<1>5. QED
  BY <1>3, <1>4, Zenon

\* The sum of a field over some events.
Field(ledger, field, ids) == [i \in ids |-> ledger[i][field]]

LEMMA TotalIsASum ==
  ASSUME NEW field, NEW ids, IsFiniteSet(ids)
  PROVE  Total(field, ids) = SumOver(Field(booked, field, ids), ids)
<1> DEFINE v == Field(booked, field, ids)
           iter == CHOOSE g : g = [t \in SUBSET ids |->
                      IF t = {} THEN 0 ELSE booked[Pick(t)][field] + g[t \ {Pick(t)}]]
<1>0. \A t \in SUBSET ids : t # {} => v[Pick(t)] = booked[Pick(t)][field]
  <2>1. \A t \in SUBSET ids : t # {} => Pick(t) \in t
    BY Zenon DEF Pick
  <2>2. QED
    BY <2>1 DEF Field
<1> HIDE DEF v
<1>1. PICK g : Sums(v, ids, g)
  BY SumsExist, Zenon
<1>2. g = [t \in SUBSET ids |->
             IF t = {} THEN 0 ELSE booked[Pick(t)][field] + g[t \ {Pick(t)}]]
  <2>1. \A t \in SUBSET ids :
           (IF t = {} THEN 0 ELSE v[Pick(t)] + g[t \ {Pick(t)}])
           = (IF t = {} THEN 0 ELSE booked[Pick(t)][field] + g[t \ {Pick(t)}])
    BY <1>0, Zenon
  <2>2. QED
    BY <1>1, <2>1, Zenon DEF Sums
<1>3. iter = [t \in SUBSET ids |->
             IF t = {} THEN 0 ELSE booked[Pick(t)][field] + iter[t \ {Pick(t)}]]
  BY <1>2, Zenon
<1>4. iter[ids] = SumOver(v, ids)
  <2> HIDE DEF iter
  <2>1. \A t \in SUBSET ids :
           (IF t = {} THEN 0 ELSE v[Pick(t)] + iter[t \ {Pick(t)}])
           = (IF t = {} THEN 0 ELSE booked[Pick(t)][field] + iter[t \ {Pick(t)}])
    BY <1>0, Zenon
  <2>2. Sums(v, ids, iter)
    BY <1>3, <2>1, Zenon DEF Sums
  <2>3. ids \in SUBSET ids
    OBVIOUS
  <2>4. QED
    BY <2>2, <2>3, SumOfASum
<1>5. QED
  BY <1>4, Zenon DEF Total, MapThenSumSet, MapThenFoldSet, Pick, v

------------------------------------------------------------------------------
(***************************************************************************)
(* The openings stand first, and all the replay keeps of them is sums, so  *)
(* their own order does not matter.                                        *)
(***************************************************************************)
Openings(ledger) == {i \in Events(ledger) : IsOpening(ledger[i])}

Quantities(ledger) == [i \in Events(ledger) |-> ledger[i].quantity]
Costs(ledger) == [i \in Events(ledger) |-> IF ledger[i].quantity > 0 THEN ledger[i].amount ELSE 0]
Seeds(ledger) == [i \in Events(ledger) |-> ledger[i].seed]

\* The events at the first places.
First(ledger, n) == {AtPlace(ledger, k) : k \in 1..n}

LEMMA FirstPlaces ==
  ASSUME NEW ledger, IsLedger(ledger), NEW n \in 0..Size(ledger)
  PROVE  /\ First(ledger, n) \subseteq Events(ledger) /\ IsFiniteSet(First(ledger, n))
         /\ First(ledger, 0) = {}
         /\ n < Size(ledger) => /\ AtPlace(ledger, n + 1) \notin First(ledger, n)
                                /\ First(ledger, n + 1) = First(ledger, n) \cup {AtPlace(ledger, n + 1)}
         /\ \A i \in Events(ledger) : i \in First(ledger, n) <=> Rank(ledger, i) < n
<1>1. Size(ledger) \in Nat /\ n \in Nat /\ n <= Size(ledger) /\ IsFiniteSet(Events(ledger))
  BY EventsAreFinite
<1>2. \A k \in 1..Size(ledger) : /\ AtPlace(ledger, k) \in Events(ledger)
                                 /\ Rank(ledger, AtPlace(ledger, k)) = k - 1
  BY PlacesAreTaken
<1>3. First(ledger, n) \subseteq Events(ledger)
  BY <1>1, <1>2 DEF First
<1>4. IsFiniteSet(First(ledger, n))
  BY <1>1, <1>3, FS_Subset
<1>5. First(ledger, 0) = {}
  BY DEF First
<1>6. ASSUME n < Size(ledger)
      PROVE  /\ AtPlace(ledger, n + 1) \notin First(ledger, n)
             /\ First(ledger, n + 1) = First(ledger, n) \cup {AtPlace(ledger, n + 1)}
  <2>1. n + 1 \in 1..Size(ledger)
    BY <1>1, <1>6
  <2>2. PICK m \in 1..Size(ledger) : m = n + 1
    BY <2>1
  <2>3. ASSUME NEW k \in 1..n PROVE AtPlace(ledger, k) # AtPlace(ledger, m)
    <3>1. k \in 1..Size(ledger) /\ k - 1 # m - 1
      BY <1>1, <2>2
    <3>2. QED
      BY <1>2, <3>1
  <2>4. AtPlace(ledger, m) \notin First(ledger, n)
    BY <2>3, Zenon DEF First
  <2>5. 1..m = 1..n \cup {m}
    BY <1>1, <2>2
  <2>6. First(ledger, m) = First(ledger, n) \cup {AtPlace(ledger, m)}
    BY <2>5 DEF First
  <2>7. QED
    BY <2>2, <2>4, <2>6
<1>7. ASSUME NEW i \in Events(ledger) PROVE i \in First(ledger, n) <=> Rank(ledger, i) < n
  <2>1. Rank(ledger, i) + 1 \in 1..Size(ledger) /\ AtPlace(ledger, Rank(ledger, i) + 1) = i
    BY PlaceOfAnEvent
  <2>2. Rank(ledger, i) \in Nat
    <3>1. Rank(ledger, i) \in 0..(Size(ledger) - 1)
      BY RanksAreOrdered
    <3>2. QED
      BY <1>1, <3>1
  <2>3. ASSUME Rank(ledger, i) < n PROVE i \in First(ledger, n)
    <3>1. Rank(ledger, i) + 1 \in 1..n
      BY <1>1, <2>2, <2>3
    <3>2. QED
      BY <2>1, <3>1 DEF First
  <2>4. ASSUME i \in First(ledger, n) PROVE Rank(ledger, i) < n
    <3>1. PICK k \in 1..n : i = AtPlace(ledger, k)
      BY <2>4 DEF First
    <3>2. k \in 1..Size(ledger)
      BY <1>1
    <3>3. Rank(ledger, i) = k - 1
      BY <1>2, <3>1, <3>2
    <3>4. QED
      BY <1>1, <3>3
  <2>5. QED
    BY <2>3, <2>4
<1>8. QED
  BY <1>3, <1>4, <1>5, <1>6, <1>7

LEMMA OpeningsStandFirst ==
  ASSUME NEW ledger, IsLedger(ledger)
  PROVE  LET m == Cardinality(Openings(ledger))
         IN  /\ m \in 0..Size(ledger)
             /\ First(ledger, m) = Openings(ledger)
             /\ \A k \in 1..Size(ledger) : AtPlace(ledger, k) \in Openings(ledger) <=> k <= m
<1> DEFINE part == [i \in DOMAIN ledger |-> IF i \in Openings(ledger) THEN ledger[i] ELSE NoEvent]
           m == Cardinality(Openings(ledger))
<1>1. Events(part) = Openings(ledger) /\ \A i \in Events(part) : part[i] = ledger[i]
  BY DEF Events, Openings
<1>2. IsLedger(part)
  BY <1>1 DEF IsLedger, Openings
<1>3. IsInitialPart(part, ledger)
  <2>1. \A i \in Openings(ledger), j \in Events(ledger) : Precedes(ledger, j, i) => j \in Openings(ledger)
    BY DEF Openings, Precedes
  <2> HIDE DEF part
  <2>2. QED
    BY <1>1, <1>2, <2>1 DEF IsInitialPart, Openings
<1>4. Size(part) = m
  BY <1>1 DEF Size
<1> HIDE DEF part, m
<1>5. /\ m \in Nat /\ Size(ledger) \in Nat /\ m <= Size(ledger)
      /\ \A k \in 1..m : AtPlace(part, k) = AtPlace(ledger, k)
      /\ \A k \in 1..Size(ledger) : AtPlace(ledger, k) \in Openings(ledger) => k \in 1..m
  BY <1>1, <1>3, <1>4, InitialPartKeepsPlaces
<1>6. \A k \in 1..m : AtPlace(ledger, k) \in Openings(ledger)
  BY <1>1, <1>2, <1>4, <1>5, OrderedEvents
<1>7. \A k \in 1..Size(ledger) : AtPlace(ledger, k) \in Openings(ledger) <=> k <= m
  BY <1>5, <1>6
<1>8. First(ledger, m) = Openings(ledger)
  <2>1. First(ledger, m) \subseteq Openings(ledger)
    BY <1>6 DEF First
  <2>2. ASSUME NEW i \in Openings(ledger) PROVE i \in First(ledger, m)
    <3>1. i \in Events(ledger)
      BY DEF Openings
    <3>2. PICK k \in 1..Size(ledger) : AtPlace(ledger, k) = i
      BY <3>1, PlaceOfAnEvent
    <3>3. k \in 1..m
      BY <1>5, <3>2
    <3>4. QED
      BY <3>2, <3>3 DEF First
  <2>3. QED
    BY <2>1, <2>2
<1>9. m \in 0..Size(ledger)
  BY <1>5
<1>10. QED
  BY <1>7, <1>8, <1>9 DEF m

\* A sum over the first places grows by the event at the next place.
LEMMA SumAtNextPlace ==
  ASSUME NEW ledger, IsLedger(ledger), NEW v, \A i \in Events(ledger) : v[i] \in Int,
         NEW k \in 1..Size(ledger)
  PROVE  /\ SumOver(v, First(ledger, k - 1)) \in Int
         /\ SumOver(v, First(ledger, k)) = SumOver(v, First(ledger, k - 1)) + v[AtPlace(ledger, k)]
<1>1. Size(ledger) \in Nat
  BY EventsAreFinite
<1>2. k - 1 \in 0..Size(ledger) /\ k - 1 < Size(ledger) /\ k - 1 + 1 = k
  BY <1>1
<1>3. /\ First(ledger, k - 1) \subseteq Events(ledger) /\ IsFiniteSet(First(ledger, k - 1))
      /\ AtPlace(ledger, k) \notin First(ledger, k - 1)
      /\ First(ledger, k) = First(ledger, k - 1) \cup {AtPlace(ledger, k)}
  BY <1>2, FirstPlaces
<1>4. AtPlace(ledger, k) \in Events(ledger)
  BY PlacesAreTaken
<1>5. \A i \in First(ledger, k - 1) \cup {AtPlace(ledger, k)} : v[i] \in Int
  BY <1>3, <1>4
<1>6. SumOver(v, First(ledger, k)) = v[AtPlace(ledger, k)] + SumOver(v, First(ledger, k - 1))
  BY <1>3, <1>5, SumWithOneMore
<1>7. SumOver(v, First(ledger, k - 1)) \in Int
  BY <1>3, <1>5, SumType
<1>8. QED
  BY <1>4, <1>6, <1>7

\* What the openings among some events bring, as a state of the replay.
Brought(ledger, ids, acc) ==
    /\ acc.qty = Whole(SumOver(Quantities(ledger), ids))
    /\ acc.basis = Whole(SumOver(Costs(ledger), ids))
    /\ acc.realized = Whole(SumOver(Seeds(ledger), ids))
    /\ acc.dividends = Zero /\ acc.oversold = FALSE /\ acc.waiting = <<>>

LEMMA FieldTypes ==
  ASSUME NEW ledger, IsLedger(ledger), NEW i \in Events(ledger)
  PROVE  /\ Quantities(ledger)[i] = ledger[i].quantity /\ ledger[i].quantity \in Nat
         /\ Costs(ledger)[i] = (IF ledger[i].quantity > 0 THEN ledger[i].amount ELSE 0)
         /\ Costs(ledger)[i] \in Nat
         /\ Seeds(ledger)[i] = ledger[i].seed /\ ledger[i].seed \in Int
         /\ ledger[i].amount \in Nat /\ ledger[i] \in Transaction
<1>1. ledger[i] \in Transaction
  BY DEF IsLedger
<1>2. QED
  BY <1>1, TransactionType DEF Quantities, Costs, Seeds

LEMMA OpeningEffect ==
  ASSUME NEW acc \in Replays, NEW txn \in Transaction, txn.type = "opening"
  PROVE  LET now == Effect(acc, txn)
         IN  /\ now \in Replays
             /\ now.qty = (IF txn.quantity > 0 THEN Plus(acc.qty, Whole(txn.quantity)) ELSE acc.qty)
             /\ now.basis = (IF txn.quantity > 0 THEN Plus(acc.basis, Whole(txn.amount)) ELSE acc.basis)
             /\ now.realized = Plus(acc.realized, Whole(txn.seed))
             /\ now.dividends = acc.dividends /\ now.oversold = acc.oversold
             /\ now.waiting = acc.waiting /\ now.day = acc.day
<1> DEFINE held == Acquire(acc, txn)
<1>1. Effect(acc, txn) = [held EXCEPT !.realized = Plus(@, Whole(txn.seed))]
  BY DEF Effect
<1>2. /\ held \in Replays
      /\ held.qty = (IF txn.quantity > 0 THEN Plus(acc.qty, Whole(txn.quantity)) ELSE acc.qty)
      /\ held.basis = (IF txn.quantity > 0 THEN Plus(acc.basis, Whole(txn.amount)) ELSE acc.basis)
      /\ held.realized = acc.realized /\ held.dividends = acc.dividends
      /\ held.oversold = acc.oversold /\ held.waiting = acc.waiting /\ held.day = acc.day
  BY AcquireFields
<1>3. Effect(acc, txn) \in Replays
  BY EffectFields
<1> HIDE DEF held
<1>4. QED
  BY <1>1, <1>2, <1>3 DEF Replays

LEMMA RunOfOpenings ==
  ASSUME NEW ledger, IsLedger(ledger), NEW f,
         IsRun("replay", EmptyReplay, Ordered(ledger), Size(ledger), f),
         NEW m \in 0..Size(ledger), \A k \in 1..m : AtPlace(ledger, k) \in Openings(ledger)
  PROVE  \A k \in 0..m : f[k] \in Replays /\ Brought(ledger, First(ledger, k), f[k])
<1> DEFINE S == {k \in Nat : k <= m => f[k] \in Replays /\ Brought(ledger, First(ledger, k), f[k])}
<1>0. Size(ledger) \in Nat /\ m \in Nat /\ m <= Size(ledger) /\ 0 \in 0..Size(ledger)
  BY EventsAreFinite
<1>1. 0 \in S
  <2>1. f[0] = EmptyReplay
    BY Zenon DEF IsRun
  <2>2. First(ledger, 0) = {}
    BY <1>0, FirstPlaces
  <2>3. Brought(ledger, First(ledger, 0), EmptyReplay)
    BY <2>2, EmptySum DEF Brought, EmptyReplay, Zero
  <2>4. QED
    BY <2>1, <2>3, EmptyReplayType
<1>2. ASSUME NEW k \in Nat, k \in S PROVE k + 1 \in S
  <2>1. SUFFICES ASSUME k + 1 <= m
                 PROVE  f[k + 1] \in Replays /\ Brought(ledger, First(ledger, k + 1), f[k + 1])
    OBVIOUS
  <2>2. PICK j \in 1..m : j = k + 1 /\ j - 1 = k
    BY <1>0, <2>1
  <2>3. j \in 1..Size(ledger)
    BY <1>0
  <2> DEFINE i == AtPlace(ledger, j)
             txn == ledger[i]
             start == [f[k] EXCEPT !.day = DayOf(txn.date)]
  <2>4. i \in Events(ledger) /\ txn.type = "opening"
    BY DEF Openings, IsOpening
  <2>5. Ordered(ledger)[j] = txn
    BY <2>3, OrderedEvents
  <2>6. f[j] = ReplayEvent(f[k], txn)
    <3>1. f[j] = Step("replay", f[j - 1], Ordered(ledger)[j])
      BY <2>3, Zenon DEF IsRun
    <3>2. QED
      BY <2>2, <2>5, <3>1 DEF Step
  <2>7. f[k] \in Replays /\ Brought(ledger, First(ledger, k), f[k])
    BY <1>0, <1>2, <2>1
  <2>8. /\ txn \in Transaction
        /\ Quantities(ledger)[i] = txn.quantity /\ txn.quantity \in Nat
        /\ Costs(ledger)[i] = (IF txn.quantity > 0 THEN txn.amount ELSE 0)
        /\ Seeds(ledger)[i] = txn.seed /\ txn.seed \in Int /\ txn.amount \in Nat
    BY <2>4, FieldTypes
  <2> HIDE DEF txn
  <2>9. f[k].waiting = <<>> /\ f[k].oversold = FALSE /\ f[k].dividends = Zero
    BY <2>7 DEF Brought
  <2>10. /\ start \in Replays /\ start.qty = f[k].qty /\ start.basis = f[k].basis
         /\ start.realized = f[k].realized /\ start.dividends = f[k].dividends
         /\ ReplayEvent(f[k], txn) = Effect(start, txn)
         /\ ReplayEvent(f[k], txn).waiting = <<>>
         /\ (ReplayEvent(f[k], txn).oversold <=> f[k].oversold)
    <3>1. PICK acc \in Replays : acc = f[k]
      BY <2>7
    <3>2. acc.waiting = <<>> /\ txn.type # "sell"
      BY <2>4, <2>9, <3>1
    <3>3. LET begun == [acc EXCEPT !.day = DayOf(txn.date)]
              next == ReplayEvent(acc, txn)
          IN  /\ begun \in Replays /\ begun.qty = acc.qty /\ begun.basis = acc.basis
              /\ begun.realized = acc.realized /\ begun.dividends = acc.dividends
              /\ next = Effect(begun, txn) /\ next \in Replays /\ next.waiting = <<>>
              /\ (next.oversold <=> acc.oversold)
      <4> HIDE DEF start
      <4>1. txn \in Transaction
        BY <2>8
      <4>2. QED
        BY <3>2, <4>1, EventWithoutSell, Zenon
    <3>4. QED
      BY <3>1, <3>3
  <2> HIDE DEF start
  <2> DEFINE now == Effect(start, txn)
  <2>11. /\ now \in Replays
         /\ now.qty = (IF txn.quantity > 0 THEN Plus(start.qty, Whole(txn.quantity)) ELSE start.qty)
         /\ now.basis = (IF txn.quantity > 0 THEN Plus(start.basis, Whole(txn.amount)) ELSE start.basis)
         /\ now.realized = Plus(start.realized, Whole(txn.seed))
         /\ now.dividends = start.dividends
    BY <2>4, <2>8, <2>10, OpeningEffect
  <2>12. now.oversold = FALSE
    <3>1. now.oversold <=> f[k].oversold
      BY <2>10
    <3>2. QED
      BY <2>9, <2>11, <3>1 DEF Replays
  <2> HIDE DEF now
  <2> DEFINE q == SumOver(Quantities(ledger), First(ledger, k))
             c == SumOver(Costs(ledger), First(ledger, k))
             s == SumOver(Seeds(ledger), First(ledger, k))
  <2>13. /\ q \in Int /\ SumOver(Quantities(ledger), First(ledger, j)) = q + Quantities(ledger)[i]
         /\ c \in Int /\ SumOver(Costs(ledger), First(ledger, j)) = c + Costs(ledger)[i]
         /\ s \in Int /\ SumOver(Seeds(ledger), First(ledger, j)) = s + Seeds(ledger)[i]
    <3>1. \A e \in Events(ledger) : /\ Quantities(ledger)[e] \in Int /\ Costs(ledger)[e] \in Int
                                    /\ Seeds(ledger)[e] \in Int
      BY FieldTypes
    <3>2. QED
      BY <2>2, <2>3, <3>1, SumAtNextPlace
  <2>14. f[k].qty = Whole(q) /\ f[k].basis = Whole(c) /\ f[k].realized = Whole(s)
    BY <2>7 DEF Brought
  <2> HIDE DEF q, c, s, i
  <2>14a. /\ Plus(Whole(q), Whole(txn.quantity)) = Whole(q + txn.quantity)
          /\ Plus(Whole(c), Whole(txn.amount)) = Whole(c + txn.amount)
          /\ Plus(Whole(s), Whole(txn.seed)) = Whole(s + txn.seed)
    <3>1. txn.quantity \in Int /\ txn.amount \in Int /\ q \in Int /\ c \in Int
      BY <2>8, <2>13
    <3>2. QED
      BY <2>8, <2>13, <3>1, WholeOps, Zenon
  <2>15. now.qty = Whole(q + txn.quantity)
    <3>1. CASE txn.quantity > 0
      BY <2>10, <2>11, <2>14, <2>14a, <3>1
    <3>2. CASE ~(txn.quantity > 0)
      <4>1. q + txn.quantity = q
        BY <2>8, <2>13, <3>2
      <4>2. QED
        BY <2>10, <2>11, <2>14, <3>2, <4>1
    <3>3. QED
      BY <3>1, <3>2
  <2>16. now.basis = Whole(c + Costs(ledger)[i])
    <3>1. CASE txn.quantity > 0
      BY <2>8, <2>10, <2>11, <2>14, <2>14a, <3>1
    <3>2. CASE ~(txn.quantity > 0)
      <4>1. c + Costs(ledger)[i] = c
        BY <2>8, <2>13, <3>2
      <4>2. QED
        BY <2>10, <2>11, <2>14, <3>2, <4>1
    <3>3. QED
      BY <3>1, <3>2
  <2>17. now.realized = Whole(s + txn.seed)
    BY <2>10, <2>11, <2>14, <2>14a
  <2>18. f[j] = now /\ now.waiting = <<>> /\ now.dividends = Zero
    BY <2>6, <2>9, <2>10, <2>11 DEF now
  <2>19. Brought(ledger, First(ledger, j), f[j])
    BY <2>8, <2>12, <2>13, <2>15, <2>16, <2>17, <2>18 DEF Brought
  <2>20. QED
    BY <2>2, <2>11, <2>18, <2>19
<1>3. Nat \subseteq S
  <2> HIDE DEF S
  <2>1. QED
    BY <1>1, <1>2, Induction
<1>4. QED
  BY <1>0, <1>3

SameButOpenings(one, other) ==
    /\ IsLedger(one) /\ IsLedger(other) /\ Events(other) = Events(one)
    /\ \A i \in Events(one) :
          IF IsOpening(one[i])
          THEN /\ IsOpening(other[i]) /\ other[i].quantity = one[i].quantity
               /\ other[i].amount = one[i].amount /\ other[i].seed = one[i].seed
          ELSE other[i] = one[i]

LEMMA SameFields ==
  ASSUME NEW one, NEW other, SameButOpenings(one, other)
  PROVE  /\ Size(other) = Size(one) /\ Openings(other) = Openings(one)
         /\ Quantities(other) = Quantities(one) /\ Costs(other) = Costs(one)
         /\ Seeds(other) = Seeds(one)
<1>1. Events(other) = Events(one)
  BY DEF SameButOpenings
<1>2. \A i \in Events(one) : /\ IsOpening(other[i]) <=> IsOpening(one[i])
                             /\ other[i].quantity = one[i].quantity
                             /\ other[i].amount = one[i].amount /\ other[i].seed = one[i].seed
  BY DEF SameButOpenings
<1>3. QED
  BY <1>1, <1>2, Zenon DEF Size, Openings, Quantities, Costs, Seeds

LEMMA SamePlacesAfterOpenings ==
  ASSUME NEW one, NEW other, SameButOpenings(one, other),
         NEW k \in 1..Size(one), k > Cardinality(Openings(one))
  PROVE  Ordered(other)[k] = Ordered(one)[k]
<1> DEFINE i == AtPlace(one, k)
<1>1. /\ IsLedger(one) /\ IsLedger(other) /\ Events(other) = Events(one)
      /\ Size(other) = Size(one) /\ Openings(other) = Openings(one)
  BY SameFields DEF SameButOpenings
<1>2. i \in Events(one) /\ Rank(one, i) = k - 1 /\ Ordered(one)[k] = one[i]
  BY <1>1, PlacesAreTaken, OrderedEvents
<1>3. i \notin Openings(one)
  <2>1. /\ Cardinality(Openings(one)) \in 0..Size(one)
        /\ (AtPlace(one, k) \in Openings(one)) <=> k <= Cardinality(Openings(one))
    BY <1>1, OpeningsStandFirst
  <2>2. QED
    BY <2>1
<1> HIDE DEF i
<1>4. ~IsOpening(one[i]) /\ other[i] = one[i]
  BY <1>2, <1>3 DEF Openings, SameButOpenings
<1>5. \A j \in Events(one) : Precedes(other, j, i) <=> Precedes(one, j, i)
  <2>1. ASSUME NEW j \in Events(one) PROVE Precedes(other, j, i) <=> Precedes(one, j, i)
    <3>1. CASE IsOpening(one[j])
      BY <1>4, <3>1 DEF Precedes, SameButOpenings
    <3>2. CASE ~IsOpening(one[j])
      BY <1>4, <3>2 DEF Precedes, SameButOpenings
    <3>3. QED
      BY <3>1, <3>2
  <2>2. QED
    BY <2>1
<1>6. Preceding(other, i) = Preceding(one, i)
  BY <1>1, <1>5, Zenon DEF Preceding
<1>7. Rank(other, i) = k - 1 /\ i \in Events(other)
  BY <1>1, <1>2, <1>6 DEF Rank
<1>8. AtPlace(other, Rank(other, i) + 1) = i
  BY <1>1, <1>7, PlaceOfAnEvent
<1>9. Rank(other, i) + 1 = k
  <2>1. k \in Int
    OBVIOUS
  <2>2. QED
    BY <1>7, <2>1
<1>10. Ordered(other)[k] = other[i]
  <2>1. Ordered(other)[k] = other[AtPlace(other, k)]
    BY <1>1, OrderedEvents
  <2>2. QED
    BY <1>8, <1>9, <2>1
<1>11. QED
  BY <1>2, <1>4, <1>10

SamePosition(one, other) ==
    /\ one.qty = other.qty /\ one.basis = other.basis /\ one.realized = other.realized
    /\ one.dividends = other.dividends /\ one.oversold = other.oversold

\* Neither the dates of the openings nor their order matter to the position.
LEMMA OpeningDatesDoNotMatter ==
  ASSUME NEW one, NEW other, SameButOpenings(one, other)
  PROVE  SamePosition(Replay(other), Replay(one))
<1> DEFINE n == Size(one)
           m == Cardinality(Openings(one))
<1>1. /\ IsLedger(one) /\ IsLedger(other) /\ Events(other) = Events(one)
      /\ Size(other) = n /\ Openings(other) = Openings(one)
      /\ Quantities(other) = Quantities(one) /\ Costs(other) = Costs(one)
      /\ Seeds(other) = Seeds(one)
  BY SameFields DEF SameButOpenings
<1>2. PICK f : /\ IsRun("replay", EmptyReplay, Ordered(one), n, f)
               /\ \A k \in 0..n : f[k] \in Replays
               /\ Replay(one) = Settle(f[n], TRUE)
  BY <1>1, ReplayOfALedger
<1>3. PICK g : /\ IsRun("replay", EmptyReplay, Ordered(other), n, g)
               /\ \A k \in 0..n : g[k] \in Replays
               /\ Replay(other) = Settle(g[n], TRUE)
  <2>1. \E g : /\ IsRun("replay", EmptyReplay, Ordered(other), Size(other), g)
               /\ \A k \in 0..Size(other) : g[k] \in Replays
               /\ Replay(other) = Settle(g[Size(other)], TRUE)
    BY <1>1, ReplayOfALedger
  <2>2. QED
    BY <1>1, <2>1
<1>4. /\ m \in 0..n /\ n \in Nat /\ First(one, m) = Openings(one) /\ First(other, m) = Openings(one)
      /\ \A k \in 1..m : AtPlace(one, k) \in Openings(one) /\ AtPlace(other, k) \in Openings(other)
  <2>1. /\ m \in 0..n /\ First(one, m) = Openings(one)
        /\ \A k \in 1..n : AtPlace(one, k) \in Openings(one) <=> k <= m
    BY <1>1, OpeningsStandFirst
  <2>2. LET mm == Cardinality(Openings(other))
        IN  /\ First(other, mm) = Openings(other)
            /\ \A k \in 1..Size(other) : AtPlace(other, k) \in Openings(other) <=> k <= mm
    BY <1>1, OpeningsStandFirst
  <2>3. /\ First(other, m) = Openings(one)
        /\ \A k \in 1..n : AtPlace(other, k) \in Openings(other) <=> k <= m
    BY <1>1, <2>2
  <2>4. n \in Nat
    BY <1>1, EventsAreFinite
  <2>5. \A k \in 1..m : k \in 1..n /\ k <= m
    BY <2>1, <2>4
  <2>6. QED
    BY <2>1, <2>3, <2>4, <2>5
<1>5. \A k \in 1..n : k > m => Ordered(other)[k] = Ordered(one)[k]
  BY SamePlacesAfterOpenings
<1>6. f[m] \in Replays /\ Brought(one, Openings(one), f[m])
  <2>1. \A k \in 0..m : f[k] \in Replays /\ Brought(one, First(one, k), f[k])
    BY <1>1, <1>2, <1>4, RunOfOpenings
  <2>2. m \in 0..m
    BY <1>4
  <2>3. QED
    BY <1>4, <2>1, <2>2
<1>7. g[m] \in Replays /\ Brought(other, Openings(one), g[m])
  <2>1. IsRun("replay", EmptyReplay, Ordered(other), Size(other), g) /\ m \in 0..Size(other)
    BY <1>1, <1>3, <1>4
  <2>2. \A k \in 0..m : g[k] \in Replays /\ Brought(other, First(other, k), g[k])
    BY <1>1, <1>4, <2>1, RunOfOpenings
  <2>3. m \in 0..m
    BY <1>4
  <2>4. QED
    BY <1>4, <2>2, <2>3
<1>8. /\ SamePosition(g[m], f[m]) /\ f[m].waiting = <<>> /\ g[m].waiting = <<>>
  BY <1>1, <1>6, <1>7 DEF Brought, SamePosition
<1>e. \A k \in 1..n : Ordered(one)[k] \in Transaction
  BY <1>1, OrderedEvents
<1> HIDE DEF n, m
<1>9. CASE m = n
  <2>1. Settle(f[m], TRUE) = f[m] /\ Settle(g[m], TRUE) = g[m]
    BY <1>6, <1>7, <1>8, SettleFields, Zenon
  <2>2. QED
    BY <1>2, <1>3, <1>8, <1>9, <2>1
<1>10. CASE m < n
  <2> DEFINE S == {k \in Nat : m + 1 + k <= n => f[m + 1 + k] = g[m + 1 + k]}
  <2>1. 0 \in S
    <3>1. PICK j \in 1..n : j = m + 1 /\ j - 1 = m /\ j = m + 1 + 0
      BY <1>4, <1>10
    <3> DEFINE txn == Ordered(one)[j]
               day == DayOf(txn.date)
    <3>2. Ordered(other)[j] = txn
      BY <1>4, <1>5, <3>1
    <3>3. txn \in Transaction /\ day \in Int
      BY <1>e, TransactionType
    <3>4. f[j] = ReplayEvent(f[m], txn) /\ g[j] = ReplayEvent(g[m], txn)
      <4>1. /\ f[j] = Step("replay", f[j - 1], Ordered(one)[j])
            /\ g[j] = Step("replay", g[j - 1], Ordered(other)[j])
        BY <1>2, <1>3, Zenon DEF IsRun
      <4>2. QED
        BY <3>1, <3>2, <4>1 DEF Step
    <3> HIDE DEF txn, day
    <3>5. NewDay(f[m], day) = [f[m] EXCEPT !.day = day] /\ NewDay(g[m], day) = [g[m] EXCEPT !.day = day]
      BY <1>6, <1>7, <1>8, <3>3, NewDayFields
    <3>6. [f[m] EXCEPT !.day = day] = [g[m] EXCEPT !.day = day]
      BY <1>6, <1>7, <1>8 DEF SamePosition, Replays
    <3>7. f[j] = g[j]
      BY <3>4, <3>5, <3>6 DEF ReplayEvent, day
    <3>8. QED
      BY <3>1, <3>7
  <2>2. ASSUME NEW k \in Nat, k \in S PROVE k + 1 \in S
    <3>1. SUFFICES ASSUME m + 1 + (k + 1) <= n PROVE f[m + 1 + (k + 1)] = g[m + 1 + (k + 1)]
      OBVIOUS
    <3>2. PICK j \in 1..n : j = m + 1 + (k + 1) /\ j - 1 = m + 1 + k
      BY <1>4, <3>1
    <3>3. f[j - 1] = g[j - 1]
      BY <1>4, <2>2, <3>1, <3>2
    <3>4. Ordered(other)[j] = Ordered(one)[j]
      BY <1>4, <1>5, <3>2
    <3>5. /\ f[j] = Step("replay", f[j - 1], Ordered(one)[j])
          /\ g[j] = Step("replay", g[j - 1], Ordered(other)[j])
      BY <1>2, <1>3, Zenon DEF IsRun
    <3>6. f[j] = g[j]
      BY <3>3, <3>4, <3>5, Zenon
    <3>7. QED
      BY <3>2, <3>6
  <2>3. n - m - 1 \in Nat /\ m + 1 + (n - m - 1) = n
    BY <1>4, <1>10
  <2>4. n - m - 1 \in S
    <3> HIDE DEF S
    <3>1. QED
      BY <2>1, <2>2, <2>3, Induction
  <2>5. f[n] = g[n]
    BY <1>4, <2>3, <2>4
  <2>6. QED
    BY <1>2, <1>3, <2>5 DEF SamePosition
<1>11. QED
  BY <1>4, <1>9, <1>10

\* Redating the opening of a holding changes neither its position nor whether
\* its ledger oversells (ledger.go:33-36): the opening comes first wherever it is.
THEOREM RedatingAnOpeningIsNeutralHolds == RecordSpec => []RedatingAnOpeningIsNeutral
<1>1. ASSUME BookedType PROVE RedatingAnOpeningIsNeutral
  <2>1. IsLedger(booked)
    BY <1>1, BookedIsALedger
  <2>2. SUFFICES ASSUME NEW i \in Typed({"opening"}), NEW day \in BookedDays
                 PROVE  LET redated == [booked EXCEPT ![i].date = StartOf(day), ![i].openingDate = day]
                        IN  /\ RecomputePosition(redated) = RecomputePosition(booked)
                            /\ Oversells(redated) = Oversells(booked)
    BY DEF RedatingAnOpeningIsNeutral
  <2> DEFINE redated == [booked EXCEPT ![i].date = StartOf(day), ![i].openingDate = day]
  <2>3. i \in Events(booked) /\ booked[i].type = "opening" /\ booked[i] \in Transaction /\ i \in DOMAIN booked
    BY <2>1 DEF Typed, IsLedger, Events
  <2>4. day \in Nat
    BY <2>1, TransactionType DEF BookedDays, IsLedger
  <2> DEFINE txn == [booked[i] EXCEPT !.date = StartOf(day), !.openingDate = day]
  <2>5. StartOf(day) \in Nat
    BY <2>4 DEF StartOf, SlotsPerDay
  <2>6. /\ txn \in Transaction /\ txn.type = "opening" /\ txn.quantity = booked[i].quantity
        /\ txn.amount = booked[i].amount /\ txn.seed = booked[i].seed
    BY <2>3, <2>4, <2>5 DEF Transaction
  <2>7. redated = [booked EXCEPT ![i] = txn]
    BY <2>3
  <2> HIDE DEF txn, redated
  <2>8. /\ DOMAIN redated = DOMAIN booked /\ redated[i] = txn
        /\ \A j \in DOMAIN booked : j # i => redated[j] = booked[j]
    BY <2>3, <2>7
  <2>9. txn # NoEvent /\ booked[i] # NoEvent
    BY <2>3, <2>6 DEF NoEvent
  <2>10. Events(redated) = Events(booked)
    BY <2>3, <2>8, <2>9 DEF Events
  <2>11. IsLedger(redated)
    BY <2>1, <2>6, <2>8, <2>10 DEF IsLedger, Events
  <2>12. SameButOpenings(booked, redated)
    BY <2>1, <2>3, <2>6, <2>8, <2>10, <2>11 DEF SameButOpenings, IsOpening, Events
  <2>13. SamePosition(Replay(redated), Replay(booked))
    BY <2>12, OpeningDatesDoNotMatter
  <2>14. QED
    BY <2>13 DEF SamePosition, RecomputePosition, Derived, Oversells, redated
<1>2. QED
  BY <1>1, BookedInvariant, PTL

------------------------------------------------------------------------------
(***************************************************************************)
(* A ledger with no events, and one with an event less.                    *)
(***************************************************************************)
LEMMA ReplayOfNothing ==
  ASSUME NEW ledger, IsLedger(ledger), Events(ledger) = {}
  PROVE  Replay(ledger) = EmptyReplay
<1>1. Size(ledger) = 0
  BY FS_EmptySet DEF Size
<1>2. PICK f : /\ IsRun("replay", EmptyReplay, Ordered(ledger), Size(ledger), f)
               /\ Replay(ledger) = Settle(f[Size(ledger)], TRUE)
  BY ReplayOfALedger
<1>3. f[Size(ledger)] = EmptyReplay
  BY <1>1, <1>2, Zenon DEF IsRun
<1>4. EmptyReplay.waiting = <<>>
  BY DEF EmptyReplay
<1>5. Settle(EmptyReplay, TRUE) = EmptyReplay
  BY <1>4, EmptyReplayType, SettleFields, Zenon
<1>6. QED
  BY <1>2, <1>3, <1>5

\* The event at an earlier place precedes the one at a later place.
LEMMA PlacesAreOrdered ==
  ASSUME NEW ledger, IsLedger(ledger), NEW j \in 1..Size(ledger), NEW k \in 1..Size(ledger), j < k
  PROVE  Precedes(ledger, AtPlace(ledger, j), AtPlace(ledger, k))
<1> DEFINE i == AtPlace(ledger, j)
           l == AtPlace(ledger, k)
<1>1. /\ i \in Events(ledger) /\ Rank(ledger, i) = j - 1
      /\ l \in Events(ledger) /\ Rank(ledger, l) = k - 1
  BY PlacesAreTaken
<1>2. Size(ledger) \in Nat
  BY EventsAreFinite
<1> HIDE DEF i, l
<1>3. Rank(ledger, i) < Rank(ledger, l)
  BY <1>1, <1>2
<1>4. Precedes(ledger, i, l)
  BY <1>1, <1>3, RanksAreOrdered
<1>5. QED
  BY <1>4 DEF i, l

OneEventLess(less, ledger, i) ==
    /\ IsLedger(less) /\ IsLedger(ledger)
    /\ i \in Events(ledger) /\ Events(less) = Events(ledger) \ {i}
    /\ \A j \in Events(less) : less[j] = ledger[j]

LEMMA PlacesWithoutAnEvent ==
  ASSUME NEW less, NEW ledger, NEW i, OneEventLess(less, ledger, i)
  PROVE  LET place == Rank(ledger, i) + 1
         IN  /\ place \in 1..Size(ledger)
             /\ Size(ledger) \in Nat /\ Size(less) = Size(ledger) - 1
             /\ AtPlace(ledger, place) = i /\ Ordered(ledger)[place] = ledger[i]
             /\ \A k \in 1..Size(less) :
                   /\ k < place => Ordered(less)[k] = Ordered(ledger)[k]
                   /\ k >= place => Ordered(less)[k] = Ordered(ledger)[k + 1]
<1> DEFINE place == Rank(ledger, i) + 1
<1>1. IsLedger(less) /\ IsLedger(ledger) /\ i \in Events(ledger) /\ Events(less) = Events(ledger) \ {i}
  BY DEF OneEventLess
<1>2. place \in 1..Size(ledger) /\ AtPlace(ledger, place) = i
  BY <1>1, PlaceOfAnEvent
<1>3. IsFiniteSet(Events(ledger)) /\ Size(ledger) \in Nat /\ Size(less) \in Nat
  BY <1>1, EventsAreFinite
<1>4. Size(less) = Size(ledger) - 1
  BY <1>1, <1>3, FS_RemoveElement DEF Size
<1>5. Ordered(ledger)[place] = ledger[i]
  BY <1>1, <1>2, OrderedEvents
<1>6. ASSUME NEW j \in Events(less)
      PROVE  /\ Rank(ledger, i) < Rank(ledger, j) => Rank(less, j) = Rank(ledger, j) - 1
             /\ ~(Rank(ledger, i) < Rank(ledger, j)) => Rank(less, j) = Rank(ledger, j)
  <2>1. j \in Events(ledger) /\ j # i
    BY <1>1
  <2>2. \A l \in Events(less) : Precedes(less, l, j) <=> Precedes(ledger, l, j)
    BY DEF OneEventLess, Precedes
  <2>3. Precedes(ledger, i, j) <=> Rank(ledger, i) < Rank(ledger, j)
    BY <1>1, <2>1, RanksAreOrdered
  <2>4. Preceding(less, j) = Preceding(ledger, j) \ {i}
    BY <1>1, <2>2 DEF Preceding
  <2>5. i \in Preceding(ledger, j) <=> Precedes(ledger, i, j)
    BY <1>1 DEF Preceding
  <2>6. IsFiniteSet(Preceding(ledger, j)) /\ Rank(ledger, j) \in Nat
    BY <1>1, <1>3, <2>1, RanksAreOrdered
  <2>7. CASE i \in Preceding(ledger, j)
    BY <2>3, <2>4, <2>5, <2>6, <2>7, FS_RemoveElement DEF Rank
  <2>8. CASE i \notin Preceding(ledger, j)
    <3>1. Preceding(less, j) = Preceding(ledger, j)
      BY <2>4, <2>8
    <3>2. QED
      BY <2>3, <2>5, <2>8, <3>1 DEF Rank
  <2>9. QED
    BY <2>7, <2>8
<1>7. ASSUME NEW k \in 1..Size(less), NEW m \in 1..Size(ledger), m # place,
             m = IF k < place THEN k ELSE k + 1
      PROVE  Ordered(less)[k] = Ordered(ledger)[m]
  <2> DEFINE j == AtPlace(ledger, m)
  <2>1. j \in Events(ledger) /\ Rank(ledger, j) = m - 1 /\ Ordered(ledger)[m] = ledger[j]
    BY <1>1, PlacesAreTaken, OrderedEvents
  <2> HIDE DEF j
  <2>2. Rank(ledger, i) = place - 1 /\ Rank(ledger, i) \in Int
    BY <1>1, <1>3, RanksAreOrdered
  <2>3. j # i
    BY <1>7, <2>1, <2>2
  <2>4. j \in Events(less) /\ less[j] = ledger[j]
    BY <1>1, <2>1, <2>3 DEF OneEventLess
  <2>5. Rank(less, j) = k - 1
    <3>1. Rank(ledger, i) < Rank(ledger, j) <=> place < m
      BY <2>1, <2>2, <1>2
    <3> HIDE DEF place
    <3>2. place \in Int /\ k \in Int
      BY <1>2
    <3>3. QED
      BY <1>6, <1>7, <2>1, <2>4, <3>1, <3>2
  <2>6. AtPlace(less, Rank(less, j) + 1) = j
    BY <1>1, <2>4, PlaceOfAnEvent
  <2>7. Rank(less, j) + 1 = k
    BY <2>5
  <2>8. Ordered(less)[k] = less[AtPlace(less, k)]
    BY <1>1, OrderedEvents
  <2>9. QED
    BY <2>1, <2>4, <2>6, <2>7, <2>8
<1>8. \A k \in 1..Size(less) :
          /\ k < place => Ordered(less)[k] = Ordered(ledger)[k]
          /\ k >= place => Ordered(less)[k] = Ordered(ledger)[k + 1]
  <2> HIDE DEF place
  <2>1. ASSUME NEW k \in 1..Size(less)
        PROVE  /\ k < place => Ordered(less)[k] = Ordered(ledger)[k]
               /\ k >= place => Ordered(less)[k] = Ordered(ledger)[k + 1]
    <3>1. CASE k < place
      <4>1. k \in 1..Size(ledger) /\ k # place /\ ~(k >= place)
        BY <1>2, <1>3, <1>4, <3>1
      <4>2. QED
        BY <1>7, <3>1, <4>1
    <3>2. CASE ~(k < place)
      <4>1. k + 1 \in 1..Size(ledger) /\ k + 1 # place
        BY <1>2, <1>3, <1>4, <3>2
      <4>2. QED
        BY <1>7, <3>2, <4>1
    <3>3. QED
      BY <3>1, <3>2
  <2>2. QED
    BY <2>1
<1>9. QED
  BY <1>2, <1>3, <1>4, <1>5, <1>8

------------------------------------------------------------------------------
(***************************************************************************)
(* Dividends move no shares and no cost.  Two replays are alike if they    *)
(* agree on all but the dividends, and the day, which only NewDay reads.   *)
(***************************************************************************)
Alike(a, b) ==
    /\ a \in Replays /\ b \in Replays
    /\ a.qty = b.qty /\ a.basis = b.basis /\ a.realized = b.realized
    /\ a.oversold = b.oversold /\ a.waiting = b.waiting

LEMMA SellAlike ==
  ASSUME NEW a, NEW b, Alike(a, b), NEW txn \in Transaction
  PROVE  Covered(a, txn) = Covered(b, txn) /\ Alike(Sell(a, txn), Sell(b, txn))
<1> DEFINE qty == Smaller(Whole(txn.quantity), a.qty)
           cost == CostOf(a, qty)
           sold == Sell(a, txn)
           also == Sell(b, txn)
<1>1. /\ a \in Replays /\ b \in Replays /\ a.qty = b.qty /\ a.basis = b.basis
      /\ a.realized = b.realized /\ a.oversold = b.oversold /\ a.waiting = b.waiting
  BY DEF Alike
<1>2. Covered(a, txn) = Covered(b, txn) /\ qty = Smaller(Whole(txn.quantity), b.qty)
      /\ cost = CostOf(b, qty)
  BY <1>1 DEF Covered, CostOf
<1>3. /\ sold \in Replays /\ sold.qty = Minus(a.qty, qty) /\ sold.basis = Minus(a.basis, cost)
      /\ sold.realized = Plus(a.realized, Minus(Whole(txn.amount), cost))
      /\ (sold.oversold <=> a.oversold \/ ~Covered(a, txn)) /\ sold.waiting = a.waiting
  BY <1>1, SellFields
<1>4. /\ also \in Replays /\ also.qty = Minus(b.qty, qty) /\ also.basis = Minus(b.basis, cost)
      /\ also.realized = Plus(b.realized, Minus(Whole(txn.amount), cost))
      /\ (also.oversold <=> b.oversold \/ ~Covered(b, txn)) /\ also.waiting = b.waiting
  BY <1>1, <1>2, SellFields
<1> HIDE DEF qty, cost, sold, also
<1>5. sold.oversold = also.oversold
  <2>1. sold.oversold \in BOOLEAN /\ also.oversold \in BOOLEAN
    BY <1>3, <1>4 DEF Replays
  <2>2. sold.oversold <=> also.oversold
    BY <1>1, <1>2, <1>3, <1>4
  <2>3. QED
    BY <2>1, <2>2
<1>6. Alike(sold, also)
  BY <1>1, <1>3, <1>4, <1>5 DEF Alike
<1>7. QED
  BY <1>2, <1>6 DEF sold, also

LEMMA SettleOneAlike ==
  ASSUME NEW a, NEW b, Alike(a, b), NEW txn \in Transaction, NEW endOfDay \in BOOLEAN
  PROVE  Alike(SettleOne(endOfDay, a, txn), SettleOne(endOfDay, b, txn))
<1>1. Covered(a, txn) = Covered(b, txn) /\ Alike(Sell(a, txn), Sell(b, txn))
  BY SellAlike
<1>2. a \in Replays /\ b \in Replays /\ a.waiting = b.waiting
  BY DEF Alike
<1>3. Alike([a EXCEPT !.waiting = Append(@, txn)], [b EXCEPT !.waiting = Append(@, txn)])
  <2> DEFINE one == [a EXCEPT !.waiting = Append(@, txn)]
             other == [b EXCEPT !.waiting = Append(@, txn)]
  <2>1. /\ one \in Replays /\ one.waiting = Append(a.waiting, txn) /\ one.qty = a.qty
        /\ one.basis = a.basis /\ one.realized = a.realized /\ one.oversold = a.oversold
    BY <1>2, WaitFields
  <2>2. /\ other \in Replays /\ other.waiting = Append(b.waiting, txn) /\ other.qty = b.qty
        /\ other.basis = b.basis /\ other.realized = b.realized /\ other.oversold = b.oversold
    BY <1>2, WaitFields
  <2> HIDE DEF one, other
  <2>3. Alike(one, other)
    BY <2>1, <2>2 DEF Alike
  <2>4. QED
    BY <2>3 DEF one, other
<1>4. QED
  BY <1>1, <1>2, <1>3 DEF SettleOne

LEMMA SettleAlike ==
  ASSUME NEW a, NEW b, Alike(a, b), NEW endOfDay \in BOOLEAN
  PROVE  Alike(Settle(a, endOfDay), Settle(b, endOfDay))
<1> DEFINE base == [a EXCEPT !.waiting = <<>>]
           also == [b EXCEPT !.waiting = <<>>]
           seq == a.waiting
           kind == SettleKind(endOfDay)
<1>1. a \in Replays /\ b \in Replays /\ seq = b.waiting
  BY DEF Alike
<1>2. seq \in Seq(Transaction) /\ Len(seq) \in Nat /\ DOMAIN seq = 1..Len(seq)
  BY <1>1 DEF Replays
<1>3. Alike(base, also)
  <2>1. /\ base \in Replays /\ base.waiting = <<>> /\ base.qty = a.qty
        /\ base.basis = a.basis /\ base.realized = a.realized /\ base.oversold = a.oversold
    BY <1>1, WithoutWaiting
  <2>2. /\ also \in Replays /\ also.waiting = <<>> /\ also.qty = b.qty
        /\ also.basis = b.basis /\ also.realized = b.realized /\ also.oversold = b.oversold
    BY <1>1, WithoutWaiting
  <2> HIDE DEF base, also
  <2>3. QED
    BY <2>1, <2>2 DEF Alike
<1>4. Settle(a, endOfDay) = Folded(kind, base, seq) /\ Settle(b, endOfDay) = Folded(kind, also, seq)
  BY <1>1, <1>2, SettleIsARun
<1> HIDE DEF base, also, seq
<1>5. PICK f : IsRun(kind, base, seq, Len(seq), f) /\ Folded(kind, base, seq) = f[Len(seq)]
  BY <1>2, FoldedRun
<1>6. PICK g : IsRun(kind, also, seq, Len(seq), g) /\ Folded(kind, also, seq) = g[Len(seq)]
  BY <1>2, FoldedRun
<1> DEFINE S == {k \in Nat : k <= Len(seq) => Alike(f[k], g[k])}
<1>7. 0 \in S
  BY <1>3, <1>5, <1>6 DEF IsRun
<1>8. ASSUME NEW k \in Nat, k \in S PROVE k + 1 \in S
  <2>1. SUFFICES ASSUME k + 1 <= Len(seq) PROVE Alike(f[k + 1], g[k + 1])
    OBVIOUS
  <2>2. PICK j \in 1..Len(seq) : j = k + 1 /\ j - 1 = k
    BY <1>2, <2>1
  <2>3. f[j] = Step(kind, f[j - 1], seq[j]) /\ g[j] = Step(kind, g[j - 1], seq[j])
    BY <1>5, <1>6, Zenon DEF IsRun
  <2>4. f[j] = SettleOne(endOfDay, f[k], seq[j]) /\ g[j] = SettleOne(endOfDay, g[k], seq[j])
    BY <2>2, <2>3, StepOfSettle
  <2>5. seq[j] \in Transaction
    BY <1>2
  <2>6. Alike(f[k], g[k])
    BY <1>2, <1>8, <2>1
  <2>7. Alike(SettleOne(endOfDay, f[k], seq[j]), SettleOne(endOfDay, g[k], seq[j]))
    BY <2>5, <2>6, SettleOneAlike
  <2>8. QED
    BY <2>2, <2>4, <2>7
<1>9. Len(seq) \in S
  <2> HIDE DEF S
  <2>1. QED
    BY <1>2, <1>7, <1>8, Induction
<1>10. QED
  BY <1>2, <1>4, <1>5, <1>6, <1>9

LEMMA AcquireAlike ==
  ASSUME NEW a, NEW b, Alike(a, b), NEW txn \in Transaction
  PROVE  Alike(Acquire(a, txn), Acquire(b, txn))
<1> DEFINE one == Acquire(a, txn)
           other == Acquire(b, txn)
<1>1. /\ a \in Replays /\ b \in Replays /\ a.qty = b.qty /\ a.basis = b.basis
      /\ a.realized = b.realized /\ a.oversold = b.oversold /\ a.waiting = b.waiting
  BY DEF Alike
<1>2. /\ one \in Replays
      /\ one.qty = IF txn.quantity > 0 THEN Plus(a.qty, Whole(txn.quantity)) ELSE a.qty
      /\ one.basis = IF txn.quantity > 0 THEN Plus(a.basis, Whole(txn.amount)) ELSE a.basis
      /\ one.realized = a.realized /\ one.oversold = a.oversold /\ one.waiting = a.waiting
  BY <1>1, AcquireFields
<1>3. /\ other \in Replays
      /\ other.qty = IF txn.quantity > 0 THEN Plus(b.qty, Whole(txn.quantity)) ELSE b.qty
      /\ other.basis = IF txn.quantity > 0 THEN Plus(b.basis, Whole(txn.amount)) ELSE b.basis
      /\ other.realized = b.realized /\ other.oversold = b.oversold /\ other.waiting = b.waiting
  BY <1>1, AcquireFields
<1> HIDE DEF one, other
<1>4. Alike(one, other)
  BY <1>1, <1>2, <1>3 DEF Alike
<1>5. QED
  BY <1>4 DEF one, other

LEMMA EffectAlike ==
  ASSUME NEW a, NEW b, Alike(a, b), NEW txn \in Transaction
  PROVE  Alike(Effect(a, txn), Effect(b, txn))
<1>1. /\ a \in Replays /\ b \in Replays /\ a.qty = b.qty /\ a.basis = b.basis
      /\ a.realized = b.realized /\ a.oversold = b.oversold /\ a.waiting = b.waiting
  BY DEF Alike
<1>2. Effect(a, txn) \in Replays /\ Effect(b, txn) \in Replays
  BY <1>1, EffectFields
<1>3. CASE txn.type = "opening"
  <2> DEFINE one == Acquire(a, txn)
             other == Acquire(b, txn)
  <2>1. Alike(one, other)
    BY AcquireAlike
  <2>2. Effect(a, txn) = [one EXCEPT !.realized = Plus(@, Whole(txn.seed))]
        /\ Effect(b, txn) = [other EXCEPT !.realized = Plus(@, Whole(txn.seed))]
    BY <1>3 DEF Effect
  <2> HIDE DEF one, other
  <2>3. QED
    BY <1>2, <2>1, <2>2 DEF Alike, Replays
<1>4. CASE txn.type = "buy"
  BY <1>4, AcquireAlike DEF Effect
<1>5. CASE txn.type = "sell"
  BY <1>5, SellAlike DEF Effect
<1>6. CASE txn.type \in {"split", "bonus"}
  <2>1. CASE Positive(txn.ratio)
    <3>1. Effect(a, txn) = [a EXCEPT !.qty = Times(@, txn.ratio)]
          /\ Effect(b, txn) = [b EXCEPT !.qty = Times(@, txn.ratio)]
      BY <1>6, <2>1 DEF Effect
    <3>2. QED
      BY <1>1, <1>2, <3>1 DEF Alike, Replays
  <2>2. CASE ~Positive(txn.ratio)
    BY <1>6, <2>2 DEF Effect
  <2>3. QED
    BY <2>1, <2>2
<1>7. CASE txn.type = "dividend"
  <2>1. Effect(a, txn) = [a EXCEPT !.dividends = Plus(@, Whole(txn.amount))]
        /\ Effect(b, txn) = [b EXCEPT !.dividends = Plus(@, Whole(txn.amount))]
    BY <1>7 DEF Effect
  <2>2. QED
    BY <1>1, <1>2, <2>1 DEF Alike, Replays
<1>8. CASE txn.type = "merger"
  BY <1>8 DEF Effect
<1>9. txn.type \in TxnType
  BY TransactionType
<1>10. QED
  BY <1>3, <1>4, <1>5, <1>6, <1>7, <1>8, <1>9 DEF TxnType

\* The sells that wait do so because the first of them is not covered.
Stuck(acc) == acc.waiting = <<>> \/ ~Covered(acc, acc.waiting[1])

LEMMA WaitingBehindIsStuck ==
  ASSUME NEW acc \in Replays, Stuck(acc), NEW txn \in Transaction,
         acc.waiting # <<>> \/ ~Covered(acc, txn)
  PROVE  Stuck([acc EXCEPT !.waiting = Append(@, txn)])
<1> DEFINE now == [acc EXCEPT !.waiting = Append(@, txn)]
<1>1. now.waiting = Append(acc.waiting, txn) /\ now.qty = acc.qty
  BY WaitFields
<1>2. acc.waiting \in Seq(Transaction)
  BY DEF Replays
<1> HIDE DEF now
<1>3. \A t : Covered(now, t) = Covered(acc, t)
  BY <1>1 DEF Covered
<1>4. CASE acc.waiting = <<>>
  <2>1. now.waiting[1] = txn
    BY <1>1, <1>4
  <2>2. QED
    BY <1>3, <1>4, <2>1 DEF Stuck, now
<1>5. CASE acc.waiting # <<>>
  <2>1. now.waiting[1] = acc.waiting[1]
    BY <1>1, <1>2, <1>5
  <2>2. QED
    BY <1>3, <1>5, <2>1 DEF Stuck, now
<1>6. QED
  BY <1>4, <1>5

LEMMA SettledIsStuck ==
  ASSUME NEW acc \in Replays
  PROVE  Stuck(Settle(acc, FALSE))
<1> DEFINE base == [acc EXCEPT !.waiting = <<>>]
           seq == acc.waiting
<1>1. seq \in Seq(Transaction) /\ Len(seq) \in Nat /\ DOMAIN seq = 1..Len(seq)
  BY DEF Replays
<1>2. base \in Replays /\ base.waiting = <<>>
  BY WithoutWaiting
<1>3. Settle(acc, FALSE) = Folded(SettleKind(FALSE), base, seq)
  BY <1>1, SettleIsARun
<1> HIDE DEF base, seq
<1>4. PICK f : /\ IsRun(SettleKind(FALSE), base, seq, Len(seq), f)
               /\ Folded(SettleKind(FALSE), base, seq) = f[Len(seq)]
  BY <1>1, FoldedRun
<1>5. \A k \in 0..Len(seq) : f[k] \in Replays
  BY <1>1, <1>2, <1>4, SettleRun
<1> DEFINE S == {k \in Nat : k <= Len(seq) => Stuck(f[k])}
<1>6. 0 \in S
  BY <1>2, <1>4 DEF IsRun, Stuck
<1>7. ASSUME NEW k \in Nat, k \in S PROVE k + 1 \in S
  <2>1. SUFFICES ASSUME k + 1 <= Len(seq) PROVE Stuck(f[k + 1])
    OBVIOUS
  <2>2. PICK j \in 1..Len(seq) : j = k + 1 /\ j - 1 = k
    BY <1>1, <2>1
  <2>3. f[j] = Step(SettleKind(FALSE), f[j - 1], seq[j])
    BY <1>4, Zenon DEF IsRun
  <2>4. f[j] = SettleOne(FALSE, f[k], seq[j])
    BY <2>2, <2>3, StepOfSettle
  <2>5. seq[j] \in Transaction
    BY <1>1
  <2>6. f[k] \in Replays /\ Stuck(f[k])
    BY <1>1, <1>5, <1>7, <2>1
  <2>7. CASE f[k].waiting = <<>> /\ Covered(f[k], seq[j])
    <3>1. f[j] = Sell(f[k], seq[j])
      BY <2>4, <2>7 DEF SettleOne
    <3>2. f[j].waiting = <<>>
      BY <2>5, <2>6, <2>7, <3>1, SellFields
    <3>3. QED
      BY <2>2, <3>2 DEF Stuck
  <2>8. CASE ~(f[k].waiting = <<>> /\ Covered(f[k], seq[j]))
    <3>1. f[j] = [f[k] EXCEPT !.waiting = Append(@, seq[j])]
      BY <2>4, <2>8 DEF SettleOne
    <3>2. Stuck([f[k] EXCEPT !.waiting = Append(@, seq[j])])
      BY <2>5, <2>6, <2>8, WaitingBehindIsStuck
    <3>3. QED
      BY <2>2, <3>1, <3>2
  <2>9. QED
    BY <2>7, <2>8
<1>8. Len(seq) \in S
  <2> HIDE DEF S
  <2>1. QED
    BY <1>1, <1>6, <1>7, Induction
<1>9. Stuck(f[Len(seq)])
  BY <1>1, <1>8
<1>10. QED
  BY <1>3, <1>4, <1>9, Zenon

LEMMA StuckStays ==
  ASSUME NEW acc \in Replays, Stuck(acc)
  PROVE  Settle(acc, FALSE) = acc
<1> DEFINE base == [acc EXCEPT !.waiting = <<>>]
           seq == acc.waiting
<1>1. seq \in Seq(Transaction) /\ Len(seq) \in Nat /\ DOMAIN seq = 1..Len(seq)
  BY DEF Replays
<1>2. /\ base \in Replays /\ base.waiting = <<>>
      /\ base.qty = acc.qty /\ base.basis = acc.basis /\ base.realized = acc.realized
      /\ base.dividends = acc.dividends /\ base.oversold = acc.oversold /\ base.day = acc.day
  BY WithoutWaiting
<1>3. Settle(acc, FALSE) = Folded(SettleKind(FALSE), base, seq)
  BY <1>1, SettleIsARun
<1>s. seq = <<>> \/ ~Covered(acc, seq[1])
  BY DEF Stuck
<1> HIDE DEF base, seq
<1>4. PICK f : /\ IsRun(SettleKind(FALSE), base, seq, Len(seq), f)
               /\ Folded(SettleKind(FALSE), base, seq) = f[Len(seq)]
  BY <1>1, FoldedRun
<1>5. \A k \in 0..Len(seq) : f[k] \in Replays
  BY <1>1, <1>2, <1>4, SettleRun
<1> DEFINE Still(now, k) ==
              /\ now.qty = acc.qty /\ now.basis = acc.basis /\ now.realized = acc.realized
              /\ now.dividends = acc.dividends /\ now.oversold = acc.oversold /\ now.day = acc.day
              /\ Len(now.waiting) = k /\ \A i \in 1..k : now.waiting[i] = seq[i]
           S == {k \in Nat : k <= Len(seq) => Still(f[k], k)}
<1>6. 0 \in S
  <2>1. f[0] = base
    BY <1>4, Zenon DEF IsRun
  <2>2. Len(<<>>) = 0 /\ 1..0 = {}
    OBVIOUS
  <2>3. QED
    BY <1>2, <2>1, <2>2
<1>7. ASSUME NEW k \in Nat, k \in S PROVE k + 1 \in S
  <2>1. SUFFICES ASSUME k + 1 <= Len(seq) PROVE Still(f[k + 1], k + 1)
    OBVIOUS
  <2>2. PICK j \in 1..Len(seq) : j = k + 1 /\ j - 1 = k
    BY <1>1, <2>1
  <2>3. f[j] = Step(SettleKind(FALSE), f[j - 1], seq[j])
    BY <1>4, Zenon DEF IsRun
  <2>4. f[j] = SettleOne(FALSE, f[k], seq[j])
    BY <2>2, <2>3, StepOfSettle
  <2>5. seq[j] \in Transaction
    BY <1>1
  <2>6. f[k] \in Replays /\ f[k].waiting \in Seq(Transaction) /\ Still(f[k], k)
    BY <1>1, <1>5, <1>7, <2>1 DEF Replays
  <2>7. ~(f[k].waiting = <<>> /\ Covered(f[k], seq[j]))
    <3>1. SUFFICES ASSUME f[k].waiting = <<>> PROVE ~Covered(f[k], seq[j])
      OBVIOUS
    <3>2. k = 0 /\ j = 1
      BY <2>2, <2>6, <3>1
    <3>3. ~Covered(acc, seq[1])
      BY <1>s, <2>2
    <3>4. QED
      BY <2>6, <3>2, <3>3 DEF Covered
  <2>8. f[j] = [f[k] EXCEPT !.waiting = Append(@, seq[j])]
    BY <2>4, <2>7 DEF SettleOne
  <2>9. /\ f[j].waiting = Append(f[k].waiting, seq[j]) /\ f[j].qty = f[k].qty
        /\ f[j].basis = f[k].basis /\ f[j].realized = f[k].realized
        /\ f[j].dividends = f[k].dividends /\ f[j].oversold = f[k].oversold /\ f[j].day = f[k].day
    BY <2>5, <2>6, <2>8, WaitFields
  <2>10. Len(f[j].waiting) = k + 1 /\ \A i \in 1..(k + 1) : f[j].waiting[i] = seq[i]
    BY <2>2, <2>5, <2>6, <2>9
  <2>11. QED
    BY <2>2, <2>6, <2>9, <2>10
<1>8. Len(seq) \in S
  <2> HIDE DEF S
  <2>1. QED
    BY <1>1, <1>6, <1>7, Induction
<1> DEFINE end == f[Len(seq)]
<1>9. end \in Replays /\ Still(end, Len(seq))
  BY <1>1, <1>5, <1>8
<1> HIDE DEF end
<1>10. end.waiting = acc.waiting
  <2>1. end.waiting \in Seq(Transaction)
    BY <1>9 DEF Replays
  <2>2. end.waiting = seq
    BY <1>1, <1>9, <2>1
  <2>3. QED
    BY <2>2 DEF seq
<1>11. end = acc
  BY <1>9, <1>10, SameReplay
<1>12. QED
  BY <1>3, <1>4, <1>11 DEF end

LEMMA EventsLeaveStuck ==
  ASSUME NEW acc \in Replays, Stuck(acc), NEW txn \in Transaction
  PROVE  Stuck(ReplayEvent(acc, txn))
<1> DEFINE day == DayOf(txn.date)
           start == NewDay(acc, day)
<1>1. day \in Int
  BY TransactionType
<1>2. start \in Replays /\ Stuck(start)
  <2>1. start \in Replays /\ (acc.day # day => start.waiting = <<>>)
    BY <1>1, NewDayFields
  <2>2. acc.day = day => start = [acc EXCEPT !.day = day]
    BY DEF NewDay
  <2>3. acc.day = day => start = acc
    BY <2>2 DEF Replays
  <2> HIDE DEF start
  <2>4. QED
    BY <2>1, <2>3 DEF Stuck
<1>3. ReplayEvent(acc, txn) = Meet(start, txn)
  BY DEF ReplayEvent
<1> HIDE DEF start
<1>4. CASE txn.type = "sell" /\ ~Covered(start, txn)
  BY <1>2, <1>3, <1>4, WaitingBehindIsStuck DEF Meet
<1>5. CASE ~(txn.type = "sell" /\ ~Covered(start, txn))
  <2>1. ReplayEvent(acc, txn) = Settle(Effect(start, txn), FALSE)
    BY <1>3, <1>5 DEF Meet
  <2>2. Effect(start, txn) \in Replays
    BY <1>2, EffectFields
  <2>3. QED
    BY <2>1, <2>2, SettledIsStuck
<1>6. QED
  BY <1>4, <1>5

\* The run of a ledger: what each event makes of the replay, and that sells wait
\* only after the openings.
LEMMA RunOfALedger ==
  ASSUME NEW ledger, IsLedger(ledger), NEW f,
         IsRun("replay", EmptyReplay, Ordered(ledger), Size(ledger), f)
  PROVE  /\ f[0] = EmptyReplay
         /\ \A k \in 0..Size(ledger) : f[k] \in Replays /\ Stuck(f[k])
         /\ \A k \in 1..Size(ledger) :
               LET txn == ledger[AtPlace(ledger, k)]
               IN  /\ txn \in Transaction /\ Ordered(ledger)[k] = txn
                   /\ f[k] = ReplayEvent(f[k - 1], txn) /\ f[k].day = DayOf(txn.date)
                   /\ f[k].waiting # <<>> => ~IsOpening(txn)
<1> DEFINE n == Size(ledger)
           At(k) == ledger[AtPlace(ledger, k)]
           S == {k \in Nat : k <= n => f[k] \in Replays /\ Stuck(f[k])}
<1>1. n \in Nat /\ \A k \in 1..n : At(k) \in Transaction /\ Ordered(ledger)[k] = At(k)
  BY OrderedEvents DEF IsLedger
<1>2. f[0] = EmptyReplay
  BY Zenon DEF IsRun
<1>3. \A k \in 1..n : f[k] = ReplayEvent(f[k - 1], At(k))
  <2>1. \A k \in 1..n : f[k] = Step("replay", f[k - 1], Ordered(ledger)[k])
    BY DEF IsRun
  <2>2. QED
    BY <1>1, <2>1 DEF Step
<1> HIDE DEF n, At
<1>4. 0 \in S
  BY <1>2, EmptyReplayType DEF Stuck, EmptyReplay
<1>5. ASSUME NEW k \in Nat, k \in S PROVE k + 1 \in S
  <2>1. SUFFICES ASSUME k + 1 <= n PROVE f[k + 1] \in Replays /\ Stuck(f[k + 1])
    OBVIOUS
  <2>2. PICK j \in 1..n : j = k + 1 /\ j - 1 = k
    BY <1>1, <2>1
  <2>3. f[j] = ReplayEvent(f[k], At(j)) /\ At(j) \in Transaction
    BY <1>1, <1>3, <2>2
  <2>4. f[k] \in Replays /\ Stuck(f[k])
    BY <1>1, <1>5, <2>1
  <2>5. f[j] \in Replays /\ Stuck(f[j])
    BY <2>3, <2>4, ReplayEventFields, EventsLeaveStuck
  <2>6. QED
    BY <2>2, <2>5
<1>6. \A k \in 0..n : f[k] \in Replays /\ Stuck(f[k])
  <2>1. Nat \subseteq S
    <3> HIDE DEF S
    <3>1. QED
      BY <1>4, <1>5, Induction
  <2>2. QED
    BY <1>1, <2>1
<1>7. ASSUME NEW k \in 1..n
      PROVE  f[k].day = DayOf(At(k).date) /\ (f[k].waiting # <<>> => ~IsOpening(At(k)))
  <2>1. k - 1 \in 0..n /\ k \in 0..n
    BY <1>1
  <2>2. f[k].day = DayOf(At(k).date)
    <3>1. f[k] = ReplayEvent(f[k - 1], At(k)) /\ At(k) \in Transaction /\ f[k - 1] \in Replays
      BY <1>1, <1>3, <1>6, <2>1
    <3>2. ReplayEvent(f[k - 1], At(k)).day = DayOf(At(k).date)
      BY <3>1, ReplayEventFields, Zenon
    <3>3. QED
      BY <3>1, <3>2, Zenon
  <2>3. CASE IsOpening(At(k))
    <3> DEFINE m == Cardinality(Openings(ledger))
    <3>1. AtPlace(ledger, k) \in Events(ledger)
      BY OrderedEvents DEF n
    <3>2. AtPlace(ledger, k) \in Openings(ledger)
      BY <2>3, <3>1 DEF Openings, At
    <3>3. /\ m \in 0..n /\ k <= m
          /\ \A j \in 1..n : AtPlace(ledger, j) \in Openings(ledger) <=> j <= m
      BY <3>2, OpeningsStandFirst DEF n
    <3> HIDE DEF m
    <3>4. \A j \in 1..m : AtPlace(ledger, j) \in Openings(ledger)
      BY <1>1, <3>3
    <3>5. \A j \in 0..m : Brought(ledger, First(ledger, j), f[j])
      BY <3>3, <3>4, RunOfOpenings DEF n
    <3>6. f[k].waiting = <<>>
      BY <2>1, <3>3, <3>5 DEF Brought
    <3>7. QED
      BY <2>2, <3>6
  <2>4. QED
    BY <2>2, <2>3
<1>8. QED
  BY <1>1, <1>2, <1>3, <1>6, <1>7 DEF n, At

LEMMA NewDayAlike ==
  ASSUME NEW a, NEW b, Alike(a, b), a.day = b.day \/ a.waiting = <<>>, NEW day \in Int
  PROVE  Alike(NewDay(a, day), NewDay(b, day))
<1> DEFINE one == IF day # a.day THEN Settle(a, TRUE) ELSE a
           other == IF day # b.day THEN Settle(b, TRUE) ELSE b
<1>1. a \in Replays /\ b \in Replays /\ a.waiting = b.waiting
  BY DEF Alike
<1>2. Alike(one, other)
  <2>1. CASE a.day = b.day
    BY <2>1, SettleAlike
  <2>2. CASE a.waiting = <<>>
    <3>1. Settle(a, TRUE) = a /\ Settle(b, TRUE) = b
      BY <1>1, <2>2, SettleFields, Zenon
    <3>2. QED
      BY <3>1
  <2>3. QED
    BY <2>1, <2>2
<1>3. NewDay(a, day) = [one EXCEPT !.day = day] /\ NewDay(b, day) = [other EXCEPT !.day = day]
  BY DEF NewDay
<1> HIDE DEF one, other
<1>4. QED
  BY <1>2, <1>3 DEF Alike, Replays

LEMMA MeetAlike ==
  ASSUME NEW a, NEW b, Alike(a, b), NEW txn \in Transaction
  PROVE  Alike(Meet(a, txn), Meet(b, txn))
<1>1. Covered(a, txn) = Covered(b, txn)
  BY SellAlike
<1>2. a \in Replays /\ b \in Replays
  BY DEF Alike
<1>3. CASE txn.type = "sell" /\ ~Covered(a, txn)
  <2> DEFINE one == [a EXCEPT !.waiting = Append(@, txn)]
             other == [b EXCEPT !.waiting = Append(@, txn)]
  <2>1. /\ one \in Replays /\ one.waiting = Append(a.waiting, txn) /\ one.qty = a.qty
        /\ one.basis = a.basis /\ one.realized = a.realized /\ one.oversold = a.oversold
    BY <1>2, WaitFields
  <2>2. /\ other \in Replays /\ other.waiting = Append(b.waiting, txn) /\ other.qty = b.qty
        /\ other.basis = b.basis /\ other.realized = b.realized /\ other.oversold = b.oversold
    BY <1>2, WaitFields
  <2>3. Meet(a, txn) = one /\ Meet(b, txn) = other
    BY <1>1, <1>3 DEF Meet
  <2> HIDE DEF one, other
  <2>4. QED
    BY <2>1, <2>2, <2>3 DEF Alike
<1>4. CASE ~(txn.type = "sell" /\ ~Covered(a, txn))
  <2>1. /\ Meet(a, txn) = Settle(Effect(a, txn), FALSE)
        /\ Meet(b, txn) = Settle(Effect(b, txn), FALSE)
    BY <1>1, <1>4 DEF Meet
  <2>2. Alike(Effect(a, txn), Effect(b, txn))
    BY EffectAlike
  <2>3. QED
    BY <2>1, <2>2, SettleAlike
<1>5. QED
  BY <1>3, <1>4

\* From then on the same events keep two replays alike.
LEMMA EventsKeepAlike ==
  ASSUME NEW a, NEW b, Alike(a, b), a.day = b.day \/ a.waiting = <<>>, NEW txn \in Transaction
  PROVE  /\ Alike(ReplayEvent(a, txn), ReplayEvent(b, txn))
         /\ ReplayEvent(a, txn).day = ReplayEvent(b, txn).day
<1>1. DayOf(txn.date) \in Int
  BY TransactionType
<1>2. Alike(NewDay(a, DayOf(txn.date)), NewDay(b, DayOf(txn.date)))
  BY <1>1, NewDayAlike
<1>3. Alike(ReplayEvent(a, txn), ReplayEvent(b, txn))
  BY <1>2, MeetAlike DEF ReplayEvent
<1>4. a \in Replays /\ b \in Replays
  BY DEF Alike
<1>5. QED
  BY <1>3, <1>4, ReplayEventFields

\* A dividend at most ends the day before it a little earlier.
LEMMA DividendIsAlike ==
  ASSUME NEW acc \in Replays, Stuck(acc), NEW txn \in Transaction, txn.type = "dividend"
  PROVE  LET day == DayOf(txn.date)
             now == ReplayEvent(acc, txn)
         IN  /\ now \in Replays /\ now.day = day
             /\ acc.day = day => Alike(now, acc)
             /\ acc.day # day => Alike(now, Settle(acc, TRUE)) /\ now.waiting = <<>>
<1> DEFINE day == DayOf(txn.date)
           start == NewDay(acc, day)
           after == Effect(start, txn)
           end == Settle(acc, TRUE)
<1>1. day \in Int
  BY TransactionType
<1>2. start \in Replays
  BY <1>1, NewDayFields
<1>3. acc.day = day => start = acc
  BY DEF NewDay, Replays
<1>4. acc.day # day => Alike(start, end) /\ start.waiting = <<>>
  <2>1. SUFFICES ASSUME acc.day # day PROVE Alike(start, end) /\ start.waiting = <<>>
    OBVIOUS
  <2>2. end \in Replays /\ end.waiting = <<>>
    BY SettleFields
  <2>3. start = [end EXCEPT !.day = day]
    BY <2>1 DEF NewDay
  <2> HIDE DEF start, end
  <2>4. QED
    BY <1>2, <2>2, <2>3 DEF Alike, Replays
<1>5. ReplayEvent(acc, txn) = Settle(after, FALSE)
  BY DEF ReplayEvent, Meet
<1>6. after = [start EXCEPT !.dividends = Plus(@, Whole(txn.amount))]
  BY DEF Effect
<1>7. after \in Replays
  BY <1>2, EffectFields
<1> HIDE DEF start, after, end
<1>8. Alike(after, start)
  BY <1>2, <1>6, <1>7 DEF Alike, Replays
<1>9. Stuck(start)
  BY <1>3, <1>4 DEF Stuck
<1>10. Stuck(after)
  <2>1. after.waiting = start.waiting /\ after.qty = start.qty
    BY <1>8 DEF Alike
  <2>2. QED
    BY <1>9, <2>1 DEF Stuck, Covered
<1>11. ReplayEvent(acc, txn) = after
  BY <1>5, <1>7, <1>10, StuckStays
<1>12. after.day = day
  <2>1. ReplayEvent(acc, txn).day = DayOf(txn.date)
    BY ReplayEventFields, Zenon
  <2>2. QED
    BY <1>11, <2>1
<1>13. acc.day # day => Alike(after, end) /\ after.waiting = <<>>
  BY <1>4, <1>8, Zenon DEF Alike
<1>14. QED
  BY <1>3, <1>7, <1>8, <1>11, <1>12, <1>13 DEF end

LEMMA DividendsMoveNothing ==
  ASSUME NEW ledger, NEW less, NEW i, OneEventLess(less, ledger, i), ledger[i].type = "dividend"
  PROVE  Alike(Replay(ledger), Replay(less))
<1> DEFINE n == Size(ledger)
           p == Rank(ledger, i) + 1
           txn == ledger[i]
           day == DayOf(txn.date)
<1>1. /\ IsLedger(ledger) /\ IsLedger(less) /\ p \in 1..n /\ n \in Nat /\ Size(less) = n - 1
      /\ AtPlace(ledger, p) = i /\ Ordered(ledger)[p] = txn
      /\ \A k \in 1..(n - 1) : /\ k < p => Ordered(less)[k] = Ordered(ledger)[k]
                               /\ k >= p => Ordered(less)[k] = Ordered(ledger)[k + 1]
  <2>1. IsLedger(ledger) /\ IsLedger(less)
    BY DEF OneEventLess
  <2>2. p \in 1..n /\ n \in Nat /\ Size(less) = n - 1 /\ AtPlace(ledger, p) = i /\ Ordered(ledger)[p] = txn
    BY PlacesWithoutAnEvent
  <2>3. \A k \in 1..Size(less) : /\ k < p => Ordered(less)[k] = Ordered(ledger)[k]
                                 /\ k >= p => Ordered(less)[k] = Ordered(ledger)[k + 1]
    BY PlacesWithoutAnEvent
  <2> HIDE DEF n, p
  <2>4. QED
    BY <2>1, <2>2, <2>3
<1>2. txn \in Transaction /\ txn.type = "dividend" /\ day \in Nat /\ ~IsOpening(txn)
  BY TransactionType DEF OneEventLess, IsLedger, IsOpening
<1>3. PICK f : IsRun("replay", EmptyReplay, Ordered(ledger), n, f) /\ Replay(ledger) = Settle(f[n], TRUE)
  BY <1>1, ReplayOfALedger
<1>4. PICK g : IsRun("replay", EmptyReplay, Ordered(less), n - 1, g) /\ Replay(less) = Settle(g[n - 1], TRUE)
  <2>1. \E g : IsRun("replay", EmptyReplay, Ordered(less), Size(less), g)
               /\ Replay(less) = Settle(g[Size(less)], TRUE)
    BY <1>1, ReplayOfALedger
  <2>2. QED
    BY <1>1, <2>1
<1>5. /\ f[0] = EmptyReplay
      /\ \A k \in 0..n : f[k] \in Replays /\ Stuck(f[k])
      /\ \A k \in 1..n : LET now == ledger[AtPlace(ledger, k)]
                         IN  /\ now \in Transaction /\ Ordered(ledger)[k] = now
                             /\ f[k] = ReplayEvent(f[k - 1], now) /\ f[k].day = DayOf(now.date)
                             /\ f[k].waiting # <<>> => ~IsOpening(now)
  BY <1>1, <1>3, RunOfALedger
<1>6. \A k \in 0..(n - 1) : g[k] \in Replays
  <2>1. IsRun("replay", EmptyReplay, Ordered(less), Size(less), g)
    BY <1>1, <1>4
  <2>2. \A k \in 0..Size(less) : g[k] \in Replays
    BY <1>1, <2>1, RunOfALedger
  <2>3. QED
    BY <1>1, <2>2
<1>7. \A j, k \in 1..n : j < k => Precedes(ledger, AtPlace(ledger, j), AtPlace(ledger, k))
  BY <1>1, PlacesAreOrdered
<1> HIDE DEF n, p, txn, day
<1> DEFINE h == f[p - 1]
<1>8. h = g[p - 1] /\ h \in Replays /\ Stuck(h)
  <2>1. p - 1 \in Nat /\ p - 1 \in 0..n /\ p - 1 \in 0..(p - 1)
    BY <1>1
  <2>2. \A k \in 1..(p - 1) : k \in 1..n /\ k \in 1..(n - 1) /\ Ordered(less)[k] = Ordered(ledger)[k]
    BY <1>1
  <2>3. IsRun("replay", EmptyReplay, Ordered(ledger), p - 1, f)
    BY <1>3, <2>2 DEF IsRun
  <2>4. IsRun("replay", EmptyReplay, Ordered(less), p - 1, g)
    BY <1>4, <2>2 DEF IsRun
  <2>5. \A k \in 0..(p - 1) : f[k] = g[k]
    <3>1. \A k \in 1..(p - 1) : Ordered(ledger)[k] = Ordered(less)[k]
      BY <2>2
    <3>2. PICK m \in Nat : m = p - 1
      BY <2>1
    <3>3. /\ IsRun("replay", EmptyReplay, Ordered(ledger), m, f)
          /\ IsRun("replay", EmptyReplay, Ordered(less), m, g)
          /\ \A k \in 1..m : Ordered(ledger)[k] = Ordered(less)[k]
      BY <2>3, <2>4, <3>1, <3>2
    <3>s. \A k \in 0..m : f[k] = g[k]
      <4> DEFINE seq == Ordered(ledger)
                 other == Ordered(less)
      <4>1. IsRun("replay", EmptyReplay, seq, m, f) /\ IsRun("replay", EmptyReplay, other, m, g)
            /\ (\A k \in 1..m : seq[k] = other[k]) /\ m \in Nat
        BY <3>2, <3>3
      <4> HIDE DEF seq, other
      <4>2. QED
        BY <4>1, TwoRunsAgree
    <3>4. QED
      BY <3>2, <3>s
  <2>6. QED
    BY <1>5, <2>1, <2>5
<1>9. h.waiting = <<>> \/ h.day <= day
  <2>1. CASE p = 1
    <3>1. h = EmptyReplay
      BY <1>5, <2>1
    <3>2. QED
      BY <3>1 DEF EmptyReplay
  <2>2. CASE p # 1
    <3>1. PICK k \in 1..n : k = p - 1 /\ k < p
      BY <1>1, <2>2
    <3> DEFINE last == ledger[AtPlace(ledger, k)]
    <3>2. last \in Transaction /\ h.day = DayOf(last.date) /\ (h.waiting # <<>> => ~IsOpening(last))
      BY <1>5, <3>1
    <3>3. Precedes(ledger, AtPlace(ledger, k), i)
      BY <1>1, <1>7, <3>1
    <3>4. h.waiting # <<>> => last.date <= txn.date
      BY <1>2, <3>2, <3>3 DEF Precedes, txn, Transaction
    <3>5. last.date <= txn.date => DayOf(last.date) <= day
      BY <1>2, <3>2, TransactionType DEF DayOf, SlotsPerDay, day, Transaction
    <3>6. QED
      BY <3>2, <3>4, <3>5
  <2>3. QED
    BY <2>1, <2>2
<1>10. /\ f[p] \in Replays /\ f[p].day = day
       /\ h.day = day => Alike(f[p], h)
       /\ h.day # day => Alike(f[p], Settle(h, TRUE)) /\ f[p].waiting = <<>>
  <2>1. f[p] = ReplayEvent(h, txn)
    BY <1>1, <1>5 DEF txn
  <2>2. QED
    BY <1>2, <1>8, <2>1, DividendIsAlike DEF day
<1>11. Settle(h, TRUE) \in Replays /\ Settle(h, TRUE).waiting = <<>>
       /\ (h.waiting = <<>> => Settle(h, TRUE) = h)
  BY <1>8, SettleFields, Zenon
<1>12. CASE p = n
  <2>1. g[n - 1] = h
    BY <1>8, <1>12
  <2>2. Alike(Settle(f[n], TRUE), Settle(h, TRUE))
    <3>1. CASE h.day = day
      BY <1>10, <1>12, <3>1, SettleAlike
    <3>2. CASE h.day # day
      <4>1. Settle(f[p], TRUE) = f[p]
        BY <1>10, <3>2, SettleFields, Zenon
      <4>2. QED
        BY <1>10, <1>12, <3>2, <4>1
    <3>3. QED
      BY <3>1, <3>2
  <2>3. QED
    BY <1>3, <1>4, <2>1, <2>2
<1>13. CASE p < n
  <2> DEFINE Same(k) == Alike(f[k + 1], g[k]) /\ f[k + 1].day = g[k].day
             S == {k \in Nat : p + k <= n - 1 => Same(p + k)}
  <2>1. ASSUME NEW k \in 1..(n - 1), k >= p
        PROVE  \E now \in Transaction :
                  /\ f[k + 1] = ReplayEvent(f[k], now) /\ g[k] = ReplayEvent(g[k - 1], now)
                  /\ now = ledger[AtPlace(ledger, k + 1)]
    <3>1. PICK j \in 1..n : j = k + 1 /\ j - 1 = k
      BY <1>1
    <3> DEFINE now == ledger[AtPlace(ledger, j)]
    <3>2. now \in Transaction /\ Ordered(ledger)[j] = now /\ f[j] = ReplayEvent(f[j - 1], now)
      BY <1>5
    <3>3. g[k] = Step("replay", g[k - 1], Ordered(less)[k])
      BY <1>4 DEF IsRun
    <3>4. Ordered(less)[k] = now
      BY <1>1, <2>1, <3>1, <3>2
    <3>5. g[k] = ReplayEvent(g[k - 1], now)
      BY <3>3, <3>4 DEF Step
    <3>6. QED
      BY <3>1, <3>2, <3>5
  <2>2. Same(p)
    <3>1. p \in 1..(n - 1) /\ p >= p
      BY <1>1, <1>13
    <3>2. PICK now \in Transaction :
             /\ f[p + 1] = ReplayEvent(f[p], now) /\ g[p] = ReplayEvent(h, now)
             /\ now = ledger[AtPlace(ledger, p + 1)]
      BY <1>8, <2>1, <3>1
    <3>3. CASE h.day = day \/ h.waiting = <<>>
      <4>1. Alike(f[p], h) /\ (f[p].day = h.day \/ f[p].waiting = <<>>)
        BY <1>10, <1>11, <3>3
      <4>2. QED
        BY <3>2, <4>1, EventsKeepAlike
    <3>4. CASE h.day # day /\ h.waiting # <<>>
      <4> DEFINE next == DayOf(now.date)
                 a == NewDay(f[p], next)
                 b == NewDay(h, next)
      <4>1. next \in Int
        BY TransactionType
      <4>2. next # h.day
        <5>1. p + 1 \in 1..n /\ p < p + 1
          BY <1>1, <1>13
        <5>2. Precedes(ledger, i, AtPlace(ledger, p + 1))
          BY <1>1, <1>7, <5>1
        <5>3. txn.date <= now.date
          BY <1>2, <3>2, <5>2 DEF Precedes, txn, Transaction
        <5>4. day <= next
          BY <1>2, <5>3, TransactionType DEF DayOf, SlotsPerDay, day, Transaction
        <5>5. h.day < day
          BY <1>2, <1>8, <1>9, <3>4 DEF Replays
        <5> HIDE DEF next
        <5>6. QED
          BY <1>2, <1>8, <4>1, <5>4, <5>5 DEF Replays
      <4>3. b = [Settle(h, TRUE) EXCEPT !.day = next]
        BY <4>2 DEF NewDay
      <4>4. a = [f[p] EXCEPT !.day = next]
        BY <1>10, <3>4, <4>1, NewDayFields
      <4>5. Alike(a, b)
        <5> HIDE DEF a, b, next
        <5>1. Alike(f[p], Settle(h, TRUE))
          BY <1>10, <3>4
        <5>2. QED
          BY <4>1, <4>3, <4>4, <5>1 DEF Alike, Replays
      <4>6. Alike(ReplayEvent(f[p], now), ReplayEvent(h, now))
        BY <4>5, MeetAlike DEF ReplayEvent
      <4>7. ReplayEvent(f[p], now).day = next /\ ReplayEvent(h, now).day = next
        BY <1>8, <1>10, ReplayEventFields, Zenon
      <4>8. QED
        BY <3>2, <4>6, <4>7
    <3>5. QED
      BY <3>3, <3>4
  <2>3. 0 \in S
    <3>1. p + 0 = p
      BY <1>1
    <3>2. QED
      BY <2>2, <3>1
  <2>4. ASSUME NEW k \in Nat, k \in S PROVE k + 1 \in S
    <3>1. SUFFICES ASSUME p + (k + 1) <= n - 1 PROVE Same(p + (k + 1))
      OBVIOUS
    <3>2. PICK j \in 1..(n - 1) : j = p + (k + 1) /\ j - 1 = p + k /\ j >= p /\ j = (p + k) + 1
      BY <1>1, <3>1
    <3>3. PICK now \in Transaction : f[j + 1] = ReplayEvent(f[j], now) /\ g[j] = ReplayEvent(g[j - 1], now)
      BY <2>1, <3>2
    <3>4. Same(p + k)
      BY <1>1, <2>4, <3>1
    <3>5. Alike(f[j], g[j - 1]) /\ f[j].day = g[j - 1].day
      BY <3>2, <3>4
    <3>6. Same(j)
      BY <3>3, <3>5, EventsKeepAlike
    <3>7. QED
      BY <3>2, <3>6
  <2>5. n - 1 - p \in Nat /\ p + (n - 1 - p) = n - 1 /\ (n - 1) + 1 = n
    BY <1>1, <1>13
  <2>6. n - 1 - p \in S
    <3> HIDE DEF S
    <3>1. QED
      BY <2>3, <2>4, <2>5, Induction
  <2>7. Same(n - 1)
    BY <1>1, <2>5, <2>6
  <2>8. Alike(f[n], g[n - 1])
    BY <2>5, <2>7
  <2>9. QED
    BY <1>3, <1>4, <2>8, SettleAlike
<1>14. QED
  BY <1>1, <1>12, <1>13

------------------------------------------------------------------------------
(***************************************************************************)
(* The laws of fractions: a sum is that of the values, whatever names the  *)
(* fractions go by, so it is a commutative group on those in lowest terms. *)
(***************************************************************************)
Reduced(x) == x \in Rational /\ Fraction(x[1], x[2]) = x

Opposite(x) == <<-x[1], x[2]>>

LEMMA Products ==
  /\ \A a, b \in Int : a * b \in Int
  /\ \A a, b \in Nat \ {0} : a * b \in Nat \ {0}
OBVIOUS

LEMMA FractionsAreReduced ==
  ASSUME NEW n \in Int, NEW d \in Nat \ {0}
  PROVE  Reduced(Fraction(n, d))
<1> DEFINE x == Fraction(n, d)
<1>1. x \in Rational /\ x[1] * d = n * x[2]
  BY FractionValue
<1> HIDE DEF x
<1>2. x[1] \in Int /\ x[2] \in Nat \ {0}
  BY <1>1 DEF Rational
<1>3. Fraction(x[1], x[2]) = Fraction(n, d)
  BY <1>1, <1>2, EqualFractions
<1>4. QED
  BY <1>1, <1>3 DEF Reduced, x

LEMMA FractionSign ==
  ASSUME NEW n \in Int, NEW d \in Nat \ {0}
  PROVE  /\ Fraction(n, d)[1] \in Int
         /\ n = 0 => Fraction(n, d) = Zero
         /\ n > 0 => Fraction(n, d)[1] > 0
<1> DEFINE p == Fraction(n, d)[1]
           q == Fraction(n, d)[2]
<1>1. p \in Int /\ q \in Nat \ {0} /\ p * d = n * q
  BY FractionValue DEF Rational
<1>2. n = 0 => Fraction(n, d) = Zero
  <2>1. SUFFICES ASSUME n = 0 PROVE Fraction(n, d) = Zero
    OBVIOUS
  <2>2. Fraction(0, d) = Fraction(0, 1)
    <3>1. 0 * 1 = 0 * d
      OBVIOUS
    <3>2. QED
      BY <3>1, EqualFractions
  <2>3. Fraction(0, 1) = Zero
    <3>1. Minus(Whole(0), Whole(0)) = Whole(0) /\ Zero = Whole(0)
      BY WholeOps
    <3>2. Minus(Whole(0), Whole(0)) = Fraction(0 * 1 - 0 * 1, 1 * 1)
      BY DEF Minus, Whole
    <3>3. 0 * 1 - 0 * 1 = 0 /\ 1 * 1 = 1
      OBVIOUS
    <3>4. QED
      BY <3>1, <3>2, <3>3
  <2>4. QED
    BY <2>1, <2>2, <2>3
<1> HIDE DEF p, q
<1>3. n > 0 => p > 0
  <2>1. SUFFICES ASSUME n > 0, p <= 0 PROVE FALSE
    BY <1>1
  <2>2. n * q > 0
    <3>1. n \in Nat \ {0}
      BY <2>1
    <3>2. n * q \in Nat \ {0}
      BY <1>1, <3>1, Products
    <3>3. QED
      BY <3>2
  <2>3. p * d <= 0
    <3>1. -p \in Nat
      BY <1>1, <2>1
    <3>2. \A a, b \in Nat : a * b \in Nat
      OBVIOUS
    <3>3. (-p) * d \in Nat
      BY <3>1, <3>2
    <3>4. (-p) * d = -(p * d) /\ p * d \in Int
      BY <1>1
    <3>5. QED
      BY <3>3, <3>4
  <2>4. n * q \in Int /\ p * d \in Int
    BY <1>1, Products
  <2>5. QED
    BY <1>1, <2>2, <2>3, <2>4
<1>4. QED
  BY <1>1, <1>2, <1>3 DEF p

LEMMA CrossPlus ==
  ASSUME NEW p \in Int, NEW q \in Int, NEW n \in Int, NEW d \in Int, NEW c \in Int, NEW e \in Int,
         p * d = n * q
  PROVE  (p * e + c * q) * (d * e) = (n * e + c * d) * (q * e)
<1>1. (p * d) * (e * e) = (n * q) * (e * e)
  OBVIOUS
<1>2. (p * e + c * q) * (d * e) = (p * d) * (e * e) + (c * q) * (d * e)
  OBVIOUS
<1>3. (n * e + c * d) * (q * e) = (n * q) * (e * e) + (c * d) * (q * e)
  OBVIOUS
<1>4. (c * q) * (d * e) = (c * d) * (q * e)
  OBVIOUS
<1>5. QED
  BY <1>1, <1>2, <1>3, <1>4

LEMMA PlusFraction ==
  ASSUME NEW n \in Int, NEW d \in Nat \ {0}, NEW z \in Rational
  PROVE  Plus(Fraction(n, d), z) = Fraction(n * z[2] + z[1] * d, d * z[2])
<1> DEFINE p == Fraction(n, d)[1]
           q == Fraction(n, d)[2]
           c == z[1]
           e == z[2]
<1>1. p \in Int /\ q \in Nat \ {0} /\ p * d = n * q /\ c \in Int /\ e \in Nat \ {0}
  BY FractionValue DEF Rational
<1>2. Plus(Fraction(n, d), z) = Fraction(p * e + c * q, q * e)
  BY DEF Plus
<1> HIDE DEF p, q, c, e
<1>3. /\ p * e \in Int /\ c * q \in Int /\ n * e \in Int /\ c * d \in Int
      /\ q * e \in Nat \ {0} /\ d * e \in Nat \ {0}
  BY <1>1, Products
<1>4. p * e + c * q \in Int /\ n * e + c * d \in Int
  BY <1>3
<1>5. (p * e + c * q) * (d * e) = (n * e + c * d) * (q * e)
  BY <1>1, CrossPlus
<1>6. Fraction(p * e + c * q, q * e) = Fraction(n * e + c * d, d * e)
  BY <1>3, <1>4, <1>5, EqualFractions
<1>7. QED
  BY <1>2, <1>6 DEF c, e

LEMMA PlusCommutes ==
  ASSUME NEW x \in Rational, NEW y \in Rational
  PROVE  Plus(x, y) = Plus(y, x)
<1>1. x[1] \in Int /\ x[2] \in Int /\ y[1] \in Int /\ y[2] \in Int
  BY DEF Rational
<1>2. x[1] * y[2] + y[1] * x[2] = y[1] * x[2] + x[1] * y[2] /\ x[2] * y[2] = y[2] * x[2]
  BY <1>1
<1>3. QED
  BY <1>2, Zenon DEF Plus

LEMMA PlusAssociates ==
  ASSUME NEW x \in Rational, NEW y \in Rational, NEW z \in Rational
  PROVE  Plus(Plus(x, y), z) = Plus(x, Plus(y, z))
<1> DEFINE n == x[1] * y[2] + y[1] * x[2]
           d == x[2] * y[2]
           m == y[1] * z[2] + z[1] * y[2]
           e == y[2] * z[2]
<1>1. /\ x[1] \in Int /\ x[2] \in Nat \ {0} /\ y[1] \in Int /\ y[2] \in Nat \ {0}
      /\ z[1] \in Int /\ z[2] \in Nat \ {0}
  BY DEF Rational
<1>2. n \in Int /\ m \in Int /\ d \in Nat \ {0} /\ e \in Nat \ {0}
  BY <1>1, Products
<1>3. Plus(x, y) = Fraction(n, d) /\ Plus(y, z) = Fraction(m, e)
  BY DEF Plus
<1>4. n * z[2] + z[1] * d = m * x[2] + x[1] * e /\ d * z[2] = e * x[2]
  <2> DEFINE a == x[1]
             b == x[2]
             f == y[1]
             g == y[2]
             h == z[1]
             k == z[2]
  <2>1. a \in Int /\ b \in Int /\ f \in Int /\ g \in Int /\ h \in Int /\ k \in Int
    BY <1>1
  <2> HIDE DEF a, b, f, g, h, k
  <2>2. (a * g + f * b) * k + h * (b * g) = (f * k + h * g) * b + a * (g * k)
    BY <2>1
  <2>3. (b * g) * k = (g * k) * b
    BY <2>1
  <2>4. QED
    BY <2>2, <2>3 DEF a, b, f, g, h, k
<1> HIDE DEF n, d, m, e
<1>5. Plus(Plus(x, y), z) = Fraction(n * z[2] + z[1] * d, d * z[2])
  BY <1>2, <1>3, PlusFraction
<1>6. Plus(Plus(y, z), x) = Fraction(m * x[2] + x[1] * e, e * x[2])
  BY <1>2, <1>3, PlusFraction
<1>7. Plus(Plus(y, z), x) = Plus(x, Plus(y, z))
  BY RationalOps, PlusCommutes
<1>8. QED
  BY <1>4, <1>5, <1>6, <1>7

LEMMA PlusExchanges ==
  ASSUME NEW x \in Rational, NEW y \in Rational, NEW u \in Rational, NEW w \in Rational
  PROVE  /\ Plus(Plus(x, u), w) = Plus(Plus(x, w), u)
         /\ Plus(Plus(x, y), Plus(u, w)) = Plus(Plus(x, u), Plus(y, w))
<1>1. \A a, b \in Rational : Plus(a, b) \in Rational /\ Plus(a, b) = Plus(b, a)
  BY RationalOps, PlusCommutes
<1>2. \A a, b, c \in Rational : Plus(Plus(a, b), c) = Plus(a, Plus(b, c))
  BY PlusAssociates
<1>3. \A a, b, c \in Rational : Plus(Plus(a, b), c) = Plus(Plus(a, c), b)
  <2>1. ASSUME NEW a \in Rational, NEW b \in Rational, NEW c \in Rational
        PROVE  Plus(Plus(a, b), c) = Plus(Plus(a, c), b)
    <3>1. Plus(b, c) = Plus(c, b)
      BY <1>1
    <3>2. Plus(Plus(a, b), c) = Plus(a, Plus(b, c)) /\ Plus(Plus(a, c), b) = Plus(a, Plus(c, b))
      BY <1>2
    <3>3. QED
      BY <3>1, <3>2
  <2>2. QED
    BY <2>1
<1>4. Plus(Plus(x, y), Plus(u, w)) = Plus(Plus(x, u), Plus(y, w))
  <2> DEFINE xy == Plus(x, y)
             xu == Plus(x, u)
  <2>1. xy \in Rational /\ xu \in Rational
    BY <1>1
  <2>2. Plus(xy, u) = Plus(xu, y)
    BY <1>3
  <2>3. Plus(xy, Plus(u, w)) = Plus(Plus(xy, u), w) /\ Plus(xu, Plus(y, w)) = Plus(Plus(xu, y), w)
    <3> HIDE DEF xy, xu
    <3>1. QED
      BY <1>2, <2>1
  <2>4. QED
    BY <2>2, <2>3
<1>5. QED
  BY <1>3, <1>4

LEMMA MinusIsPlus ==
  ASSUME NEW x \in Rational, NEW y \in Rational
  PROVE  /\ Opposite(y) \in Rational
         /\ Minus(x, y) = Plus(x, Opposite(y))
         /\ Minus(x, x) = Zero
<1>1. x[1] \in Int /\ x[2] \in Nat \ {0} /\ y[1] \in Int /\ y[2] \in Nat \ {0}
  BY DEF Rational
<1>2. Opposite(y) \in Rational /\ Opposite(y)[1] = -y[1] /\ Opposite(y)[2] = y[2]
  BY <1>1 DEF Opposite, Rational
<1>3. x[1] * y[2] - y[1] * x[2] = x[1] * y[2] + (-y[1]) * x[2]
  BY <1>1
<1>4. Minus(x, y) = Plus(x, Opposite(y))
  BY <1>2, <1>3 DEF Minus, Plus
<1>5. Minus(x, x) = Zero
  <2>1. x[1] * x[2] - x[1] * x[2] = 0 /\ x[2] * x[2] \in Nat \ {0}
    BY <1>1, Products
  <2>2. Minus(x, x) = Fraction(0, x[2] * x[2])
    BY <2>1 DEF Minus
  <2>3. QED
    BY <2>1, <2>2, FractionSign
<1>6. QED
  BY <1>2, <1>4, <1>5

LEMMA ResultsAreReduced ==
  ASSUME NEW x \in Rational, NEW y \in Rational
  PROVE  /\ Reduced(Plus(x, y)) /\ Reduced(Minus(x, y)) /\ Reduced(Times(x, y))
         /\ Reduced(x) => Plus(x, Zero) = x
<1>1. x[1] \in Int /\ x[2] \in Nat \ {0} /\ y[1] \in Int /\ y[2] \in Nat \ {0}
  BY DEF Rational
<1>2. x[2] * y[2] \in Nat \ {0} /\ x[1] * y[2] \in Int /\ y[1] * x[2] \in Int /\ x[1] * y[1] \in Int
  BY <1>1, Products
<1>3. x[1] * y[2] + y[1] * x[2] \in Int /\ x[1] * y[2] - y[1] * x[2] \in Int
  BY <1>2
<1>4. x[1] * 1 + 0 * x[2] = x[1] /\ x[2] * 1 = x[2]
  BY <1>1
<1>5. Plus(x, Zero) = Fraction(x[1] * 1 + 0 * x[2], x[2] * 1)
  BY DEF Plus, Zero, Whole
<1>6. QED
  BY <1>2, <1>3, <1>4, <1>5, FractionsAreReduced DEF Plus, Minus, Times, Reduced

LEMMA WholesAreReduced ==
  ASSUME NEW n \in Int
  PROVE  Reduced(Whole(n)) /\ Reduced(Zero)
<1>1. \A k \in Int : Reduced(Whole(k))
  <2>1. ASSUME NEW k \in Int PROVE Reduced(Whole(k))
    <3>1. Plus(Whole(k), Whole(0)) = Whole(k + 0) /\ Whole(k) \in Rational /\ Whole(0) \in Rational
      BY WholeOps
    <3>2. k + 0 = k
      OBVIOUS
    <3>3. QED
      BY <3>1, <3>2, ResultsAreReduced
  <2>2. QED
    BY <2>1
<1>2. QED
  BY <1>1 DEF Zero

\* Two fractions of one value, both in lowest terms, are one.
LEMMA ReducedAreEqual ==
  ASSUME NEW x, NEW y, Reduced(x), Reduced(y), x[1] * y[2] = y[1] * x[2]
  PROVE  x = y
<1>1. x[1] \in Int /\ x[2] \in Nat \ {0} /\ y[1] \in Int /\ y[2] \in Nat \ {0}
  BY DEF Reduced, Rational
<1>2. Fraction(x[1], x[2]) = Fraction(y[1], y[2])
  BY <1>1, EqualFractions
<1>3. QED
  BY <1>2 DEF Reduced

LEMMA CrossTimes ==
  ASSUME NEW p \in Int, NEW q \in Int, NEW a \in Int, NEW b \in Int, NEW c \in Int, NEW e \in Int,
         c # 0, p * (b * c) = (a * e) * q
  PROVE  (p * c) * b = a * (q * e)
<1>1. (p * c) * b = p * (b * c)
  OBVIOUS
<1>2. a * (q * e) = (a * e) * q
  OBVIOUS
<1>3. QED
  BY <1>1, <1>2

\* The average cost of all the shares is their cost.
LEMMA TimesOver ==
  ASSUME NEW x, Reduced(x), NEW y \in Rational, Positive(y)
  PROVE  Over(x, y) \in Rational /\ Times(Over(x, y), y) = x
<1> DEFINE a == x[1]
           b == x[2]
           c == y[1]
           e == y[2]
           p == Over(x, y)[1]
           q == Over(x, y)[2]
<1>1. a \in Int /\ b \in Nat \ {0} /\ c \in Nat \ {0} /\ e \in Nat \ {0} /\ x = Fraction(a, b)
  BY DEF Reduced, Rational, Positive
<1>2. Over(x, y) = Fraction(a * e, b * c) /\ Times(Over(x, y), y) = Fraction(p * c, q * e)
  BY DEF Over, Times
<1>3. a * e \in Int /\ b * c \in Nat \ {0}
  BY <1>1, Products
<1>4. Over(x, y) \in Rational /\ p * (b * c) = (a * e) * q
  <2>1. /\ Fraction(a * e, b * c) \in Rational
        /\ Fraction(a * e, b * c)[1] * (b * c) = (a * e) * Fraction(a * e, b * c)[2]
    <3> HIDE DEF a, b, c, e
    <3>1. QED
      BY <1>3, FractionValue
  <2>2. QED
    BY <1>2, <2>1, Zenon
<1>5. p \in Int /\ q \in Nat \ {0}
  BY <1>4 DEF Rational
<1> HIDE DEF a, b, c, e, p, q
<1>6. (p * c) * b = a * (q * e)
  BY <1>1, <1>4, <1>5, CrossTimes
<1>7. p * c \in Int /\ q * e \in Nat \ {0}
  BY <1>1, <1>5, Products
<1>8. Fraction(p * c, q * e) = Fraction(a, b)
  BY <1>1, <1>6, <1>7, EqualFractions
<1>9. QED
  BY <1>1, <1>2, <1>4, <1>8

LEMMA Signs ==
  ASSUME NEW x \in Rational, NEW y \in Rational
  PROVE  /\ x[1] >= 0 /\ y[1] > 0 => Plus(x, y)[1] > 0
         /\ x[1] > 0 /\ y[1] > 0 => Times(x, y)[1] > 0
         /\ x[1] = 0 => Times(x, y) = Zero
         /\ Below(y, x) => Minus(x, y)[1] > 0
<1>1. x[1] \in Int /\ x[2] \in Nat \ {0} /\ y[1] \in Int /\ y[2] \in Nat \ {0}
  BY DEF Rational
<1>2. x[2] * y[2] \in Nat \ {0} /\ x[1] * y[2] \in Int /\ y[1] * x[2] \in Int /\ x[1] * y[1] \in Int
  BY <1>1, Products
<1>3. x[1] >= 0 /\ y[1] > 0 => Plus(x, y)[1] > 0
  <2>1. SUFFICES ASSUME x[1] >= 0, y[1] > 0 PROVE Plus(x, y)[1] > 0
    OBVIOUS
  <2>2. x[1] * y[2] >= 0
    <3>1. \A k, m \in Nat : k * m \in Nat
      OBVIOUS
    <3>2. QED
      BY <1>1, <2>1, <3>1
  <2>3. y[1] * x[2] > 0
    <3>1. y[1] \in Nat \ {0}
      BY <1>1, <2>1
    <3>2. y[1] * x[2] \in Nat \ {0}
      BY <1>1, <3>1, Products
    <3>3. QED
      BY <3>2
  <2>4. x[1] * y[2] + y[1] * x[2] > 0 /\ x[1] * y[2] + y[1] * x[2] \in Int
    BY <1>2, <2>2, <2>3
  <2>5. QED
    BY <1>2, <2>4, FractionSign DEF Plus
<1>4. x[1] > 0 /\ y[1] > 0 => Times(x, y)[1] > 0
  <2>1. SUFFICES ASSUME x[1] > 0, y[1] > 0 PROVE Times(x, y)[1] > 0
    OBVIOUS
  <2>2. x[1] \in Nat \ {0} /\ y[1] \in Nat \ {0}
    BY <1>1, <2>1
  <2>3. x[1] * y[1] \in Nat \ {0}
    BY <2>2, Products
  <2>4. x[1] * y[1] > 0
    BY <2>3
  <2>5. QED
    BY <1>2, <2>4, FractionSign DEF Times
<1>5. x[1] = 0 => Times(x, y) = Zero
  <2>1. x[1] = 0 => x[1] * y[1] = 0
    BY <1>1
  <2>2. QED
    BY <1>2, <2>1, FractionSign DEF Times
<1>6. Below(y, x) => Minus(x, y)[1] > 0
  <2>1. Below(y, x) => x[1] * y[2] - y[1] * x[2] > 0
    BY <1>2 DEF Below
  <2>2. x[1] * y[2] - y[1] * x[2] \in Int
    BY <1>2
  <2>3. QED
    BY <1>2, <2>1, <2>2, FractionSign DEF Minus
<1>7. QED
  BY <1>3, <1>4, <1>5, <1>6

LEMMA FractionNotNegative ==
  ASSUME NEW n \in Int, NEW d \in Nat \ {0}, n >= 0
  PROVE  Fraction(n, d)[1] >= 0
<1>1. Zero[1] = 0
  BY DEF Zero, Whole
<1>2. n = 0 \/ n > 0
  OBVIOUS
<1>3. Fraction(n, d)[1] \in Int
  BY FractionSign
<1>4. QED
  BY <1>1, <1>2, <1>3, FractionSign

LEMMA NotNegative ==
  ASSUME NEW x \in Rational, NEW y \in Rational, x[1] >= 0, y[1] >= 0
  PROVE  /\ Plus(x, y)[1] >= 0 /\ Times(x, y)[1] >= 0
         /\ Positive(y) => Over(x, y)[1] >= 0
<1>1. x[1] \in Nat /\ x[2] \in Nat \ {0} /\ y[1] \in Nat /\ y[2] \in Nat \ {0}
  BY DEF Rational
<1>2. \A a, b \in Nat : a * b \in Nat
  OBVIOUS
<1>3. /\ x[1] * y[2] \in Nat /\ y[1] * x[2] \in Nat /\ x[1] * y[1] \in Nat
      /\ x[2] * y[2] \in Nat \ {0}
  BY <1>1, <1>2, Products
<1>4. x[1] * y[2] + y[1] * x[2] \in Nat
  BY <1>3
<1>5. Plus(x, y)[1] >= 0 /\ Times(x, y)[1] >= 0
  BY <1>3, <1>4, FractionNotNegative DEF Plus, Times
<1>6. ASSUME Positive(y) PROVE Over(x, y)[1] >= 0
  <2>1. y[1] \in Nat \ {0}
    BY <1>1, <1>6 DEF Positive
  <2>2. x[2] * y[1] \in Nat \ {0}
    BY <1>1, <2>1, Products
  <2>3. QED
    BY <1>3, <2>2, FractionNotNegative DEF Over
<1>7. QED
  BY <1>5, <1>6

LEMMA CrossCost ==
  ASSUME NEW a \in Nat, NEW b \in Nat \ {0}, NEW c \in Nat \ {0}, NEW e \in Nat \ {0},
         NEW g \in Nat, NEW k \in Nat \ {0}, NEW p \in Int, NEW q \in Nat \ {0},
         NEW r \in Int, NEW s \in Nat \ {0},
         p * (b * c) = (a * e) * q, r * (q * k) = (p * g) * s, g * e <= c * k
  PROVE  a * s - r * b >= 0
<1>1. (r * b) * (q * k * c) = (a * s * q) * (g * e)
  <2>1. (r * b) * (q * k * c) = (r * (q * k)) * (b * c)
    OBVIOUS
  <2>2. ((p * g) * s) * (b * c) = (p * (b * c)) * (g * s)
    OBVIOUS
  <2>3. ((a * e) * q) * (g * s) = (a * s * q) * (g * e)
    OBVIOUS
  <2>4. QED
    BY <2>1, <2>2, <2>3
<1>2. (a * s) * (q * k * c) = (a * s * q) * (c * k)
  OBVIOUS
<1>3. a * s * q \in Nat /\ g * e \in Int /\ c * k \in Int
  OBVIOUS
<1>4. (a * s * q) * (g * e) <= (a * s * q) * (c * k)
  <2>1. \A m \in Nat, u, v \in Int : u <= v => m * u <= m * v
    <3>1. ASSUME NEW m \in Nat, NEW u \in Int, NEW v \in Int, u <= v PROVE m * u <= m * v
      <4>1. v - u \in Nat
        BY <3>1
      <4>2. m * (v - u) \in Nat
        <5>1. \A i, j \in Nat : i * j \in Nat
          OBVIOUS
        <5>2. QED
          BY <4>1, <5>1
      <4>3. m * (v - u) = m * v - m * u /\ m * v \in Int /\ m * u \in Int
        OBVIOUS
      <4>4. QED
        BY <4>2, <4>3
    <3>2. QED
      BY <3>1
  <2> DEFINE m == a * s * q
             u == g * e
             v == c * k
  <2>2. m \in Nat /\ u \in Int /\ v \in Int /\ u <= v
    BY <1>3
  <2> HIDE DEF m, u, v
  <2>3. m * u <= m * v
    BY <2>1, <2>2
  <2>4. QED
    BY <2>3 DEF m, u, v
<1> DEFINE w == q * k * c
           left == r * b
           right == a * s
<1>5. w \in Nat \ {0} /\ left \in Int /\ right \in Int /\ left * w <= right * w
  <2>1. q * k \in Nat \ {0}
    BY Products
  <2>2. q * k * c \in Nat \ {0}
    <3> DEFINE j == q * k
    <3>1. j \in Nat \ {0}
      BY <2>1
    <3> HIDE DEF j
    <3>2. j * c \in Nat \ {0}
      BY <3>1, Products
    <3>3. QED
      BY <3>2 DEF j
  <2>3. r * b \in Int /\ a * s \in Int
    OBVIOUS
  <2>4. QED
    BY <1>1, <1>2, <1>4, <2>2, <2>3
<1> HIDE DEF w, left, right
<1>6. left <= right
  <2>1. SUFFICES ASSUME right + 1 <= left PROVE FALSE
    BY <1>5
  <2>2. left - right \in Nat \ {0}
    BY <1>5, <2>1
  <2>3. (left - right) * w \in Nat \ {0}
    BY <1>5, <2>2, Products
  <2>4. (left - right) * w = left * w - right * w /\ left * w \in Int /\ right * w \in Int
    BY <1>5
  <2>5. QED
    BY <1>5, <2>3, <2>4
<1>7. QED
  BY <1>5, <1>6 DEF left, right

\* Part of the shares takes no more than the whole cost.
LEMMA CostOfPart ==
  ASSUME NEW x \in Rational, NEW y \in Rational, NEW z \in Rational,
         x[1] >= 0, z[1] >= 0, Positive(y), ~Below(y, z)
  PROVE  Minus(x, Times(Over(x, y), z))[1] >= 0
<1> DEFINE a == x[1]
           b == x[2]
           c == y[1]
           e == y[2]
           g == z[1]
           k == z[2]
           p == Over(x, y)[1]
           q == Over(x, y)[2]
           r == Times(Over(x, y), z)[1]
           s == Times(Over(x, y), z)[2]
<1>1. /\ a \in Nat /\ b \in Nat \ {0} /\ c \in Nat \ {0} /\ e \in Nat \ {0}
      /\ g \in Nat /\ k \in Nat \ {0}
  BY DEF Rational, Positive
<1>2. g * e <= c * k
  <2>1. ~(c * k < g * e)
    BY DEF Below
  <2>2. c * k \in Int /\ g * e \in Int
    BY <1>1, Products
  <2>3. QED
    BY <2>1, <2>2
<1>3. Over(x, y) = Fraction(a * e, b * c) /\ Times(Over(x, y), z) = Fraction(p * g, q * k)
      /\ Minus(x, Times(Over(x, y), z)) = Fraction(a * s - r * b, b * s)
  BY DEF Over, Times, Minus
<1> HIDE DEF a, b, c, e, g, k
<1>4. p \in Int /\ q \in Nat \ {0} /\ p * (b * c) = (a * e) * q
  <2>1. a * e \in Int /\ b * c \in Nat \ {0}
    BY <1>1, Products
  <2>2. /\ Fraction(a * e, b * c) \in Rational
        /\ Fraction(a * e, b * c)[1] * (b * c) = (a * e) * Fraction(a * e, b * c)[2]
    BY <2>1, FractionValue
  <2>3. Over(x, y) \in Rational /\ p * (b * c) = (a * e) * q
    BY <1>3, <2>2, Zenon
  <2>4. QED
    BY <2>3 DEF Rational
<1> HIDE DEF p, q
<1>5. r \in Int /\ s \in Nat \ {0} /\ r * (q * k) = (p * g) * s
  <2>1. p * g \in Int /\ q * k \in Nat \ {0}
    BY <1>1, <1>4, Products
  <2>2. /\ Fraction(p * g, q * k) \in Rational
        /\ Fraction(p * g, q * k)[1] * (q * k) = (p * g) * Fraction(p * g, q * k)[2]
    BY <2>1, FractionValue
  <2>3. Times(Over(x, y), z) \in Rational /\ r * (q * k) = (p * g) * s
    BY <1>3, <2>2, Zenon
  <2>4. QED
    BY <2>3 DEF Rational
<1> HIDE DEF r, s
<1>6. a * s - r * b >= 0
  BY <1>1, <1>2, <1>4, <1>5, CrossCost
<1>7. a * s - r * b \in Int /\ b * s \in Nat \ {0}
  <2>1. a * s \in Int /\ r * b \in Int /\ b * s \in Nat \ {0}
    BY <1>1, <1>5, Products
  <2>2. QED
    BY <2>1
<1>8. QED
  BY <1>3, <1>6, <1>7, FractionNotNegative

------------------------------------------------------------------------------
(***************************************************************************)
(* What the sells that wait amount to: a fold over them, in money or in    *)
(* shares.                                                                 *)
(***************************************************************************)
Tallies == {"amounts", "quantities"}

Tally(kind, txn) == IF kind = "amounts" THEN txn.amount ELSE txn.quantity

Waits(kind, acc) == Folded(kind, 0, acc.waiting)

LEMMA TallyType ==
  ASSUME NEW kind \in Tallies, NEW txn \in Transaction
  PROVE  /\ Tally(kind, txn) \in Nat
         /\ \A sum : Step(kind, sum, txn) = sum + Tally(kind, txn)
<1>1. Tally(kind, txn) \in Nat
  BY TransactionType DEF Tally
<1>2. ASSUME NEW sum PROVE Step("amounts", sum, txn) = sum + txn.amount
  BY DEF Step
<1>3. ASSUME NEW sum PROVE Step("quantities", sum, txn) = sum + txn.quantity
  BY DEF Step
<1>4. kind = "amounts" \/ (kind = "quantities" /\ kind # "amounts")
  BY DEF Tallies
<1>5. QED
  BY <1>1, <1>2, <1>3, <1>4, Zenon DEF Tally

LEMMA TallyRun ==
  ASSUME NEW kind \in Tallies, NEW seq \in Seq(Transaction), NEW h,
         IsRun(kind, 0, seq, Len(seq), h)
  PROVE  /\ h[0] = 0
         /\ \A k \in 0..Len(seq) : h[k] \in Nat
         /\ \A k \in 1..Len(seq) : h[k] = h[k - 1] + Tally(kind, seq[k])
<1> DEFINE S == {k \in Nat : k <= Len(seq) => h[k] \in Nat}
<1>0. Len(seq) \in Nat /\ \A k \in 1..Len(seq) : seq[k] \in Transaction
  OBVIOUS
<1>1. h[0] = 0
  BY Zenon DEF IsRun
<1>2. \A k \in 1..Len(seq) : h[k] = h[k - 1] + Tally(kind, seq[k])
  <2>1. \A k \in 1..Len(seq) : h[k] = Step(kind, h[k - 1], seq[k])
    BY Zenon DEF IsRun
  <2>2. QED
    BY <1>0, <2>1, TallyType
<1>3. 0 \in S
  BY <1>1
<1>4. ASSUME NEW k \in Nat, k \in S PROVE k + 1 \in S
  <2>1. SUFFICES ASSUME k + 1 <= Len(seq) PROVE h[k + 1] \in Nat
    OBVIOUS
  <2>2. PICK j \in 1..Len(seq) : j = k + 1 /\ j - 1 = k
    BY <1>0, <2>1
  <2>3. h[k] \in Nat /\ h[j] = h[k] + Tally(kind, seq[j])
    BY <1>0, <1>2, <1>4, <2>1, <2>2
  <2>4. Tally(kind, seq[j]) \in Nat
    BY <1>0, TallyType
  <2>5. QED
    BY <2>2, <2>3, <2>4
<1>5. Nat \subseteq S
  <2> HIDE DEF S
  <2>1. QED
    BY <1>3, <1>4, Induction
<1>6. QED
  BY <1>0, <1>1, <1>2, <1>5

LEMMA TallyOfWaiting ==
  ASSUME NEW kind \in Tallies, NEW acc \in Replays
  PROVE  /\ Waits(kind, acc) \in Nat
         /\ acc.waiting = <<>> => Waits(kind, acc) = 0
         /\ \E h : /\ IsRun(kind, 0, acc.waiting, Len(acc.waiting), h)
                   /\ Waits(kind, acc) = h[Len(acc.waiting)]
<1>1. acc.waiting \in Seq(Transaction) /\ Len(acc.waiting) \in Nat
  BY DEF Replays
<1>2. PICK h : /\ IsRun(kind, 0, acc.waiting, Len(acc.waiting), h)
               /\ Folded(kind, 0, acc.waiting) = h[Len(acc.waiting)]
  BY <1>1, FoldedRun
<1>3. Len(acc.waiting) \in 0..Len(acc.waiting)
  BY <1>1
<1>4. h[Len(acc.waiting)] \in Nat
  BY <1>1, <1>2, <1>3, TallyRun
<1>5. Folded(kind, 0, <<>>) = 0
  BY FoldedEmpty
<1>6. QED
  BY <1>2, <1>4, <1>5, Zenon DEF Waits

LEMMA OneMoreWaits ==
  ASSUME NEW kind \in Tallies, NEW acc \in Replays, NEW txn \in Transaction
  PROVE  Waits(kind, [acc EXCEPT !.waiting = Append(@, txn)]) = Waits(kind, acc) + Tally(kind, txn)
<1> DEFINE now == [acc EXCEPT !.waiting = Append(@, txn)]
           front == acc.waiting
           seq == Append(front, txn)
<1>1. now.waiting = seq
  BY WaitFields
<1>2. front \in Seq(Transaction) /\ Len(front) \in Nat
  BY DEF Replays
<1>3. /\ Len(seq) = Len(front) + 1 /\ seq[Len(seq)] = txn
      /\ \A k \in 1..Len(front) : seq[k] = front[k]
  BY <1>2
<1> HIDE DEF now, front, seq
<1>4. Folded(kind, 0, seq) = Step(kind, Folded(kind, 0, front), txn)
  BY <1>2, <1>3, FoldedStep
<1>5. Folded(kind, 0, seq) = Folded(kind, 0, front) + Tally(kind, txn)
  BY <1>4, TallyType
<1>6. QED
  BY <1>1, <1>5, Zenon DEF Waits, now, front

------------------------------------------------------------------------------
(***************************************************************************)
(* The money of the replay: neither shares nor cost are ever negative, no  *)
(* cost is left without shares, and what was paid in or realized balances. *)
(***************************************************************************)
SoundReplay(acc) ==
    /\ acc \in Replays /\ Reduced(acc.qty) /\ Reduced(acc.basis) /\ acc.qty[1] >= 0
    /\ acc.basis[1] >= 0
    /\ acc.qty[1] = 0 => acc.basis = Zero

\* What was paid in, and the proceeds and seeds that were given back.
Balanced(acc, paid, given) == Plus(acc.realized, Whole(paid)) = Plus(acc.basis, Whole(given))

LEMMA AllSharesSold ==
  ASSUME NEW acc, SoundReplay(acc)
  PROVE  /\ CostOf(acc, acc.qty) \in Rational
         /\ Minus(acc.qty, acc.qty) = Zero
         /\ Minus(acc.basis, CostOf(acc, acc.qty)) = Zero
<1>1. acc.qty \in Rational /\ acc.basis \in Rational /\ Reduced(acc.basis) /\ Zero \in Rational
  BY WholesAreReduced DEF SoundReplay, Replays, Reduced, Zero
<1>2. CostOf(acc, acc.qty) = acc.basis
  <2>1. CASE Positive(acc.qty)
    BY <1>1, <2>1, TimesOver DEF CostOf
  <2>2. CASE ~Positive(acc.qty)
    <3>1. acc.qty[1] \in Int
      BY <1>1 DEF Rational
    <3>2. acc.qty[1] = 0
      BY <2>2, <3>1 DEF Positive, SoundReplay
    <3>3. QED
      BY <2>2, <3>2 DEF CostOf, SoundReplay
  <2>3. QED
    BY <2>1, <2>2
<1>3. QED
  BY <1>1, <1>2, MinusIsPlus

LEMMA SoldShares ==
  ASSUME NEW acc, SoundReplay(acc), NEW n \in Nat
  PROVE  LET qty == Smaller(Whole(n), acc.qty)
         IN  /\ qty \in Rational /\ CostOf(acc, qty) \in Rational
             /\ Minus(acc.qty, qty)[1] >= 0 /\ Minus(acc.basis, CostOf(acc, qty))[1] >= 0
             /\ Minus(acc.qty, qty)[1] = 0 => Minus(acc.basis, CostOf(acc, qty)) = Zero
<1> DEFINE x == Whole(n)
           q == acc.qty
           qty == Smaller(x, q)
<1>1. x \in Rational /\ Reduced(x) /\ q \in Rational /\ Reduced(q) /\ acc.basis \in Rational
  <2>1. Whole(n) \in Rational /\ Reduced(Whole(n))
    BY WholesAreReduced DEF Reduced
  <2>2. QED
    BY <2>1 DEF SoundReplay, Replays
<1>2. Zero[1] = 0 /\ Zero \in Rational
  BY WholeOps DEF Zero, Whole
<1>3. CASE qty = q
  BY <1>1, <1>2, <1>3, AllSharesSold
<1>4. CASE qty # q
  <2>1. qty = x /\ ~Below(q, x)
    BY <1>4 DEF Smaller
  <2>2. Below(x, q)
    <3>1. SUFFICES ASSUME ~Below(x, q) PROVE FALSE
      OBVIOUS
    <3>2. x[1] \in Int /\ x[2] \in Int /\ q[1] \in Int /\ q[2] \in Int
      BY <1>1 DEF Rational
    <3>3. x[1] * q[2] \in Int /\ q[1] * x[2] \in Int
      BY <3>2, Products
    <3>4. x[1] * q[2] = q[1] * x[2]
      BY <2>1, <3>1, <3>3 DEF Below
    <3> HIDE DEF x, q, qty
    <3>5. x = q
      BY <1>1, <3>4, ReducedAreEqual
    <3>6. QED
      BY <1>4, <2>1, <3>5
  <2> HIDE DEF x, q
  <2>3. Minus(q, x)[1] > 0
    BY <1>1, <2>2, Signs
  <2>4. CostOf(acc, x) \in Rational
    <3>1. CASE Positive(q)
      <4>1. Over(acc.basis, q) \in Rational
        BY <1>1, <3>1, RationalOps
      <4>2. Times(Over(acc.basis, q), x) \in Rational
        BY <1>1, <4>1, RationalOps
      <4>3. QED
        BY <3>1, <4>2 DEF CostOf, q
    <3>2. CASE ~Positive(q)
      BY <1>2, <3>2 DEF CostOf, q
    <3>3. QED
      BY <3>1, <3>2
  <2>5. q \in Rational /\ x \in Rational /\ Minus(q, x)[1] \in Int
    <3>1. Minus(q, x) \in Rational
      BY <1>1, RationalOps
    <3>2. QED
      BY <1>1, <3>1 DEF Rational
  <2>6. Minus(q, x)[1] >= 0 /\ Minus(q, x)[1] # 0
    BY <2>3, <2>5
  <2>9. Minus(acc.basis, CostOf(acc, x))[1] >= 0
    <3>1. CASE Positive(q)
      <4>1. CostOf(acc, x) = Times(Over(acc.basis, q), x)
        BY <3>1 DEF CostOf, q
      <4>2. x[1] >= 0 /\ acc.basis[1] >= 0
        BY DEF x, Whole, SoundReplay
      <4>3. QED
        BY <1>1, <2>1, <3>1, <4>1, <4>2, CostOfPart
    <3>2. CASE ~Positive(q)
      <4>1. CostOf(acc, x) = Zero
        BY <3>2 DEF CostOf, q
      <4>2. acc.basis = Zero
        <5>1. acc.qty[1] \in Int /\ ~(acc.qty[1] > 0) /\ acc.qty[1] >= 0
          BY <1>1, <3>2 DEF q, Positive, Rational, SoundReplay
        <5>2. QED
          BY <5>1 DEF SoundReplay
      <4>3. QED
        BY <1>2, <4>1, <4>2, MinusIsPlus
    <3>3. QED
      BY <3>1, <3>2
  <2> HIDE DEF qty
  <2>7. /\ qty \in Rational /\ CostOf(acc, qty) \in Rational
        /\ Minus(q, qty)[1] >= 0 /\ Minus(q, qty)[1] # 0
        /\ Minus(acc.basis, CostOf(acc, qty))[1] >= 0
    BY <2>1, <2>4, <2>5, <2>6, <2>9
  <2>8. QED
    BY <2>7, Zenon DEF q, x, qty
<1>5. QED
  BY <1>3, <1>4

LEMMA SellIsSound ==
  ASSUME NEW acc, SoundReplay(acc), NEW txn \in Transaction, NEW paid \in Int, NEW given \in Int,
         Balanced(acc, paid, given)
  PROVE  SoundReplay(Sell(acc, txn)) /\ Balanced(Sell(acc, txn), paid, given + txn.amount)
<1> DEFINE qty == Smaller(Whole(txn.quantity), acc.qty)
           cost == CostOf(acc, qty)
           now == Sell(acc, txn)
<1>1. /\ now \in Replays /\ now.qty = Minus(acc.qty, qty) /\ now.basis = Minus(acc.basis, cost)
      /\ now.realized = Plus(acc.realized, Minus(Whole(txn.amount), cost))
  BY SellFields DEF SoundReplay
<1>2. /\ qty \in Rational /\ cost \in Rational
      /\ Minus(acc.qty, qty)[1] >= 0 /\ Minus(acc.basis, cost)[1] >= 0
      /\ Minus(acc.qty, qty)[1] = 0 => Minus(acc.basis, cost) = Zero
  BY TransactionType, SoldShares
<1>3. acc.qty \in Rational /\ acc.basis \in Rational /\ acc.realized \in Rational
  BY DEF SoundReplay, Replays
<1> HIDE DEF qty, cost, now
<1>4. SoundReplay(now)
  BY <1>1, <1>2, <1>3, ResultsAreReduced DEF SoundReplay
<1> DEFINE r == acc.realized
           y == acc.basis
           o == Opposite(cost)
           a == Whole(txn.amount)
           b == Whole(paid)
           g == Whole(given)
<1>5. r \in Rational /\ y \in Rational /\ o \in Rational /\ a \in Rational /\ b \in Rational /\ g \in Rational
  <2>1. o \in Rational
    BY <1>2, MinusIsPlus
  <2>2. QED
    BY <1>3, <2>1, TransactionType, WholeOps
<1>6. now.realized = Plus(r, Plus(a, o)) /\ now.basis = Plus(y, o)
  <2>1. Minus(a, cost) = Plus(a, o) /\ Minus(y, cost) = Plus(y, o)
    <3> HIDE DEF a, y
    <3>1. QED
      BY <1>2, <1>5, MinusIsPlus
  <2>2. now.realized = Plus(r, Minus(a, cost)) /\ now.basis = Minus(y, cost)
    BY <1>1
  <2>3. QED
    BY <2>1, <2>2, Zenon
<1>7. Plus(g, a) = Whole(given + txn.amount)
  <2>1. txn.amount \in Int
    BY TransactionType
  <2>2. QED
    BY <2>1, WholeOps
<1>8. Plus(r, b) = Plus(y, g)
  BY DEF Balanced
<1> HIDE DEF r, y, o, a, b, g
<1>9. Plus(a, o) \in Rational /\ Plus(a, o) = Plus(o, a)
  BY <1>5, RationalOps, PlusCommutes
<1>10. Plus(Plus(r, Plus(a, o)), b) = Plus(Plus(r, b), Plus(a, o))
  BY <1>5, <1>9, PlusExchanges
<1>11. Plus(Plus(y, g), Plus(o, a)) = Plus(Plus(y, o), Plus(g, a))
  BY <1>5, PlusExchanges
<1>12. Plus(now.realized, b) = Plus(now.basis, Whole(given + txn.amount))
  BY <1>6, <1>7, <1>8, <1>9, <1>10, <1>11
<1>13. QED
  BY <1>4, <1>12 DEF Balanced, b, now

LEMMA AcquireIsSound ==
  ASSUME NEW acc, SoundReplay(acc), NEW txn \in Transaction, NEW paid \in Int, NEW given \in Int,
         Balanced(acc, paid, given)
  PROVE  /\ SoundReplay(Acquire(acc, txn))
         /\ Balanced(Acquire(acc, txn), paid + (IF txn.quantity > 0 THEN txn.amount ELSE 0), given)
<1> DEFINE now == Acquire(acc, txn)
<1>1. /\ txn.quantity \in Nat /\ txn.amount \in Nat
      /\ Whole(txn.quantity) \in Rational /\ Whole(txn.amount) \in Rational
  BY TransactionType
<1>2. /\ now \in Replays
      /\ now.qty = IF txn.quantity > 0 THEN Plus(acc.qty, Whole(txn.quantity)) ELSE acc.qty
      /\ now.basis = IF txn.quantity > 0 THEN Plus(acc.basis, Whole(txn.amount)) ELSE acc.basis
      /\ now.realized = acc.realized
  BY AcquireFields DEF SoundReplay
<1>3. acc.qty \in Rational /\ acc.basis \in Rational /\ acc.realized \in Rational
  BY DEF SoundReplay, Replays
<1> HIDE DEF now
<1>4. CASE ~(txn.quantity > 0)
  <2>1. now.qty = acc.qty /\ now.basis = acc.basis /\ paid + 0 = paid
    BY <1>2, <1>4
  <2>2. SoundReplay(now)
    BY <1>2, <2>1 DEF SoundReplay
  <2>3. Balanced(now, paid, given)
    BY <1>2, <2>1 DEF Balanced
  <2>4. QED
    BY <1>4, <2>1, <2>2, <2>3 DEF now
<1>5. CASE txn.quantity > 0
  <2> DEFINE q == Whole(txn.quantity)
             a == Whole(txn.amount)
             b == Whole(paid)
             g == Whole(given)
             r == acc.realized
             y == acc.basis
  <2>1. now.qty = Plus(acc.qty, q) /\ now.basis = Plus(y, a) /\ now.realized = r
    BY <1>2, <1>5
  <2>2. /\ q \in Rational /\ a \in Rational /\ r \in Rational /\ y \in Rational
    BY <1>1, <1>3
  <2>3. b \in Rational /\ g \in Rational
    BY WholeOps
  <2>4. q[1] > 0
    BY <1>1, <1>5 DEF Whole
  <2>5. Plus(b, a) = Whole(paid + txn.amount)
    <3>1. txn.amount \in Int
      BY <1>1
    <3>2. QED
      BY <3>1, WholeOps
  <2>6. Plus(r, b) = Plus(y, g)
    BY DEF Balanced
  <2> HIDE DEF q, a, b, g, r, y
  <2>7. /\ Plus(acc.qty, q)[1] > 0 /\ Plus(acc.qty, q) \in Rational
        /\ Reduced(Plus(acc.qty, q)) /\ Reduced(Plus(y, a)) /\ Plus(y, a)[1] >= 0
    <3>1. acc.qty[1] >= 0 /\ y[1] >= 0 /\ a[1] >= 0
      BY <1>1 DEF y, a, SoundReplay, Whole
    <3>2. QED
      BY <1>3, <2>2, <2>4, <3>1, Signs, NotNegative, ResultsAreReduced, RationalOps
  <2>8. SoundReplay(now)
    <3>1. Plus(acc.qty, q)[1] \in Int
      BY <2>7 DEF Rational
    <3>2. now.qty[1] >= 0 /\ now.qty[1] # 0
      BY <2>1, <2>7, <3>1
    <3>3. QED
      BY <1>2, <2>1, <2>7, <3>2 DEF SoundReplay
  <2>9. Plus(r, Plus(b, a)) = Plus(Plus(y, a), g)
    <3>1. Plus(r, Plus(b, a)) = Plus(Plus(r, b), a)
      BY <2>2, <2>3, PlusAssociates
    <3>2. Plus(Plus(y, g), a) = Plus(Plus(y, a), g)
      BY <2>2, <2>3, PlusExchanges
    <3>3. QED
      BY <2>6, <3>1, <3>2
  <2>10. Balanced(now, paid + txn.amount, given)
    BY <2>1, <2>5, <2>9 DEF Balanced, g
  <2>11. QED
    BY <1>5, <2>8, <2>10 DEF now
<1>6. QED
  BY <1>4, <1>5

\* What an event pays in, and what it gives back when it is booked.
Paid(txn) == IF txn.type \in {"opening", "buy"} /\ txn.quantity > 0 THEN txn.amount ELSE 0

Given(txn) ==
    CASE txn.type = "opening" -> txn.seed
      [] txn.type = "sell"    -> txn.amount
      [] OTHER                -> 0

LEMMA PaidAndGiven ==
  ASSUME NEW txn \in Transaction
  PROVE  Paid(txn) \in Nat /\ Given(txn) \in Int
<1>1. txn.amount \in Nat /\ txn.seed \in Int
  BY TransactionType
<1>2. QED
  BY <1>1 DEF Paid, Given

LEMMA EffectIsSound ==
  ASSUME NEW acc, SoundReplay(acc), NEW txn \in Transaction, NEW paid \in Int, NEW given \in Int,
         Balanced(acc, paid, given)
  PROVE  /\ SoundReplay(Effect(acc, txn))
         /\ Balanced(Effect(acc, txn), paid + Paid(txn), given + Given(txn))
<1> DEFINE now == Effect(acc, txn)
<1>0. /\ acc \in Replays /\ acc.qty \in Rational /\ acc.basis \in Rational
      /\ acc.realized \in Rational /\ now \in Replays
  BY EffectFields DEF SoundReplay, Replays
<1>t. /\ txn.type \in TxnType /\ txn.quantity \in Nat /\ txn.amount \in Nat /\ txn.seed \in Int
      /\ txn.ratio \in Rational /\ paid + 0 = paid /\ given + 0 = given
  BY TransactionType
<1>1. CASE txn.type = "opening"
  <2> DEFINE held == Acquire(acc, txn)
             bought == paid + Paid(txn)
             r == held.realized
             s == Whole(txn.seed)
             b == Whole(bought)
             g == Whole(given)
  <2>1. SoundReplay(held) /\ Balanced(held, bought, given)
    <3>1. Paid(txn) = IF txn.quantity > 0 THEN txn.amount ELSE 0
      BY <1>1 DEF Paid
    <3>2. QED
      BY <3>1, AcquireIsSound
  <2>2. /\ now.qty = held.qty /\ now.basis = held.basis /\ now.realized = Plus(r, s)
    BY <1>0, <1>1, OpeningEffect, AcquireFields
  <2>3. SoundReplay(now)
    BY <1>0, <2>1, <2>2 DEF SoundReplay
  <2>4. bought \in Int
    BY <1>t, PaidAndGiven
  <2>5. /\ b \in Rational /\ g \in Rational /\ s \in Rational /\ Plus(g, s) = Whole(given + txn.seed)
    <3> HIDE DEF bought
    <3>1. QED
      BY <1>t, <2>4, WholeOps
  <2>6. r \in Rational /\ held.basis \in Rational
    BY <2>1 DEF SoundReplay, Replays
  <2>7. Plus(r, b) = Plus(held.basis, g)
    BY <2>1 DEF Balanced
  <2> HIDE DEF held, bought, r, s, b, g
  <2>8. Plus(Plus(r, s), b) = Plus(Plus(r, b), s)
    BY <2>5, <2>6, PlusExchanges
  <2>9. Plus(Plus(held.basis, g), s) = Plus(held.basis, Plus(g, s))
    BY <2>5, <2>6, PlusAssociates
  <2>10. Given(txn) = txn.seed
    BY <1>1 DEF Given
  <2>11. Plus(now.realized, b) = Plus(now.basis, Whole(given + txn.seed))
    <3>1. Plus(now.realized, b) = Plus(Plus(r, s), b)
      BY <2>2
    <3>2. Plus(now.basis, Whole(given + txn.seed)) = Plus(held.basis, Plus(g, s))
      BY <2>2, <2>5
    <3>3. QED
      BY <2>7, <2>8, <2>9, <3>1, <3>2
  <2>12. Balanced(now, bought, given + Given(txn))
    BY <2>10, <2>11 DEF Balanced, b
  <2>13. QED
    BY <2>3, <2>12 DEF bought
<1>2. CASE txn.type = "buy"
  <2>1. Paid(txn) = IF txn.quantity > 0 THEN txn.amount ELSE 0
    BY <1>2 DEF Paid
  <2>2. Given(txn) = 0 /\ now = Acquire(acc, txn)
    BY <1>2 DEF Given, Effect
  <2>3. /\ SoundReplay(Acquire(acc, txn))
        /\ Balanced(Acquire(acc, txn), paid + Paid(txn), given)
    BY <2>1, AcquireIsSound
  <2>4. QED
    BY <1>t, <2>2, <2>3
<1>3. CASE txn.type = "sell"
  <2>1. Paid(txn) = 0 /\ Given(txn) = txn.amount /\ now = Sell(acc, txn)
    BY <1>3 DEF Paid, Given, Effect
  <2>2. SoundReplay(Sell(acc, txn)) /\ Balanced(Sell(acc, txn), paid, given + txn.amount)
    BY SellIsSound
  <2>3. QED
    BY <1>t, <2>1, <2>2
<1>4. CASE txn.type \in {"split", "bonus"}
  <2>1. Paid(txn) = 0 /\ Given(txn) = 0
    BY <1>4 DEF Paid, Given
  <2>2. now = IF Positive(txn.ratio) THEN [acc EXCEPT !.qty = Times(acc.qty, txn.ratio)] ELSE acc
    BY <1>4 DEF Effect
  <2>3. CASE ~Positive(txn.ratio)
    BY <1>t, <2>1, <2>2, <2>3
  <2>4. CASE Positive(txn.ratio)
    <3>1. now.qty = Times(acc.qty, txn.ratio) /\ now.basis = acc.basis /\ now.realized = acc.realized
      BY <1>0, <2>2, <2>4 DEF Replays
    <3>2. acc.qty[1] \in Int /\ acc.qty[1] >= 0 /\ Zero[1] = 0
      BY <1>0 DEF SoundReplay, Rational, Zero, Whole
    <3>3. acc.qty[1] = 0 => Times(acc.qty, txn.ratio) = Zero
      BY <1>0, <1>t, Signs
    <3>4. acc.qty[1] > 0 => Times(acc.qty, txn.ratio)[1] > 0
      BY <1>0, <1>t, <2>4, Signs DEF Positive
    <3>5. Reduced(Times(acc.qty, txn.ratio)) /\ Times(acc.qty, txn.ratio) \in Rational
      BY <1>0, <1>t, ResultsAreReduced, RationalOps
    <3> HIDE DEF now
    <3>6. SoundReplay(now)
      <4>1. CASE acc.qty[1] = 0
        BY <1>0, <3>1, <3>2, <3>3, <3>5, <4>1 DEF SoundReplay
      <4>2. CASE acc.qty[1] # 0
        <5>1. Times(acc.qty, txn.ratio)[1] \in Int
          BY <3>5 DEF Rational
        <5>2. now.qty[1] >= 0 /\ now.qty[1] # 0
          BY <3>1, <3>2, <3>4, <4>2, <5>1
        <5>3. QED
          BY <1>0, <3>1, <3>5, <5>2 DEF SoundReplay
      <4>3. QED
        BY <4>1, <4>2
    <3>7. Balanced(now, paid, given)
      BY <3>1 DEF Balanced
    <3>8. QED
      BY <1>t, <2>1, <3>6, <3>7 DEF now
  <2>5. QED
    BY <2>3, <2>4
<1>5. CASE txn.type \in {"dividend", "merger"}
  <2>1. Paid(txn) = 0 /\ Given(txn) = 0
    BY <1>5 DEF Paid, Given
  <2>2. now = IF txn.type = "dividend"
              THEN [acc EXCEPT !.dividends = Plus(acc.dividends, Whole(txn.amount))] ELSE acc
    BY <1>5 DEF Effect
  <2>3. now.qty = acc.qty /\ now.basis = acc.basis /\ now.realized = acc.realized
    BY <1>0, <2>2 DEF Replays
  <2> HIDE DEF now
  <2>4. SoundReplay(now) /\ Balanced(now, paid, given)
    BY <1>0, <2>3 DEF SoundReplay, Balanced
  <2>5. QED
    BY <1>t, <2>1, <2>4 DEF now
<1>6. QED
  BY <1>t, <1>1, <1>2, <1>3, <1>4, <1>5 DEF TxnType

\* The balance while sells wait: they have not given their proceeds back yet.
InBalance(acc, paid, given) == SoundReplay(acc) /\ Balanced(acc, paid, given - Waits("amounts", acc))

LEMMA BalanceWithWaiting ==
  ASSUME NEW acc, NEW paid, NEW given, NEW w, NEW rest,
         Waits("amounts", acc) = w, given - w = rest, SoundReplay(acc), Balanced(acc, paid, rest)
  PROVE  InBalance(acc, paid, given)
<1>1. given - Waits("amounts", acc) = rest
  BY Zenon
<1>2. QED
  BY <1>1, Zenon DEF InBalance

LEMMA SettleOneInBalance ==
  ASSUME NEW acc, NEW txn \in Transaction, NEW endOfDay \in BOOLEAN, NEW paid \in Int,
         NEW given \in Int, InBalance(acc, paid, given)
  PROVE  InBalance(SettleOne(endOfDay, acc, txn), paid, given + txn.amount)
<1> DEFINE w == Waits("amounts", acc)
<1>1. acc \in Replays /\ SoundReplay(acc) /\ Balanced(acc, paid, given - w)
  BY DEF InBalance, SoundReplay
<1>2. "amounts" \in Tallies /\ Tally("amounts", txn) = txn.amount
  BY DEF Tallies, Tally
<1>3. w \in Nat /\ txn.amount \in Nat
  BY <1>1, <1>2, TallyOfWaiting, TransactionType
<1>4. CASE endOfDay \/ (acc.waiting = <<>> /\ Covered(acc, txn))
  <2>1. SettleOne(endOfDay, acc, txn) = Sell(acc, txn)
    BY <1>4 DEF SettleOne
  <2>2. Sell(acc, txn).waiting = acc.waiting
    BY <1>1, SellFields
  <2>3. Waits("amounts", Sell(acc, txn)) = w
    BY <2>2, Zenon DEF Waits
  <2> HIDE DEF w
  <2>4. given - w \in Int /\ given - w + txn.amount = (given + txn.amount) - w
    BY <1>3
  <2>5. SoundReplay(Sell(acc, txn)) /\ Balanced(Sell(acc, txn), paid, given - w + txn.amount)
    BY <1>1, <2>4, SellIsSound
  <2>6. InBalance(Sell(acc, txn), paid, given + txn.amount)
    BY <2>4, <2>5, <2>3, BalanceWithWaiting
  <2>7. QED
    BY <2>1, <2>6
<1>5. CASE ~(endOfDay \/ (acc.waiting = <<>> /\ Covered(acc, txn)))
  <2> DEFINE now == [acc EXCEPT !.waiting = Append(@, txn)]
  <2>1. SettleOne(endOfDay, acc, txn) = now
    BY <1>5 DEF SettleOne
  <2>2. /\ now \in Replays /\ now.qty = acc.qty /\ now.basis = acc.basis
        /\ now.realized = acc.realized
    BY <1>1, WaitFields
  <2>3. Waits("amounts", now) = w + txn.amount
    BY <1>1, <1>2, OneMoreWaits
  <2> HIDE DEF now, w
  <2>4. SoundReplay(now) /\ Balanced(now, paid, given - w)
    BY <1>1, <2>2 DEF SoundReplay, Balanced
  <2>5. (given + txn.amount) - (w + txn.amount) = given - w
    BY <1>3
  <2>6. InBalance(now, paid, given + txn.amount)
    BY <2>5, <2>4, <2>3, BalanceWithWaiting
  <2>7. QED
    BY <2>1, <2>6
<1>6. QED
  BY <1>4, <1>5

LEMMA SettleInBalance ==
  ASSUME NEW acc, NEW endOfDay \in BOOLEAN, NEW paid \in Int, NEW given \in Int,
         InBalance(acc, paid, given)
  PROVE  InBalance(Settle(acc, endOfDay), paid, given)
<1> DEFINE base == [acc EXCEPT !.waiting = <<>>]
           seq == acc.waiting
           w == Waits("amounts", acc)
           start == given - w
<1>0. acc \in Replays
  BY DEF InBalance, SoundReplay
<1>1. seq \in Seq(Transaction) /\ Len(seq) \in Nat /\ DOMAIN seq = 1..Len(seq)
  BY <1>0 DEF Replays
<1>2. /\ base \in Replays /\ base.waiting = <<>> /\ base.qty = acc.qty /\ base.basis = acc.basis
      /\ base.realized = acc.realized
  BY <1>0, WithoutWaiting
<1>3. Settle(acc, endOfDay) = Folded(SettleKind(endOfDay), base, seq)
  BY <1>1, SettleIsARun
<1>4. "amounts" \in Tallies /\ \A txn : Tally("amounts", txn) = txn.amount
  BY DEF Tallies, Tally
<1>5. PICK h : IsRun("amounts", 0, seq, Len(seq), h) /\ w = h[Len(seq)]
  BY <1>0, <1>4, TallyOfWaiting
<1>6. w \in Nat /\ Waits("amounts", base) = 0
  BY <1>0, <1>2, <1>4, TallyOfWaiting
<1>7. InBalance(base, paid, start)
  <2>1. start - 0 = start
    BY <1>6
  <2>2. SoundReplay(acc) /\ Balanced(acc, paid, start)
    BY DEF InBalance
  <2> HIDE DEF base, start
  <2>3. SoundReplay(base) /\ Balanced(base, paid, start)
    BY <1>2, <2>2 DEF SoundReplay, Balanced
  <2>4. QED
    BY <1>6, <2>1, <2>3 DEF InBalance
<1> HIDE DEF base, seq, w
<1>8. /\ h[0] = 0 /\ \A k \in 0..Len(seq) : h[k] \in Nat
      /\ \A k \in 1..Len(seq) : h[k] = h[k - 1] + seq[k].amount
  BY <1>1, <1>4, <1>5, TallyRun
<1>9. PICK f : /\ IsRun(SettleKind(endOfDay), base, seq, Len(seq), f)
               /\ Folded(SettleKind(endOfDay), base, seq) = f[Len(seq)]
  BY <1>1, FoldedRun
<1>10. start \in Int /\ start + h[Len(seq)] = given
  BY <1>5, <1>6
<1> HIDE DEF start
<1> DEFINE S == {k \in Nat : k <= Len(seq) => InBalance(f[k], paid, start + h[k])}
<1>11. 0 \in S
  <2>1. f[0] = base
    BY <1>9, Zenon DEF IsRun
  <2>2. start + h[0] = start
    BY <1>8, <1>10
  <2>3. QED
    BY <1>7, <2>1, <2>2
<1>12. ASSUME NEW k \in Nat, k \in S PROVE k + 1 \in S
  <2>1. SUFFICES ASSUME k + 1 <= Len(seq) PROVE InBalance(f[k + 1], paid, start + h[k + 1])
    OBVIOUS
  <2>2. PICK j \in 1..Len(seq) : j = k + 1 /\ j - 1 = k
    BY <1>1, <2>1
  <2>3. f[j] = Step(SettleKind(endOfDay), f[j - 1], seq[j])
    BY <1>9, Zenon DEF IsRun
  <2>4. f[j] = SettleOne(endOfDay, f[k], seq[j])
    BY <2>2, <2>3, StepOfSettle
  <2>5. seq[j] \in Transaction /\ seq[j].amount \in Nat
    BY <1>1, TransactionType
  <2>6. InBalance(f[k], paid, start + h[k]) /\ h[k] \in Nat
    BY <1>1, <1>8, <1>12, <2>1
  <2>7. start + h[k] \in Int /\ start + h[k] + seq[j].amount = start + h[j]
    <3>1. h[j] = h[k] + seq[j].amount
      BY <1>8, <2>2
    <3>2. QED
      BY <1>10, <2>5, <2>6, <3>1
  <2>8. InBalance(SettleOne(endOfDay, f[k], seq[j]), paid, start + h[k] + seq[j].amount)
    BY <2>5, <2>6, <2>7, SettleOneInBalance
  <2>9. QED
    BY <2>2, <2>4, <2>7, <2>8
<1>13. Len(seq) \in S
  <2> HIDE DEF S
  <2>1. QED
    BY <1>1, <1>11, <1>12, Induction
<1>14. InBalance(f[Len(seq)], paid, start + h[Len(seq)])
  BY <1>1, <1>13
<1>15. QED
  BY <1>3, <1>9, <1>10, <1>14

LEMMA EventInBalance ==
  ASSUME NEW acc, NEW txn \in Transaction, NEW paid \in Int, NEW given \in Int,
         InBalance(acc, paid, given)
  PROVE  InBalance(ReplayEvent(acc, txn), paid + Paid(txn), given + Given(txn))
<1> DEFINE day == DayOf(txn.date)
           end == IF day # acc.day THEN Settle(acc, TRUE) ELSE acc
           now == NewDay(acc, day)
           w == Waits("amounts", now)
<1>0. /\ acc \in Replays /\ day \in Int
      /\ txn.amount \in Nat /\ Paid(txn) \in Int /\ Given(txn) \in Int
  BY TransactionType, PaidAndGiven DEF InBalance, SoundReplay
<1>1. InBalance(end, paid, given) /\ end \in Replays
  <2>1. InBalance(end, paid, given)
    BY SettleInBalance
  <2>2. QED
    BY <2>1 DEF InBalance, SoundReplay
<1>2. now = [end EXCEPT !.day = day]
  BY DEF NewDay
<1> HIDE DEF end
<1>3. /\ now \in Replays /\ now.qty = end.qty /\ now.basis = end.basis
      /\ now.realized = end.realized /\ now.waiting = end.waiting
  BY <1>0, <1>1, <1>2 DEF Replays
<1> HIDE DEF now
<1>4. InBalance(now, paid, given)
  <2>1. Waits("amounts", now) = Waits("amounts", end)
    BY <1>3, Zenon DEF Waits
  <2>2. QED
    BY <1>1, <1>3, <2>1 DEF InBalance, SoundReplay, Balanced
<1>5. ReplayEvent(acc, txn) = Meet(now, txn)
  BY DEF ReplayEvent, now
<1>6. "amounts" \in Tallies /\ Tally("amounts", txn) = txn.amount
  BY DEF Tallies, Tally
<1>7. w \in Nat
  BY <1>3, <1>6, TallyOfWaiting
<1>8. CASE txn.type = "sell" /\ ~Covered(now, txn)
  <2>1. Meet(now, txn) = [now EXCEPT !.waiting = Append(@, txn)]
    BY <1>8 DEF Meet
  <2>2. Paid(txn) = 0 /\ Given(txn) = txn.amount /\ paid + 0 = paid
    BY <1>8 DEF Paid, Given
  <2> DEFINE then == [now EXCEPT !.waiting = Append(@, txn)]
  <2>3. /\ then \in Replays /\ then.qty = now.qty /\ then.basis = now.basis
        /\ then.realized = now.realized
    BY <1>3, WaitFields
  <2>4. Waits("amounts", then) = w + txn.amount
    BY <1>3, <1>6, OneMoreWaits
  <2> HIDE DEF then, w
  <2>5. (given + txn.amount) - (w + txn.amount) = given - w
    BY <1>0, <1>7
  <2>6. SoundReplay(now) /\ Balanced(now, paid, given - w)
    BY <1>4 DEF InBalance, w
  <2>7. SoundReplay(then) /\ Balanced(then, paid, given - w)
    BY <2>3, <2>6 DEF SoundReplay, Balanced
  <2>8. InBalance(then, paid, given + txn.amount)
    BY <2>5, <2>7, <2>4, BalanceWithWaiting
  <2>9. QED
    BY <1>5, <2>1, <2>2, <2>8 DEF then
<1>9. CASE ~(txn.type = "sell" /\ ~Covered(now, txn))
  <2> DEFINE then == Effect(now, txn)
  <2>1. Meet(now, txn) = Settle(then, FALSE)
    BY <1>9 DEF Meet
  <2>2. then.waiting = now.waiting
    BY <1>3, EffectFields
  <2>3. Waits("amounts", then) = w
    BY <2>2, Zenon DEF Waits
  <2> HIDE DEF w
  <2>4. SoundReplay(now) /\ Balanced(now, paid, given - w) /\ given - w \in Int
    BY <1>4, <1>7 DEF InBalance, w
  <2>5. SoundReplay(then) /\ Balanced(then, paid + Paid(txn), given - w + Given(txn))
    BY <2>4, EffectIsSound
  <2> HIDE DEF then
  <2>6. given - w + Given(txn) = (given + Given(txn)) - w
    BY <1>0, <1>7
  <2>7. InBalance(then, paid + Paid(txn), given + Given(txn))
    BY <2>6, <2>5, <2>3, BalanceWithWaiting
  <2>8. paid + Paid(txn) \in Int /\ given + Given(txn) \in Int
    BY <1>0
  <2>9. InBalance(Settle(then, FALSE), paid + Paid(txn), given + Given(txn))
    BY <2>7, <2>8, SettleInBalance
  <2>10. QED
    BY <1>5, <2>1, <2>9
<1>10. QED
  BY <1>8, <1>9

\* Events that count for nothing may be left out of a sum.
LEMMA SumOverPart ==
  ASSUME NEW v, NEW w, NEW ids, IsFiniteSet(ids), NEW part \in SUBSET ids,
         \A i \in part : v[i] \in Int /\ w[i] = v[i],
         \A i \in ids \ part : w[i] = 0
  PROVE  SumOver(w, ids) = SumOver(v, part)
<1> DEFINE Fits(t) == SumOver(w, t) = SumOver(v, t \cap part)
           S == {n \in Nat : \A t \in SUBSET ids : Cardinality(t) = n => Fits(t)}
<1>a. \A t \in SUBSET ids : IsFiniteSet(t) /\ Cardinality(t) \in Nat
  BY FS_Subset, FS_CardinalityType, Zenon
<1>1. 0 \in S
  <2>1. \A t \in SUBSET ids : Cardinality(t) = 0 => t = {}
    BY <1>a, FS_EmptySet, Zenon
  <2>2. Fits({})
    <3>1. {} \cap part = {}
      OBVIOUS
    <3>2. QED
      BY <3>1, EmptySum, Zenon
  <2> HIDE DEF Fits
  <2>3. QED
    BY <2>1, <2>2, Zenon
<1>2. ASSUME NEW n \in Nat, n \in S PROVE n + 1 \in S
  <2>1. ASSUME NEW t \in SUBSET ids, Cardinality(t) = n + 1 PROVE Fits(t)
    <3> DEFINE p == Pick(t)
               rest == t \ {p}
               held == rest \cap part
    <3>1. t # {}
      BY <2>1, FS_EmptySet
    <3>2. p \in t /\ Cardinality(rest) = Cardinality(t) - 1
      BY <1>a, <3>1, PickedIsRemoved, Zenon
    <3>3. SumOver(w, t) = w[p] + SumOver(w, rest)
      BY <1>a, <3>1, PickedSum, Zenon
    <3> HIDE DEF p
    <3>4. SumOver(w, rest) = SumOver(v, held)
      <4>1. rest \in SUBSET ids /\ Cardinality(rest) = n
        BY <2>1, <3>2
      <4> HIDE DEF rest
      <4>2. QED
        BY <1>2, <4>1
    <3>5. IsFiniteSet(held) /\ p \notin held /\ held \subseteq part
      BY <1>a
    <3>6. SumOver(v, held) \in Int
      <4>1. \A i \in held : v[i] \in Int
        BY <3>5
      <4>2. QED
        BY <3>5, <4>1, SumType, Zenon
    <3>7. CASE p \in part
      <4>1. t \cap part = held \cup {p} /\ w[p] = v[p]
        BY <3>2, <3>7
      <4>2. \A i \in held \cup {p} : v[i] \in Int
        BY <3>5, <3>7
      <4> HIDE DEF held
      <4>3. SumOver(v, held \cup {p}) = v[p] + SumOver(v, held)
        BY <3>5, <4>2, SumWithOneMore
      <4>4. QED
        BY <3>3, <3>4, <4>1, <4>3, Zenon
    <3>8. CASE p \notin part
      <4>1. t \cap part = held /\ w[p] = 0
        BY <3>2, <3>8
      <4> HIDE DEF held, rest
      <4>2. 0 + SumOver(v, held) = SumOver(v, held)
        BY <3>6
      <4>3. QED
        BY <3>3, <3>4, <4>1, <4>2, Zenon
    <3>9. QED
      BY <3>7, <3>8
  <2> HIDE DEF Fits
  <2>2. n + 1 \in Nat
    OBVIOUS
  <2>3. QED
    BY <2>1, <2>2, Zenon
<1>3. Cardinality(ids) \in S
  <2>1. Cardinality(ids) \in Nat
    BY <1>a
  <2> HIDE DEF S
  <2>2. QED
    BY <1>1, <1>2, <2>1, Induction
<1>4. ids \cap part = part /\ ids \in SUBSET ids
  OBVIOUS
<1>5. Fits(ids)
  BY <1>3, <1>4, Zenon
<1>6. QED
  BY <1>4, <1>5, Zenon

LEMMA SumOfTwo ==
  ASSUME NEW u, NEW v, NEW w, NEW ids, IsFiniteSet(ids),
         \A i \in ids : u[i] \in Int /\ v[i] \in Int /\ w[i] = u[i] + v[i]
  PROVE  SumOver(w, ids) = SumOver(u, ids) + SumOver(v, ids)
<1> DEFINE Fits(t) == SumOver(w, t) = SumOver(u, t) + SumOver(v, t)
           S == {n \in Nat : \A t \in SUBSET ids : Cardinality(t) = n => Fits(t)}
<1>a. \A t \in SUBSET ids : IsFiniteSet(t) /\ Cardinality(t) \in Nat
  BY FS_Subset, FS_CardinalityType, Zenon
<1>1. 0 \in S
  <2>1. \A t \in SUBSET ids : Cardinality(t) = 0 => t = {}
    BY <1>a, FS_EmptySet, Zenon
  <2>2. Fits({})
    <3>1. SumOver(w, {}) = 0 /\ SumOver(u, {}) = 0 /\ SumOver(v, {}) = 0 /\ 0 = 0 + 0
      BY EmptySum
    <3>2. QED
      BY <3>1, Zenon
  <2> HIDE DEF Fits
  <2>3. QED
    BY <2>1, <2>2, Zenon
<1>2. ASSUME NEW n \in Nat, n \in S PROVE n + 1 \in S
  <2>1. ASSUME NEW t \in SUBSET ids, Cardinality(t) = n + 1 PROVE Fits(t)
    <3> DEFINE p == Pick(t)
               rest == t \ {p}
    <3>1. t # {}
      BY <2>1, FS_EmptySet
    <3>2. p \in t /\ Cardinality(rest) = Cardinality(t) - 1
      BY <1>a, <3>1, PickedIsRemoved, Zenon
    <3>3. /\ SumOver(w, t) = w[p] + SumOver(w, rest)
          /\ SumOver(u, t) = u[p] + SumOver(u, rest)
          /\ SumOver(v, t) = v[p] + SumOver(v, rest)
      BY <1>a, <3>1, PickedSum, Zenon
    <3> HIDE DEF p
    <3>4. rest \in SUBSET ids /\ Cardinality(rest) = n
      BY <2>1, <3>2
    <3>5. SumOver(u, rest) \in Int /\ SumOver(v, rest) \in Int
      <4>1. IsFiniteSet(rest) /\ \A i \in rest : u[i] \in Int /\ v[i] \in Int
        BY <1>a, <3>4
      <4>2. QED
        BY <4>1, SumType, Zenon
    <3> HIDE DEF rest
    <3>6. SumOver(w, rest) = SumOver(u, rest) + SumOver(v, rest)
      BY <1>2, <3>4
    <3>7. u[p] \in Int /\ v[p] \in Int /\ w[p] = u[p] + v[p]
      BY <3>2
    <3>8. QED
      BY <3>3, <3>5, <3>6, <3>7
  <2> HIDE DEF Fits
  <2>2. n + 1 \in Nat
    OBVIOUS
  <2>3. QED
    BY <2>1, <2>2, Zenon
<1>3. Cardinality(ids) \in S
  <2>1. Cardinality(ids) \in Nat
    BY <1>a
  <2> HIDE DEF S
  <2>2. QED
    BY <1>1, <1>2, <2>1, Induction
<1>4. QED
  BY <1>3

\* A total of LedgerReplay as the sum over all events of what some count for.
LEMMA TotalOfSome ==
  ASSUME NEW field, NEW ids, IsFiniteSet(ids), NEW part \in SUBSET ids, NEW w,
         \A i \in part : booked[i][field] \in Int /\ w[i] = booked[i][field],
         \A i \in ids \ part : w[i] = 0
  PROVE  SumOver(w, ids) = Total(field, part)
<1> DEFINE v == Field(booked, field, part)
<1>1. IsFiniteSet(part)
  BY FS_Subset
<1>2. \A i \in part : v[i] = booked[i][field]
  BY DEF Field
<1> HIDE DEF v
<1>3. SumOver(w, ids) = SumOver(v, part)
  BY <1>2, SumOverPart
<1>4. QED
  BY <1>1, <1>3, TotalIsASum DEF v

LEMMA AllPlaces ==
  ASSUME NEW ledger, IsLedger(ledger)
  PROVE  First(ledger, Size(ledger)) = Events(ledger)
<1>1. Size(ledger) \in Nat /\ Size(ledger) \in 0..Size(ledger)
  BY EventsAreFinite
<1>2. /\ First(ledger, Size(ledger)) \subseteq Events(ledger)
      /\ \A i \in Events(ledger) : i \in First(ledger, Size(ledger)) <=> Rank(ledger, i) < Size(ledger)
  BY <1>1, FirstPlaces
<1>3. \A i \in Events(ledger) : Rank(ledger, i) < Size(ledger)
  <2>1. \A i \in Events(ledger) : Rank(ledger, i) \in 0..(Size(ledger) - 1)
    BY RanksAreOrdered
  <2>2. QED
    BY <1>1, <2>1
<1>4. QED
  BY <1>2, <1>3

PaidOf(ledger) == [i \in Events(ledger) |-> Paid(ledger[i])]
GivenOf(ledger) == [i \in Events(ledger) |-> Given(ledger[i])]

LEMMA ReplayIsInBalance ==
  ASSUME NEW ledger, IsLedger(ledger)
  PROVE  /\ SoundReplay(Replay(ledger))
         /\ Balanced(Replay(ledger), SumOver(PaidOf(ledger), Events(ledger)),
                     SumOver(GivenOf(ledger), Events(ledger)))
<1> DEFINE n == Size(ledger)
           p == PaidOf(ledger)
           g == GivenOf(ledger)
           P(k) == SumOver(p, First(ledger, k))
           G(k) == SumOver(g, First(ledger, k))
           At(k) == ledger[AtPlace(ledger, k)]
<1>1. PICK f : /\ IsRun("replay", EmptyReplay, Ordered(ledger), n, f)
               /\ Replay(ledger) = Settle(f[n], TRUE)
  BY ReplayOfALedger
<1>2. /\ n \in Nat /\ f[0] = EmptyReplay
      /\ \A k \in 1..n : At(k) \in Transaction /\ f[k] = ReplayEvent(f[k - 1], At(k))
  BY <1>1, RunOfALedger, EventsAreFinite
<1>3. \A i \in Events(ledger) : /\ p[i] = Paid(ledger[i]) /\ p[i] \in Int
                                /\ g[i] = Given(ledger[i]) /\ g[i] \in Int
  <2>1. \A i \in Events(ledger) : ledger[i] \in Transaction
    BY DEF IsLedger
  <2>2. \A i \in Events(ledger) : p[i] = Paid(ledger[i]) /\ g[i] = Given(ledger[i])
    BY DEF PaidOf, GivenOf
  <2> HIDE DEF p, g
  <2>3. QED
    BY <2>1, <2>2, PaidAndGiven
<1> HIDE DEF p, g
<1>4. \A k \in 1..n : /\ AtPlace(ledger, k) \in Events(ledger)
                      /\ P(k - 1) \in Int /\ P(k) = P(k - 1) + p[AtPlace(ledger, k)]
                      /\ G(k - 1) \in Int /\ G(k) = G(k - 1) + g[AtPlace(ledger, k)]
  BY <1>3, SumAtNextPlace, PlacesAreTaken
<1>5. \A k \in 1..n : /\ P(k - 1) \in Int /\ P(k) = P(k - 1) + Paid(At(k))
                      /\ G(k - 1) \in Int /\ G(k) = G(k - 1) + Given(At(k))
  BY <1>3, <1>4
<1>6. P(0) = 0 /\ G(0) = 0
  <2>1. First(ledger, 0) = {}
    BY DEF First
  <2>2. QED
    BY <2>1, EmptySum
<1>7. P(n) = SumOver(p, Events(ledger)) /\ G(n) = SumOver(g, Events(ledger))
  BY AllPlaces
<1>8. P(n) \in Int /\ G(n) \in Int
  <2>1. IsFiniteSet(Events(ledger)) /\ \A i \in Events(ledger) : p[i] \in Int /\ g[i] \in Int
    BY <1>3, EventsAreFinite
  <2>2. QED
    BY <1>7, <2>1, SumType, Zenon
<1> HIDE DEF n, At, P, G
<1> DEFINE S == {k \in Nat : k <= n => InBalance(f[k], P(k), G(k))}
<1>9. 0 \in S
  <2>1. Waits("amounts", EmptyReplay) = 0
    BY EmptyReplayType, TallyOfWaiting DEF Tallies, EmptyReplay
  <2>2. Zero[1] = 0 /\ Reduced(Zero) /\ Zero = Whole(0) /\ 0 - 0 = 0
    BY WholesAreReduced DEF Zero, Whole
  <2>3. SoundReplay(EmptyReplay) /\ Balanced(EmptyReplay, 0, 0)
    BY <2>2, EmptyReplayType DEF SoundReplay, Balanced, EmptyReplay
  <2>4. InBalance(EmptyReplay, 0, 0)
    BY <2>1, <2>2, <2>3, BalanceWithWaiting
  <2>5. QED
    BY <1>2, <1>6, <2>4
<1>10. ASSUME NEW k \in Nat, k \in S PROVE k + 1 \in S
  <2>1. SUFFICES ASSUME k + 1 <= n PROVE InBalance(f[k + 1], P(k + 1), G(k + 1))
    OBVIOUS
  <2>2. PICK j \in 1..n : j = k + 1 /\ j - 1 = k
    BY <1>2, <2>1
  <2>3. /\ f[j] = ReplayEvent(f[k], At(j)) /\ At(j) \in Transaction
        /\ P(k) \in Int /\ P(j) = P(k) + Paid(At(j))
        /\ G(k) \in Int /\ G(j) = G(k) + Given(At(j))
    BY <1>2, <1>5, <2>2
  <2>4. InBalance(f[k], P(k), G(k))
    BY <1>2, <1>10, <2>1
  <2>5. InBalance(ReplayEvent(f[k], At(j)), P(k) + Paid(At(j)), G(k) + Given(At(j)))
    BY <2>3, <2>4, EventInBalance
  <2>6. QED
    BY <2>2, <2>3, <2>5
<1>11. n \in S
  <2> HIDE DEF S
  <2>1. QED
    BY <1>2, <1>9, <1>10, Induction
<1>12. InBalance(f[n], P(n), G(n))
  BY <1>2, <1>11
<1>13. InBalance(Replay(ledger), P(n), G(n))
  BY <1>1, <1>8, <1>12, SettleInBalance
<1>14. Waits("amounts", Replay(ledger)) = 0
  <2>1. f[n] \in Replays
    BY <1>12 DEF InBalance, SoundReplay
  <2>2. Replay(ledger) \in Replays /\ Replay(ledger).waiting = <<>>
    BY <1>1, <2>1, SettleFields
  <2>3. QED
    BY <2>2, TallyOfWaiting DEF Tallies
<1>15. SoundReplay(Replay(ledger)) /\ Balanced(Replay(ledger), P(n), G(n))
  <2>1. G(n) - Waits("amounts", Replay(ledger)) = G(n)
    BY <1>8, <1>14
  <2>2. QED
    BY <1>13, <2>1, Zenon DEF InBalance
<1>16. QED
  BY <1>7, <1>15 DEF p, g

\* The cost of the shares a ledger leaves, as CostBasis of the pages and
\* Times(quantity, avgCost) of a line have it.
LEMMA CostHeld ==
  ASSUME NEW ledger, IsLedger(ledger)
  PROVE  LET position == RecomputePosition(ledger)
             cost == Times(position.stocksOwned, position.avgCostPrice)
         IN  Reduced(cost) /\ cost[1] >= 0
<1> DEFINE end == Replay(ledger)
           avg == IF Positive(end.qty) THEN Over(end.basis, end.qty) ELSE Zero
           position == RecomputePosition(ledger)
<1>1. position.stocksOwned = end.qty /\ position.avgCostPrice = avg
  BY DEF RecomputePosition, Derived
<1>2. SoundReplay(end)
  BY ReplayIsInBalance
<1> HIDE DEF end, position
<1>3. /\ end.qty \in Rational /\ end.basis \in Rational /\ end.qty[1] >= 0 /\ end.basis[1] >= 0
      /\ Zero \in Rational /\ Zero[1] = 0
  BY <1>2, WholesAreReduced DEF SoundReplay, Replays, Reduced, Zero, Whole
<1>4. avg \in Rational /\ avg[1] >= 0
  <2>1. CASE Positive(end.qty)
    BY <1>3, <2>1, NotNegative, RationalOps
  <2>2. CASE ~Positive(end.qty)
    BY <1>3, <2>2
  <2>3. QED
    BY <2>1, <2>2
<1> HIDE DEF avg
<1>5. Reduced(Times(end.qty, avg)) /\ Times(end.qty, avg)[1] >= 0
  BY <1>3, <1>4, NotNegative, ResultsAreReduced
<1>6. QED
  BY <1>1, <1>5 DEF position

\* Average cost moves money between the basis and realized P&L and creates none:
\* over every ledger, realized P&L and what was paid for shares come to the cost
\* of the shares still held, the proceeds and the seeds (ledger.go:57-71).
THEOREM CostIsConservedHolds == RecordSpec => []CostIsConserved
<1>1. ASSUME BookedType PROVE CostIsConserved
  <2> DEFINE all == Events(booked)
             sells == Typed({"sell"})
             opens == Typed({"opening"})
             p == PaidOf(booked)
             g == GivenOf(booked)
             u == [i \in all |-> IF i \in sells THEN booked[i].amount ELSE 0]
             v == [i \in all |-> IF i \in opens THEN booked[i].seed ELSE 0]
             end == Replay(booked)
             basis == Times(Derived(end).avgCostPrice, Derived(end).stocksOwned)
  <2>1. IsLedger(booked)
    BY <1>1, BookedIsALedger
  <2>2. IsFiniteSet(all) /\ \A i \in all : booked[i] \in Transaction
    BY <2>1, EventsAreFinite DEF IsLedger
  <2>3. /\ sells \subseteq all /\ opens \subseteq all /\ Bought \subseteq all
        /\ \A i \in all : /\ i \in sells <=> booked[i].type = "sell"
                          /\ i \in opens <=> booked[i].type = "opening"
                          /\ i \in Bought <=> /\ booked[i].type \in {"opening", "buy"}
                                              /\ booked[i].quantity > 0
    BY DEF Typed, Bought
  <2>4. \A i \in all : booked[i].amount \in Int /\ booked[i].seed \in Int
    BY <2>2, TransactionType
  <2>5. \A i \in all : p[i] = Paid(booked[i]) /\ g[i] = Given(booked[i])
    BY DEF PaidOf, GivenOf
  <2>6. \A i \in all : /\ u[i] = (IF i \in sells THEN booked[i].amount ELSE 0)
                       /\ v[i] = (IF i \in opens THEN booked[i].seed ELSE 0)
    OBVIOUS
  <2> HIDE DEF all, sells, opens, p, g, u, v
  <2>7. SumOver(p, all) = CashOf(Bought)
    <3>1. \A i \in Bought : p[i] = booked[i].amount
      BY <2>3, <2>5 DEF Paid
    <3>2. \A i \in all \ Bought : p[i] = 0
      BY <2>3, <2>5 DEF Paid
    <3>3. QED
      BY <2>2, <2>3, <2>4, <3>1, <3>2, TotalOfSome DEF CashOf
  <2>8. SumOver(u, all) = CashOf(sells)
    <3>1. /\ \A i \in sells : u[i] = booked[i].amount
          /\ \A i \in all \ sells : u[i] = 0
      BY <2>3, <2>6
    <3>2. QED
      BY <2>2, <2>3, <2>4, <3>1, TotalOfSome DEF CashOf
  <2>9. SumOver(v, all) = Total("seed", opens)
    <3>1. /\ \A i \in opens : v[i] = booked[i].seed
          /\ \A i \in all \ opens : v[i] = 0
      BY <2>3, <2>6
    <3>2. QED
      BY <2>2, <2>3, <2>4, <3>1, TotalOfSome
  <2>10. SumOver(g, all) = CashOf(sells) + Total("seed", opens)
    <3>1. \A i \in all : u[i] \in Int /\ v[i] \in Int /\ g[i] = u[i] + v[i]
      BY <2>3, <2>4, <2>5, <2>6 DEF Given
    <3>2. QED
      BY <2>2, <2>8, <2>9, <3>1, SumOfTwo
  <2>11. SoundReplay(end) /\ Balanced(end, SumOver(p, all), SumOver(g, all))
    BY <2>1, ReplayIsInBalance DEF p, g, all
  <2> HIDE DEF end
  <2>12. basis = end.basis
    <3>1. end.qty \in Rational /\ Reduced(end.basis)
      BY <2>11 DEF SoundReplay, Replays
    <3>2. CASE Positive(end.qty)
      BY <3>1, <3>2, TimesOver DEF Derived
    <3>3. CASE ~Positive(end.qty)
      <4>1. end.qty[1] \in Int /\ end.qty[1] >= 0 /\ ~(end.qty[1] > 0)
        BY <2>11, <3>1, <3>3 DEF Positive, SoundReplay, Rational
      <4>2. end.basis = Zero
        BY <2>11, <4>1 DEF SoundReplay
      <4>3. Zero \in Rational /\ Zero[1] = 0
        BY WholeOps DEF Zero, Whole
      <4>4. Times(Zero, end.qty) = Zero
        BY <3>1, <4>3, Signs
      <4>5. QED
        BY <3>3, <4>2, <4>4 DEF Derived
    <3>4. QED
      BY <3>2, <3>3
  <2> HIDE DEF basis
  <2>13. Plus(end.realized, Whole(CashOf(Bought)))
            = Plus(basis, Whole(CashOf(sells) + Total("seed", opens)))
    BY <2>7, <2>10, <2>11, <2>12 DEF Balanced
  <2>14. Derived(end).realizedPnL = end.realized
    BY DEF Derived
  <2>15. QED
    BY <2>13, <2>14, Zenon DEF CostIsConserved, RecomputePosition, basis, end, sells, opens
<1>2. QED
  BY <1>1, BookedInvariant, PTL

------------------------------------------------------------------------------
(***************************************************************************)
(* The shares of a ledger without splits: whole numbers, and what was      *)
(* acquired less what was sold, the sells that wait included.              *)
(***************************************************************************)
InStock(acc, n) ==
    /\ acc \in Replays
    /\ ~acc.oversold => /\ n + Waits("quantities", acc) >= 0
                        /\ acc.qty = Whole(n + Waits("quantities", acc))

LEMMA StockOf ==
  ASSUME NEW acc \in Replays, NEW n, NEW w, NEW total \in Int,
         Waits("quantities", acc) = w, n + w = total, total >= 0, acc.qty = Whole(total)
  PROVE  InStock(acc, n)
<1>1. n + Waits("quantities", acc) = total
  BY Zenon
<1>2. QED
  BY <1>1 DEF InStock

LEMMA SellFromStock ==
  ASSUME NEW acc \in Replays, NEW txn \in Transaction, NEW total \in Nat,
         acc.qty = Whole(total)
  PROVE  /\ Covered(acc, txn) <=> total >= txn.quantity
         /\ total >= txn.quantity => Sell(acc, txn).qty = Whole(total - txn.quantity)
         /\ Sell(acc, txn).oversold <=> acc.oversold \/ total < txn.quantity
<1> DEFINE q == txn.quantity
<1>1. q \in Nat /\ q \in Int /\ total \in Int
  BY TransactionType
<1>2. Below(Whole(total), Whole(q)) <=> total < q
  BY <1>1, WholeOps
<1>3. Minus(Whole(total), Whole(q)) = Whole(total - q)
  BY <1>1, WholeOps
<1>4. Covered(acc, txn) <=> total >= q
  BY <1>1, <1>2 DEF Covered
<1>5. total >= q => Smaller(Whole(q), acc.qty) = Whole(q)
  BY <1>1, <1>2 DEF Smaller
<1>6. /\ Sell(acc, txn).qty = Minus(acc.qty, Smaller(Whole(q), acc.qty))
      /\ Sell(acc, txn).oversold <=> acc.oversold \/ ~Covered(acc, txn)
  BY SellFields
<1>7. total >= q => Sell(acc, txn).qty = Whole(total - q)
  BY <1>3, <1>5, <1>6
<1>8. ~Covered(acc, txn) <=> total < q
  BY <1>1, <1>4
<1>9. QED
  BY <1>4, <1>6, <1>7, <1>8

LEMMA SettleOneInStock ==
  ASSUME NEW acc, NEW txn \in Transaction, NEW n \in Int, InStock(acc, n)
  PROVE  InStock(SettleOne(FALSE, acc, txn), n - txn.quantity)
<1> DEFINE w == Waits("quantities", acc)
           q == txn.quantity
           total == n + w
           now == SettleOne(FALSE, acc, txn)
<1>1. acc \in Replays /\ (~acc.oversold => total >= 0 /\ acc.qty = Whole(total))
  BY DEF InStock
<1>2. "quantities" \in Tallies /\ Tally("quantities", txn) = q
  BY DEF Tallies, Tally
<1>3. w \in Nat /\ q \in Nat
  BY <1>1, <1>2, TallyOfWaiting, TransactionType
<1>4. now \in Replays /\ (now.oversold <=> acc.oversold)
  BY <1>1, SettleOneFields
<1>5. CASE acc.oversold
  BY <1>4, <1>5 DEF InStock
<1>6. CASE ~acc.oversold /\ (acc.waiting = <<>> /\ Covered(acc, txn))
  <2>1. now = Sell(acc, txn)
    BY <1>6 DEF SettleOne
  <2>2. now.waiting = acc.waiting
    BY <1>1, <2>1, SellFields
  <2>3. Waits("quantities", now) = w
    BY <2>2, Zenon DEF Waits
  <2>4. total \in Nat /\ acc.qty = Whole(total)
    BY <1>1, <1>3, <1>6
  <2> HIDE DEF w, now, total
  <2>5. total >= q /\ now.qty = Whole(total - q)
    BY <1>1, <1>6, <2>1, <2>4, SellFromStock
  <2>6. (n - q) + w = total - q /\ total - q \in Int /\ total - q >= 0
    BY <1>3, <2>4, <2>5 DEF total
  <2> HIDE DEF q
  <2>7. InStock(now, n - q)
    BY <1>4, <2>3, <2>5, <2>6, StockOf
  <2>8. QED
    BY <2>7 DEF now, q
<1>7. CASE ~acc.oversold /\ ~(acc.waiting = <<>> /\ Covered(acc, txn))
  <2>1. now = [acc EXCEPT !.waiting = Append(@, txn)]
    BY <1>7 DEF SettleOne
  <2>2. now.qty = acc.qty
    BY <1>1, <2>1, WaitFields
  <2>3. Waits("quantities", now) = w + q
    BY <1>1, <1>2, <2>1, OneMoreWaits
  <2>4. total \in Int /\ total >= 0 /\ acc.qty = Whole(total)
    BY <1>1, <1>3, <1>7
  <2> HIDE DEF w, now, total
  <2>5. (n - q) + (w + q) = total
    BY <1>3 DEF total
  <2> HIDE DEF q
  <2>6. InStock(now, n - q)
    BY <1>4, <2>2, <2>3, <2>4, <2>5, StockOf
  <2>7. QED
    BY <2>6 DEF now, q
<1>8. QED
  BY <1>5, <1>6, <1>7

\* Settling during the day keeps the shares; at its end it oversells exactly
\* when more were sold than acquired.
LEMMA SettleInStock ==
  ASSUME NEW acc, NEW n \in Int, InStock(acc, n), NEW endOfDay \in BOOLEAN
  PROVE  LET now == Settle(acc, endOfDay)
         IN  /\ InStock(now, n)
             /\ ~endOfDay => (now.oversold <=> acc.oversold)
             /\ endOfDay => (now.oversold <=> acc.oversold \/ n < 0)
<1> DEFINE base == [acc EXCEPT !.waiting = <<>>]
           seq == acc.waiting
           w == Waits("quantities", acc)
           start == n + w
           last == Len(seq)
           now == Settle(acc, endOfDay)
<1>0. acc \in Replays /\ (~acc.oversold => start >= 0 /\ acc.qty = Whole(start))
  BY DEF InStock
<1>1. seq \in Seq(Transaction) /\ last \in Nat /\ DOMAIN seq = 1..last
  BY <1>0 DEF Replays
<1>2. /\ base \in Replays /\ base.waiting = <<>> /\ base.qty = acc.qty
      /\ base.oversold = acc.oversold
  BY <1>0, WithoutWaiting
<1>3. now = Folded(SettleKind(endOfDay), base, seq)
  BY <1>1, SettleIsARun
<1>4. "quantities" \in Tallies /\ \A txn : Tally("quantities", txn) = txn.quantity
  BY DEF Tallies, Tally
<1>5. PICK h : IsRun("quantities", 0, seq, last, h) /\ w = h[last]
  BY <1>0, <1>4, TallyOfWaiting
<1>6. w \in Nat /\ Waits("quantities", base) = 0
  BY <1>0, <1>2, <1>4, TallyOfWaiting
<1>7. start \in Int /\ start - w = n
  BY <1>6
<1>8. now \in Replays /\ (~endOfDay => (now.oversold <=> acc.oversold))
      /\ (acc.oversold => now.oversold) /\ (endOfDay => now.waiting = <<>>)
  BY <1>0, SettleFields
<1> HIDE DEF base, seq, w, last, now
<1>9. /\ h[0] = 0 /\ \A k \in 0..last : h[k] \in Nat
      /\ \A k \in 1..last : h[k] = h[k - 1] + seq[k].quantity
  BY <1>1, <1>4, <1>5, TallyRun DEF last
<1>10. PICK f : /\ IsRun(SettleKind(endOfDay), base, seq, last, f)
                /\ Folded(SettleKind(endOfDay), base, seq) = f[last]
  BY <1>1, FoldedRun DEF last
<1> HIDE DEF start
<1>11. f[0] = base
  BY <1>10, Zenon DEF IsRun
<1>12. \A k \in 1..last : f[k] = SettleOne(endOfDay, f[k - 1], seq[k]) /\ seq[k] \in Transaction
  <2>1. \A k \in 1..last : f[k] = Step(SettleKind(endOfDay), f[k - 1], seq[k])
    BY <1>10, Zenon DEF IsRun
  <2>2. QED
    BY <1>1, <2>1, StepOfSettle
<1>13. ASSUME NEW k \in Nat, k + 1 <= last
       PROVE  \E j \in 1..last : /\ j = k + 1 /\ k <= last
                                 /\ f[j] = SettleOne(endOfDay, f[k], seq[j])
                                 /\ seq[j] \in Transaction /\ seq[j].quantity \in Nat
                                 /\ h[k] \in Nat /\ h[j] \in Nat /\ h[j] = h[k] + seq[j].quantity
  <2>1. PICK j \in 1..last : j = k + 1 /\ j - 1 = k /\ k <= last /\ k \in 0..last /\ j \in 0..last
    BY <1>1, <1>13
  <2>2. h[j] = h[j - 1] + seq[j].quantity /\ f[j] = SettleOne(endOfDay, f[j - 1], seq[j])
    BY <1>9, <1>12
  <2>3. seq[j] \in Transaction /\ seq[j].quantity \in Nat
    BY <1>12, TransactionType
  <2>4. h[k] \in Nat /\ h[j] \in Nat
    BY <1>9, <2>1
  <2>5. h[j] = h[k] + seq[j].quantity /\ f[j] = SettleOne(endOfDay, f[k], seq[j])
    BY <2>1, <2>2
  <2>6. QED
    BY <2>1, <2>3, <2>4, <2>5
<1>14. CASE ~endOfDay
  <2> DEFINE S == {k \in Nat : k <= last => InStock(f[k], start - h[k])}
  <2>1. 0 \in S
    <3>1. InStock(base, start)
      <4>1. CASE acc.oversold
        BY <1>2, <4>1 DEF InStock
      <4>2. CASE ~acc.oversold
        <5>1. start + 0 = start
          BY <1>7
        <5>2. QED
          BY <1>0, <1>2, <1>6, <1>7, <4>2, <5>1, StockOf
      <4>3. QED
        BY <4>1, <4>2
    <3>2. start - h[0] = start
      BY <1>7, <1>9
    <3>3. QED
      BY <1>11, <3>1, <3>2
  <2>2. ASSUME NEW k \in Nat, k \in S PROVE k + 1 \in S
    <3>1. SUFFICES ASSUME k + 1 <= last PROVE InStock(f[k + 1], start - h[k + 1])
      OBVIOUS
    <3>2. PICK j \in 1..last : /\ j = k + 1 /\ k <= last
                               /\ f[j] = SettleOne(endOfDay, f[k], seq[j])
                               /\ seq[j] \in Transaction /\ seq[j].quantity \in Nat
                               /\ h[k] \in Nat /\ h[j] \in Nat /\ h[j] = h[k] + seq[j].quantity
      BY <1>13, <3>1
    <3>3. InStock(f[k], start - h[k]) /\ start - h[k] \in Int
      BY <1>7, <2>2, <3>2
    <3>4. f[j] = SettleOne(FALSE, f[k], seq[j])
      <4>1. endOfDay = FALSE
        BY <1>14
      <4>2. QED
        BY <3>2, <4>1
    <3>5. InStock(f[j], (start - h[k]) - seq[j].quantity)
      BY <3>2, <3>3, <3>4, SettleOneInStock
    <3>6. (start - h[k]) - seq[j].quantity = start - h[j]
      BY <1>7, <3>2
    <3>7. QED
      BY <3>2, <3>5, <3>6
  <2>3. last \in S
    <3> HIDE DEF S
    <3>1. QED
      BY <1>1, <2>1, <2>2, Induction
  <2>4. InStock(f[last], start - h[last])
    BY <1>1, <2>3
  <2>5. f[last] = now /\ start - h[last] = n
    BY <1>3, <1>5, <1>7, <1>10
  <2>6. QED
    BY <1>8, <1>14, <2>4, <2>5 DEF now
<1>15. CASE endOfDay /\ acc.oversold
  BY <1>8, <1>15 DEF InStock, now
<1>16. CASE endOfDay /\ ~acc.oversold
  <2> DEFINE Fits(s, m) == /\ s \in Replays
                           /\ s.oversold <=> m < 0
                           /\ m >= 0 => s.qty = Whole(m)
             S == {k \in Nat : k <= last => Fits(f[k], start - h[k])}
  <2>1. 0 \in S
    <3>1. base.oversold = FALSE
      BY <1>0, <1>2, <1>16 DEF Replays
    <3>2. Fits(base, start)
      BY <1>0, <1>2, <1>7, <1>16, <3>1
    <3>3. start - h[0] = start
      BY <1>7, <1>9
    <3>4. QED
      BY <1>11, <3>2, <3>3
  <2>2. ASSUME NEW k \in Nat, k \in S PROVE k + 1 \in S
    <3>1. SUFFICES ASSUME k + 1 <= last PROVE Fits(f[k + 1], start - h[k + 1])
      OBVIOUS
    <3>2. PICK j \in 1..last : /\ j = k + 1 /\ k <= last
                               /\ f[j] = SettleOne(endOfDay, f[k], seq[j])
                               /\ seq[j] \in Transaction /\ seq[j].quantity \in Nat
                               /\ h[k] \in Nat /\ h[j] \in Nat /\ h[j] = h[k] + seq[j].quantity
      BY <1>13, <3>1
    <3> DEFINE m == start - h[k]
               q == seq[j].quantity
    <3>3. Fits(f[k], m) /\ m \in Int
      BY <1>7, <2>2, <3>2
    <3>4. f[j] = Sell(f[k], seq[j])
      BY <1>16, <3>2 DEF SettleOne
    <3>5. start - h[j] = m - q
      BY <1>7, <3>2
    <3>6. Sell(f[k], seq[j]) \in Replays /\ (f[k].oversold => Sell(f[k], seq[j]).oversold)
      BY <3>2, <3>3, SellFields
    <3> HIDE DEF m
    <3>7. Fits(Sell(f[k], seq[j]), m - q)
      <4>1. CASE m < 0
        <5>1. m - q < 0 /\ ~(m - q >= 0)
          BY <3>2, <3>3, <4>1
        <5>2. QED
          BY <3>3, <3>6, <4>1, <5>1
      <4>2. CASE m >= 0
        <5>1. m \in Nat /\ f[k].qty = Whole(m) /\ ~f[k].oversold /\ q \in Nat
          BY <3>2, <3>3, <4>2
        <5>2. /\ m >= q => Sell(f[k], seq[j]).qty = Whole(m - q)
              /\ Sell(f[k], seq[j]).oversold <=> f[k].oversold \/ m < q
          BY <3>2, <3>3, <5>1, SellFromStock
        <5>3. (m - q >= 0 <=> m >= q) /\ (m - q < 0 <=> m < q)
          BY <5>1
        <5>4. QED
          BY <3>6, <5>1, <5>2, <5>3
      <4>3. QED
        BY <3>3, <4>1, <4>2
    <3>8. QED
      BY <3>2, <3>4, <3>5, <3>7
  <2>3. last \in S
    <3> HIDE DEF S
    <3>1. QED
      BY <1>1, <2>1, <2>2, Induction
  <2>4. Fits(f[last], start - h[last])
    BY <1>1, <2>3
  <2>5. f[last] = now /\ start - h[last] = n
    BY <1>3, <1>5, <1>7, <1>10
  <2>6. (now.oversold <=> n < 0) /\ (n >= 0 => now.qty = Whole(n))
    BY <2>4, <2>5
  <2>7. InStock(now, n)
    <3>1. CASE now.oversold
      BY <1>8, <3>1 DEF InStock
    <3>2. CASE ~now.oversold
      <4>1. Waits("quantities", now) = 0
        BY <1>4, <1>8, <1>16, TallyOfWaiting
      <4>2. n >= 0 /\ n + 0 = n /\ now.qty = Whole(n)
        BY <2>6, <3>2
      <4>3. QED
        BY <1>8, <4>1, <4>2, StockOf
    <3>3. QED
      BY <3>1, <3>2
  <2>8. QED
    BY <1>16, <2>6, <2>7 DEF now
<1>17. QED
  BY <1>14, <1>15, <1>16

\* By how much an event moves the shares acquired less those sold.
Traded(txn) ==
    CASE txn.type \in {"opening", "buy"} -> txn.quantity
      [] txn.type = "sell"               -> -txn.quantity
      [] OTHER                           -> 0

LEMMA EffectInStock ==
  ASSUME NEW acc, NEW txn \in Transaction, txn.type \notin {"split", "bonus"},
         txn.type = "sell" => Covered(acc, txn), NEW n \in Int, InStock(acc, n)
  PROVE  /\ InStock(Effect(acc, txn), n + Traded(txn))
         /\ Effect(acc, txn).oversold <=> acc.oversold
<1> DEFINE now == Effect(acc, txn)
           w == Waits("quantities", acc)
           q == txn.quantity
           total == n + w
<1>1. acc \in Replays /\ (~acc.oversold => total >= 0 /\ acc.qty = Whole(total))
  BY DEF InStock
<1>2. "quantities" \in Tallies
  BY DEF Tallies
<1>3. w \in Nat /\ q \in Nat /\ txn.type \in TxnType
  BY <1>1, <1>2, TallyOfWaiting, TransactionType
<1>4. now \in Replays /\ now.waiting = acc.waiting /\ (now.oversold <=> acc.oversold)
  BY <1>1, EffectFields
<1>5. Waits("quantities", now) = w
  BY <1>4, Zenon DEF Waits
<1>6. CASE acc.oversold
  BY <1>4, <1>6 DEF InStock
<1>7. CASE ~acc.oversold
  <2>1. total \in Nat /\ total \in Int /\ acc.qty = Whole(total)
    BY <1>1, <1>3, <1>7
  <2> HIDE DEF w, total
  <2>2. CASE txn.type \in {"opening", "buy"}
    <3>1. now.qty = IF q > 0 THEN Plus(acc.qty, Whole(q)) ELSE acc.qty
      <4>1. CASE txn.type = "opening"
        BY <1>1, <4>1, OpeningEffect
      <4>2. CASE txn.type = "buy"
        BY <1>1, <4>2, AcquireFields DEF Effect
      <4>3. QED
        BY <2>2, <4>1, <4>2
    <3>2. Plus(Whole(total), Whole(q)) = Whole(total + q)
      <4>1. q \in Int
        BY <1>3
      <4>2. QED
        BY <2>1, <4>1, WholeOps
    <3>3. now.qty = Whole(total + q)
      <4>1. CASE q > 0
        BY <2>1, <3>1, <3>2, <4>1
      <4>2. CASE ~(q > 0)
        <5>1. total + q = total
          BY <1>3, <2>1, <4>2
        <5>2. QED
          BY <2>1, <3>1, <4>2, <5>1
      <4>3. QED
        BY <4>1, <4>2
    <3>4. Traded(txn) = q
      BY <2>2 DEF Traded
    <3>5. (n + q) + w = total + q /\ total + q \in Int /\ total + q >= 0
      BY <1>3, <2>1 DEF total
    <3> HIDE DEF q, now
    <3>6. InStock(now, n + q)
      BY <1>4, <1>5, <3>3, <3>5, StockOf
    <3>7. QED
      BY <1>4, <3>4, <3>6 DEF now
  <2>3. CASE txn.type = "sell"
    <3>1. now = Sell(acc, txn)
      BY <2>3 DEF Effect
    <3>2. total >= q /\ now.qty = Whole(total - q)
      BY <1>1, <2>1, <2>3, <3>1, SellFromStock
    <3>3. Traded(txn) = -q
      BY <2>3 DEF Traded
    <3>4. (n + (-q)) + w = total - q /\ total - q \in Int /\ total - q >= 0
      BY <1>3, <2>1, <3>2 DEF total
    <3> HIDE DEF q, now
    <3>5. InStock(now, n + (-q))
      BY <1>4, <1>5, <3>2, <3>4, StockOf
    <3>6. QED
      BY <1>4, <3>3, <3>5 DEF now
  <2>4. CASE txn.type \in {"dividend", "merger"}
    <3>1. now = IF txn.type = "dividend"
                THEN [acc EXCEPT !.dividends = Plus(acc.dividends, Whole(txn.amount))] ELSE acc
      BY <2>4 DEF Effect
    <3>2. now.qty = acc.qty
      BY <1>1, <3>1 DEF Replays
    <3>3. Traded(txn) = 0 /\ n + 0 = n /\ n + w = total /\ total >= 0
      BY <2>1, <2>4 DEF Traded, total
    <3> HIDE DEF now
    <3>4. InStock(now, n)
      BY <1>4, <1>5, <2>1, <3>2, <3>3, StockOf
    <3>5. QED
      BY <1>4, <3>3, <3>4 DEF now
  <2>5. QED
    BY <1>3, <2>2, <2>3, <2>4 DEF TxnType
<1>8. QED
  BY <1>6, <1>7

LEMMA EventInStock ==
  ASSUME NEW acc, NEW txn \in Transaction, txn.type \notin {"split", "bonus"},
         NEW n \in Int, InStock(acc, n)
  PROVE  LET now == ReplayEvent(acc, txn)
         IN  /\ InStock(now, n + Traded(txn))
             /\ now.oversold <=> acc.oversold \/ (acc.day # DayOf(txn.date) /\ n < 0)
<1> DEFINE day == DayOf(txn.date)
           end == IF day # acc.day THEN Settle(acc, TRUE) ELSE acc
           start == NewDay(acc, day)
           w == Waits("quantities", start)
           q == txn.quantity
<1>0. acc \in Replays /\ day \in Int /\ q \in Nat
  BY TransactionType DEF InStock
<1>1. InStock(end, n) /\ (end.oversold <=> acc.oversold \/ (acc.day # day /\ n < 0))
  <2>1. CASE day # acc.day
    BY <2>1, SettleInStock
  <2>2. CASE day = acc.day
    BY <2>2
  <2>3. QED
    BY <2>1, <2>2
<1>2. start = [end EXCEPT !.day = day]
  BY DEF NewDay
<1> HIDE DEF end
<1>3. /\ start \in Replays /\ start.qty = end.qty /\ start.oversold = end.oversold
      /\ start.waiting = end.waiting
  BY <1>0, <1>1, <1>2 DEF Replays, InStock
<1> HIDE DEF start
<1>4. InStock(start, n)
  <2>1. Waits("quantities", start) = Waits("quantities", end)
    BY <1>3, Zenon DEF Waits
  <2>2. QED
    BY <1>1, <1>3, <2>1 DEF InStock
<1>5. ReplayEvent(acc, txn) = Meet(start, txn)
  BY DEF ReplayEvent, start
<1>6. "quantities" \in Tallies /\ Tally("quantities", txn) = q
  BY DEF Tallies, Tally
<1>7. w \in Nat
  BY <1>3, <1>6, TallyOfWaiting
<1>8. CASE txn.type = "sell" /\ ~Covered(start, txn)
  <2> DEFINE now == [start EXCEPT !.waiting = Append(@, txn)]
             total == n + w
  <2>1. Meet(start, txn) = now
    BY <1>8 DEF Meet
  <2>2. now \in Replays /\ now.qty = start.qty /\ now.oversold = start.oversold
    BY <1>3, WaitFields
  <2>3. Waits("quantities", now) = w + q
    BY <1>3, <1>6, OneMoreWaits
  <2>4. Traded(txn) = -q
    BY <1>8 DEF Traded
  <2>5. ~start.oversold => total >= 0 /\ start.qty = Whole(total)
    BY <1>4 DEF InStock
  <2>6. total \in Int /\ (n + (-q)) + (w + q) = total
    BY <1>0, <1>7
  <2> HIDE DEF now, w, total, q
  <2>7. InStock(now, n + (-q))
    <3>1. CASE start.oversold
      BY <2>2, <3>1 DEF InStock
    <3>2. CASE ~start.oversold
      BY <2>2, <2>3, <2>5, <2>6, <3>2, StockOf
    <3>3. QED
      BY <3>1, <3>2
  <2>8. QED
    BY <1>1, <1>3, <1>5, <2>1, <2>2, <2>4, <2>7
<1>9. CASE ~(txn.type = "sell" /\ ~Covered(start, txn))
  <2> DEFINE then == Effect(start, txn)
  <2>1. Meet(start, txn) = Settle(then, FALSE)
    BY <1>9 DEF Meet
  <2>2. InStock(then, n + Traded(txn)) /\ (then.oversold <=> start.oversold)
    BY <1>4, <1>9, EffectInStock
  <2>3. n + Traded(txn) \in Int
    BY <1>0 DEF Traded
  <2> HIDE DEF then
  <2>4. InStock(Settle(then, FALSE), n + Traded(txn)) /\ (Settle(then, FALSE).oversold <=> then.oversold)
    BY <2>2, <2>3, SettleInStock
  <2>5. QED
    BY <1>1, <1>3, <1>5, <2>1, <2>2, <2>4
<1>10. QED
  BY <1>8, <1>9

TradedOf(ledger) == [i \in Events(ledger) |-> Traded(ledger[i])]

WithoutSplits(ledger) == \A i \in Events(ledger) : ledger[i].type \notin {"split", "bonus"}

\* No event of a later place falls on the day of this one.
EndsItsDay(ledger, k) ==
    k = Size(ledger) \/ DayOf(ledger[AtPlace(ledger, k)].date) # DayOf(ledger[AtPlace(ledger, k + 1)].date)

LEMMA MovedSums ==
  ASSUME NEW ledger, IsLedger(ledger)
  PROVE  /\ \A i \in Events(ledger) : TradedOf(ledger)[i] = Traded(ledger[i]) /\ TradedOf(ledger)[i] \in Int
         /\ \A k \in 0..Size(ledger) : SumOver(TradedOf(ledger), First(ledger, k)) \in Int
         /\ SumOver(TradedOf(ledger), First(ledger, 0)) = 0
         /\ \A k \in 1..Size(ledger) :
               SumOver(TradedOf(ledger), First(ledger, k))
                  = SumOver(TradedOf(ledger), First(ledger, k - 1)) + Traded(ledger[AtPlace(ledger, k)])
<1> DEFINE v == TradedOf(ledger)
<1>1. \A i \in Events(ledger) : v[i] = Traded(ledger[i]) /\ v[i] \in Int
  <2>1. \A i \in Events(ledger) : ledger[i].quantity \in Nat
    BY TransactionType DEF IsLedger
  <2>2. QED
    BY <2>1 DEF TradedOf, Traded
<1> HIDE DEF v
<1>2. Size(ledger) \in Nat
  BY EventsAreFinite
<1>3. ASSUME NEW k \in 0..Size(ledger) PROVE SumOver(v, First(ledger, k)) \in Int
  <2>1. First(ledger, k) \subseteq Events(ledger) /\ IsFiniteSet(First(ledger, k))
    BY FirstPlaces
  <2>2. \A i \in First(ledger, k) : v[i] \in Int
    BY <1>1, <2>1
  <2>3. QED
    BY <2>1, <2>2, SumType, Zenon
<1>4. SumOver(v, First(ledger, 0)) = 0
  <2>1. First(ledger, 0) = {}
    BY DEF First
  <2>2. QED
    BY <2>1, EmptySum
<1>5. ASSUME NEW k \in 1..Size(ledger)
      PROVE  SumOver(v, First(ledger, k))
                = SumOver(v, First(ledger, k - 1)) + Traded(ledger[AtPlace(ledger, k)])
  <2>1. SumOver(v, First(ledger, k)) = SumOver(v, First(ledger, k - 1)) + v[AtPlace(ledger, k)]
    BY <1>1, SumAtNextPlace
  <2>2. AtPlace(ledger, k) \in Events(ledger)
    BY PlacesAreTaken
  <2>3. QED
    BY <1>1, <2>1, <2>2
<1>6. QED
  BY <1>1, <1>3, <1>4, <1>5 DEF v

\* The replay oversells exactly at the end of a day that closes short.
LEMMA OversellAtDayEnds ==
  ASSUME NEW ledger, IsLedger(ledger), WithoutSplits(ledger)
  PROVE  Oversells(ledger) <=>
            \E k \in 1..Size(ledger) :
               EndsItsDay(ledger, k) /\ SumOver(TradedOf(ledger), First(ledger, k)) < 0
<1> DEFINE n == Size(ledger)
           N(k) == SumOver(TradedOf(ledger), First(ledger, k))
           At(k) == ledger[AtPlace(ledger, k)]
           Short(k) == \E j \in 1..(k - 1) : DayOf(At(j).date) # DayOf(At(j + 1).date) /\ N(j) < 0
<1>1. PICK f : /\ IsRun("replay", EmptyReplay, Ordered(ledger), n, f)
               /\ Replay(ledger) = Settle(f[n], TRUE)
  BY ReplayOfALedger
<1>2. /\ n \in Nat /\ f[0] = EmptyReplay
      /\ \A k \in 0..n : f[k] \in Replays
      /\ \A k \in 1..n : /\ At(k) \in Transaction /\ f[k] = ReplayEvent(f[k - 1], At(k))
                         /\ f[k].day = DayOf(At(k).date)
  BY <1>1, RunOfALedger, EventsAreFinite
<1>3. \A k \in 1..n : At(k).type \notin {"split", "bonus"}
  BY PlacesAreTaken DEF WithoutSplits
<1>4. /\ \A k \in 0..n : N(k) \in Int
      /\ N(0) = 0 /\ \A k \in 1..n : N(k) = N(k - 1) + Traded(At(k))
  BY MovedSums
<1>5. \A k \in 1..n : EndsItsDay(ledger, k) <=> k = n \/ DayOf(At(k).date) # DayOf(At(k + 1).date)
  BY DEF EndsItsDay
<1> HIDE DEF n, N, At
<1> DEFINE S == {k \in Nat : k <= n => InStock(f[k], N(k)) /\ (f[k].oversold <=> Short(k))}
<1>6. 0 \in S
  <2>1. Waits("quantities", EmptyReplay) = 0
    BY EmptyReplayType, TallyOfWaiting DEF Tallies, EmptyReplay
  <2>2. EmptyReplay.qty = Whole(0) /\ EmptyReplay.oversold = FALSE /\ 0 + 0 = 0
    BY DEF EmptyReplay, Zero
  <2>3. InStock(EmptyReplay, 0)
    BY <2>1, <2>2, EmptyReplayType, StockOf
  <2>4. ~Short(0)
    BY <1>2
  <2> HIDE DEF Short
  <2>5. QED
    BY <1>2, <1>4, <2>2, <2>3, <2>4
<1>7. ASSUME NEW k \in Nat, k \in S PROVE k + 1 \in S
  <2>1. SUFFICES ASSUME k + 1 <= n
                 PROVE  InStock(f[k + 1], N(k + 1)) /\ (f[k + 1].oversold <=> Short(k + 1))
    OBVIOUS
  <2>2. PICK j \in 1..n : j = k + 1 /\ j - 1 = k /\ k \in 0..n
    BY <1>2, <2>1
  <2>3. /\ At(j) \in Transaction /\ f[j] = ReplayEvent(f[k], At(j))
        /\ At(j).type \notin {"split", "bonus"} /\ N(k) \in Int /\ N(j) = N(k) + Traded(At(j))
    BY <1>2, <1>3, <1>4, <2>2
  <2>4. InStock(f[k], N(k)) /\ (f[k].oversold <=> Short(k))
    BY <1>2, <1>7, <2>1
  <2>5. /\ InStock(f[j], N(j))
        /\ f[j].oversold <=> f[k].oversold \/ (f[k].day # DayOf(At(j).date) /\ N(k) < 0)
    BY <2>3, <2>4, EventInStock
  <2>6. Short(j) <=> Short(k) \/ (f[k].day # DayOf(At(j).date) /\ N(k) < 0)
    <3>1. CASE k = 0
      <4>1. ~Short(j) /\ ~Short(k) /\ N(k) = 0
        BY <1>4, <2>2, <3>1
      <4>2. QED
        BY <4>1
    <3>2. CASE k # 0
      <4>1. k \in 1..n /\ 1..(j - 1) = 1..(k - 1) \cup {k}
        BY <2>2, <3>2
      <4>2. f[k].day = DayOf(At(k).date)
        BY <1>2, <4>1
      <4>3. Short(j) <=> Short(k) \/ (DayOf(At(k).date) # DayOf(At(k + 1).date) /\ N(k) < 0)
        BY <4>1
      <4>4. QED
        BY <2>2, <4>2, <4>3
    <3>3. QED
      BY <3>1, <3>2
  <2> HIDE DEF Short
  <2>7. QED
    BY <2>2, <2>4, <2>5, <2>6
<1>8. n \in S
  <2> HIDE DEF S
  <2>1. QED
    BY <1>2, <1>6, <1>7, Induction
<1>9. InStock(f[n], N(n)) /\ (f[n].oversold <=> Short(n)) /\ N(n) \in Int
  BY <1>2, <1>4, <1>8
<1>10. Replay(ledger).oversold <=> Short(n) \/ N(n) < 0
  <2> HIDE DEF Short
  <2>1. QED
    BY <1>1, <1>9, SettleInStock
<1>11. Short(n) \/ N(n) < 0 <=>
          \E k \in 1..n : (k = n \/ DayOf(At(k).date) # DayOf(At(k + 1).date)) /\ N(k) < 0
  <2>1. CASE n = 0
    <3>1. 1..(n - 1) = {} /\ 1..n = {} /\ ~(N(n) < 0)
      BY <1>4, <2>1
    <3>2. QED
      BY <3>1
  <2>2. CASE n # 0
    <3>1. 1..n = 1..(n - 1) \cup {n}
      BY <1>2, <2>2
    <3>2. QED
      BY <3>1
  <2>3. QED
    BY <2>1, <2>2
<1>12. QED
  <2>1. (\E k \in 1..n : EndsItsDay(ledger, k) /\ N(k) < 0) <=>
        (\E k \in 1..n : (k = n \/ DayOf(At(k).date) # DayOf(At(k + 1).date)) /\ N(k) < 0)
    BY <1>5, Zenon
  <2>2. Oversells(ledger) <=> \E k \in 1..n : EndsItsDay(ledger, k) /\ N(k) < 0
    BY <1>10, <1>11, <2>1, Zenon DEF Oversells
  <2>3. QED
    BY <2>2 DEF n, N

\* The events that count at the end of a day.
Counted(ledger, day) ==
    {i \in Events(ledger) : IsOpening(ledger[i]) \/ DayOf(ledger[i].date) <= day}

LEMMA DaysFollowDates ==
  ASSUME NEW ledger, IsLedger(ledger), NEW i \in Events(ledger), NEW j \in Events(ledger)
  PROVE  /\ DayOf(ledger[i].date) \in Nat /\ ledger[i].date \in Nat
         /\ ledger[i].date <= ledger[j].date => DayOf(ledger[i].date) <= DayOf(ledger[j].date)
         /\ Precedes(ledger, i, j) =>
               IsOpening(ledger[i]) \/ (~IsOpening(ledger[j]) /\ ledger[i].date <= ledger[j].date)
<1>1. ledger[i].date \in Nat /\ ledger[j].date \in Nat
  BY TransactionType DEF IsLedger
<1>2. ledger[i].date <= ledger[j].date => DayOf(ledger[i].date) <= DayOf(ledger[j].date)
  BY <1>1 DEF DayOf, SlotsPerDay
<1>3. DayOf(ledger[i].date) \in Nat
  BY <1>1 DEF DayOf, SlotsPerDay
<1>4. QED
  BY <1>1, <1>2, <1>3 DEF Precedes, IsOpening

LEMMA CountedStandFirst ==
  ASSUME NEW ledger, IsLedger(ledger), NEW day \in Int
  PROVE  LET m == Cardinality(Counted(ledger, day))
         IN  /\ m \in 0..Size(ledger)
             /\ First(ledger, m) = Counted(ledger, day)
             /\ \A k \in 1..Size(ledger) : AtPlace(ledger, k) \in Counted(ledger, day) <=> k <= m
<1> DEFINE C == Counted(ledger, day)
           part == [i \in DOMAIN ledger |-> IF i \in C THEN ledger[i] ELSE NoEvent]
           m == Cardinality(C)
<1>0. C \subseteq Events(ledger)
  BY DEF Counted
<1>1. Events(part) = C /\ \A i \in Events(part) : part[i] = ledger[i]
  BY <1>0 DEF Events
<1>2. IsLedger(part)
  <2>1. DOMAIN part = DOMAIN ledger
    OBVIOUS
  <2> HIDE DEF part, C
  <2>2. QED
    BY <1>0, <1>1, <2>1 DEF IsLedger
<1>3. IsInitialPart(part, ledger)
  <2>1. \A i \in C, j \in Events(ledger) : Precedes(ledger, j, i) => j \in C
    <3>1. ASSUME NEW i \in C, NEW j \in Events(ledger), Precedes(ledger, j, i) PROVE j \in C
      <4>1. i \in Events(ledger) /\ (IsOpening(ledger[i]) \/ DayOf(ledger[i].date) <= day)
        BY DEF Counted
      <4>2. IsOpening(ledger[j]) \/ (~IsOpening(ledger[i]) /\ DayOf(ledger[j].date) <= DayOf(ledger[i].date))
        BY <3>1, <4>1, DaysFollowDates
      <4>3. DayOf(ledger[j].date) \in Nat /\ DayOf(ledger[i].date) \in Nat
        BY <4>1, DaysFollowDates
      <4>4. IsOpening(ledger[j]) \/ DayOf(ledger[j].date) <= day
        BY <4>1, <4>2, <4>3
      <4>5. QED
        BY <4>4 DEF Counted
    <3>2. QED
      BY <3>1
  <2> HIDE DEF part, C
  <2>2. QED
    BY <1>0, <1>1, <1>2, <2>1 DEF IsInitialPart
<1>4. Size(part) = m
  BY <1>1 DEF Size
<1> HIDE DEF part, m, C
<1>5. /\ m \in Nat /\ Size(ledger) \in Nat /\ m <= Size(ledger)
      /\ \A k \in 1..m : AtPlace(part, k) = AtPlace(ledger, k)
      /\ \A k \in 1..Size(ledger) : AtPlace(ledger, k) \in C => k \in 1..m
  BY <1>1, <1>3, <1>4, InitialPartKeepsPlaces
<1>6. \A k \in 1..m : AtPlace(ledger, k) \in C
  BY <1>1, <1>2, <1>4, <1>5, OrderedEvents
<1>7. \A k \in 1..Size(ledger) : AtPlace(ledger, k) \in C <=> k <= m
  BY <1>5, <1>6
<1>8. First(ledger, m) = C
  <2>1. First(ledger, m) \subseteq C
    BY <1>6 DEF First
  <2>2. ASSUME NEW i \in C PROVE i \in First(ledger, m)
    <3>1. i \in Events(ledger)
      BY <1>0
    <3>2. PICK k \in 1..Size(ledger) : AtPlace(ledger, k) = i
      BY <3>1, PlaceOfAnEvent
    <3>3. k \in 1..m
      BY <1>5, <3>2
    <3>4. QED
      BY <3>2, <3>3 DEF First
  <2>3. QED
    BY <2>1, <2>2
<1>9. m \in 0..Size(ledger)
  BY <1>5
<1>10. QED
  BY <1>7, <1>8, <1>9 DEF m, C

\* While only openings were replayed, nothing is short.
LEMMA OpeningsAreNeverShort ==
  ASSUME NEW ledger, IsLedger(ledger), NEW k \in 1..Size(ledger),
         IsOpening(ledger[AtPlace(ledger, k)])
  PROVE  SumOver(TradedOf(ledger), First(ledger, k)) >= 0
<1> DEFINE m == Cardinality(Openings(ledger))
           v == TradedOf(ledger)
<1>1. AtPlace(ledger, k) \in Openings(ledger) /\ k \in 0..Size(ledger) /\ Size(ledger) \in Nat
  BY PlacesAreTaken, EventsAreFinite DEF Openings
<1>2. m \in 0..Size(ledger) /\ \A j \in 1..Size(ledger) : AtPlace(ledger, j) \in Openings(ledger) <=> j <= m
  BY OpeningsStandFirst
<1> HIDE DEF m
<1>3. k <= m
  BY <1>1, <1>2
<1>4. \A j \in 1..k : AtPlace(ledger, j) \in Openings(ledger)
  BY <1>1, <1>2, <1>3
<1>5. First(ledger, k) \subseteq Openings(ledger) /\ IsFiniteSet(First(ledger, k))
  BY <1>1, <1>4, FirstPlaces DEF First
<1>6. \A i \in First(ledger, k) : v[i] \in Int /\ v[i] >= 0
  <2>1. ASSUME NEW i \in First(ledger, k) PROVE v[i] \in Int /\ v[i] >= 0
    <3>1. i \in Events(ledger) /\ ledger[i].type = "opening" /\ ledger[i] \in Transaction
      BY <1>5 DEF Openings, IsOpening, IsLedger
    <3>2. v[i] = ledger[i].quantity
      BY <3>1 DEF TradedOf, Traded
    <3>3. QED
      BY <3>1, <3>2, TransactionType
  <2>2. QED
    BY <2>1
<1> HIDE DEF v
<1>7. SumOver(v, First(ledger, k)) >= 0
  BY <1>5, <1>6, SumType
<1>8. QED
  BY <1>7 DEF v

LEMMA ShortfallAtDayEnds ==
  ASSUME NEW ledger, IsLedger(ledger)
  PROVE  (\E k \in 1..Size(ledger) :
             EndsItsDay(ledger, k) /\ SumOver(TradedOf(ledger), First(ledger, k)) < 0)
         <=> \E i \in Events(ledger) :
                SumOver(TradedOf(ledger), Counted(ledger, DayOf(ledger[i].date))) < 0
<1> DEFINE n == Size(ledger)
           N(k) == SumOver(TradedOf(ledger), First(ledger, k))
           At(k) == ledger[AtPlace(ledger, k)]
           Day(i) == DayOf(ledger[i].date)
<1>0. /\ n \in Nat /\ \A k \in 1..n : AtPlace(ledger, k) \in Events(ledger)
      /\ \A k \in 0..n : N(k) \in Int
      /\ N(0) = 0
  BY EventsAreFinite, PlacesAreTaken, MovedSums
<1>a. \A i \in Events(ledger) : Day(i) \in Nat
  BY DaysFollowDates
<1>1. ASSUME NEW k \in 1..n, EndsItsDay(ledger, k), N(k) < 0
      PROVE  \E i \in Events(ledger) : SumOver(TradedOf(ledger), Counted(ledger, Day(i))) < 0
  <2> DEFINE i == AtPlace(ledger, k)
             day == Day(i)
             m == Cardinality(Counted(ledger, day))
  <2>1. i \in Events(ledger) /\ day \in Nat
    BY <1>0, <1>a
  <2>2. /\ m \in 0..n /\ First(ledger, m) = Counted(ledger, day)
        /\ \A j \in 1..n : AtPlace(ledger, j) \in Counted(ledger, day) <=> j <= m
    <3> HIDE DEF day
    <3>1. day \in Int
      BY <2>1
    <3>2. QED
      BY <3>1, CountedStandFirst
  <2>3. ~IsOpening(ledger[i])
    <3>1. SUFFICES ASSUME IsOpening(ledger[i]) PROVE FALSE
      OBVIOUS
    <3>2. N(k) >= 0
      BY <3>1, OpeningsAreNeverShort
    <3>3. N(k) \in Int
      BY <1>0
    <3> HIDE DEF N
    <3>4. QED
      BY <1>1, <3>2, <3>3
  <2>4. k <= m
    <3>1. i \in Counted(ledger, day)
      BY <2>1 DEF Counted
    <3>2. QED
      BY <2>2, <3>1
  <2>5. m <= k
    <3>1. SUFFICES ASSUME k < m PROVE FALSE
      BY <1>0, <2>2
    <3>2. PICK j \in 1..n : j = k + 1 /\ j <= m
      BY <1>0, <2>2, <3>1
    <3> DEFINE next == AtPlace(ledger, j)
    <3>3. next \in Counted(ledger, day) /\ next \in Events(ledger)
      BY <1>0, <2>2, <3>2
    <3>4. Precedes(ledger, i, next)
      BY <3>2, PlacesAreOrdered
    <3>5. ~IsOpening(ledger[next]) /\ Day(i) <= Day(next)
      BY <2>1, <2>3, <3>3, <3>4, DaysFollowDates
    <3>6. Day(next) <= day /\ Day(next) \in Nat
      BY <1>a, <3>3, <3>5 DEF Counted
    <3>7. Day(i) # Day(next)
      <4>1. k # Size(ledger) /\ k + 1 = j
        BY <1>0, <3>2
      <4>2. Day(AtPlace(ledger, k)) # Day(AtPlace(ledger, k + 1))
        BY <1>1, <4>1 DEF EndsItsDay
      <4>3. QED
        BY <4>1, <4>2
    <3> HIDE DEF next, Day, i
    <3>8. QED
      BY <2>1, <3>5, <3>6, <3>7
  <2>6. m = k
    BY <1>0, <2>2, <2>4, <2>5
  <2>7. SumOver(TradedOf(ledger), Counted(ledger, day)) < 0
    BY <1>1, <2>2, <2>6
  <2>8. QED
    BY <2>1, <2>7
<1>2. ASSUME NEW i \in Events(ledger), SumOver(TradedOf(ledger), Counted(ledger, Day(i))) < 0
      PROVE  \E k \in 1..n : EndsItsDay(ledger, k) /\ N(k) < 0
  <2> DEFINE day == Day(i)
             m == Cardinality(Counted(ledger, day))
  <2>1. day \in Nat
    BY <1>a
  <2>2. /\ m \in 0..n /\ First(ledger, m) = Counted(ledger, day)
        /\ \A j \in 1..n : AtPlace(ledger, j) \in Counted(ledger, day) <=> j <= m
    <3> HIDE DEF day
    <3>1. day \in Int
      BY <2>1
    <3>2. QED
      BY <3>1, CountedStandFirst
  <2>3. N(m) < 0
    BY <1>2, <2>2
  <2> HIDE DEF N
  <2>4. m \in 1..n
    BY <1>0, <2>2, <2>3
  <2> DEFINE last == AtPlace(ledger, m)
  <2>5. last \in Counted(ledger, day) /\ last \in Events(ledger)
    BY <1>0, <2>2, <2>4
  <2>6. ~IsOpening(ledger[last])
    <3>1. SUFFICES ASSUME IsOpening(ledger[last]) PROVE FALSE
      OBVIOUS
    <3>2. N(m) >= 0
      BY <2>4, <3>1, OpeningsAreNeverShort DEF N
    <3>3. N(m) \in Int
      BY <1>0, <2>2
    <3>4. QED
      BY <2>3, <3>2, <3>3
  <2>7. Day(last) <= day /\ Day(last) \in Nat
    BY <1>a, <2>5, <2>6 DEF Counted
  <2>8. EndsItsDay(ledger, m)
    <3>1. SUFFICES ASSUME m # n PROVE Day(AtPlace(ledger, m)) # Day(AtPlace(ledger, m + 1))
      BY DEF EndsItsDay
    <3>2. PICK j \in 1..n : j = m + 1
      BY <1>0, <2>4, <3>1
    <3>3. AtPlace(ledger, j) \in Events(ledger) /\ AtPlace(ledger, j) \notin Counted(ledger, day)
      BY <1>0, <2>2, <3>2
    <3>4. ~(Day(AtPlace(ledger, j)) <= day) /\ Day(AtPlace(ledger, j)) \in Nat
      BY <1>a, <3>3 DEF Counted
    <3> HIDE DEF Day
    <3>5. Day(AtPlace(ledger, j)) # Day(last)
      BY <2>1, <2>7, <3>4
    <3>6. QED
      BY <3>2, <3>5
  <2>9. QED
    BY <2>3, <2>4, <2>8
<1>3. QED
  BY <1>1, <1>2

\* "Oversell is judged at the end of the day" (ledger.go:72-77): a ledger without
\* splits, of any length and in any order of entry, is refused exactly when some
\* day closes with more shares sold than acquired.
THEOREM OversellIsDayEndShortfallHolds == RecordSpec => []OversellIsDayEndShortfall
<1>1. ASSUME BookedType PROVE OversellIsDayEndShortfall
  <2>1. SUFFICES ASSUME Typed({"split", "bonus"}) = {}
                 PROVE  Oversells(booked) <=> \E day \in BookedDays : ShortAtEndOf(day)
    BY DEF OversellIsDayEndShortfall
  <2> DEFINE all == Events(booked)
             w == TradedOf(booked)
             sells == Typed({"sell"})
             gains == Typed({"opening", "buy"})
             u == [i \in all |-> IF i \in gains THEN booked[i].quantity ELSE 0]
             v == [i \in all |-> IF i \in sells THEN booked[i].quantity ELSE 0]
  <2>2. IsLedger(booked)
    BY <1>1, BookedIsALedger
  <2>3. IsFiniteSet(all) /\ \A i \in all : booked[i] \in Transaction /\ booked[i].quantity \in Nat
    BY <2>2, EventsAreFinite, TransactionType DEF IsLedger
  <2>4. WithoutSplits(booked)
    BY <2>1 DEF Typed, WithoutSplits
  <2>5. Oversells(booked) <=> \E i \in all : SumOver(w, Counted(booked, DayOf(booked[i].date))) < 0
    BY <2>2, <2>4, OversellAtDayEnds, ShortfallAtDayEnds
  <2>6. ASSUME NEW day \in Int PROVE ShortAtEndOf(day) <=> SumOver(w, Counted(booked, day)) < 0
    <3> DEFINE C == Counted(booked, day)
               sold == Through(day, sells)
               held == Through(day, gains)
    <3>1. C \subseteq all /\ IsFiniteSet(C)
      <4>1. C \in SUBSET all
        BY DEF Counted
      <4>2. QED
        BY <2>3, <4>1, FS_Subset
    <3>2. /\ sold \in SUBSET C /\ held \in SUBSET C
          /\ \A i \in C : /\ i \in sold <=> booked[i].type = "sell"
                          /\ i \in held <=> booked[i].type \in {"opening", "buy"}
                          /\ i \in sells <=> booked[i].type = "sell"
                          /\ i \in gains <=> booked[i].type \in {"opening", "buy"}
      BY DEF Through, Counted, Typed
    <3>3. \A i \in C : /\ u[i] = (IF i \in gains THEN booked[i].quantity ELSE 0)
                       /\ v[i] = (IF i \in sells THEN booked[i].quantity ELSE 0)
                       /\ w[i] = Traded(booked[i])
                       /\ booked[i].quantity \in Int
      BY <2>3, <3>1 DEF TradedOf
    <3> HIDE DEF C, sold, held, u, v, w, sells, gains, all
    <3>4. SumOver(u, C) = SharesOf(held)
      <4>1. /\ \A i \in held : booked[i]["quantity"] \in Int /\ u[i] = booked[i]["quantity"]
            /\ \A i \in C \ held : u[i] = 0
        BY <3>2, <3>3
      <4>2. QED
        BY <3>1, <3>2, <4>1, TotalOfSome DEF SharesOf
    <3>5. SumOver(v, C) = SharesOf(sold)
      <4>1. /\ \A i \in sold : booked[i]["quantity"] \in Int /\ v[i] = booked[i]["quantity"]
            /\ \A i \in C \ sold : v[i] = 0
        BY <3>2, <3>3
      <4>2. QED
        BY <3>1, <3>2, <4>1, TotalOfSome DEF SharesOf
    <3>6. \A i \in C : w[i] \in Int /\ v[i] \in Int /\ u[i] = w[i] + v[i]
      BY <3>2, <3>3 DEF Traded
    <3>7. SumOver(u, C) = SumOver(w, C) + SumOver(v, C)
      BY <3>1, <3>6, SumOfTwo
    <3>8. SumOver(w, C) \in Int /\ SumOver(v, C) \in Int
      BY <3>1, <3>6, SumType
    <3>9. SharesOf(sold) > SharesOf(held) <=> SumOver(w, C) < 0
      BY <3>4, <3>5, <3>7, <3>8
    <3>10. QED
      BY <3>9 DEF ShortAtEndOf, C, sold, held, sells, gains
  <2>7. \A i \in all : DayOf(booked[i].date) \in Int
    BY <2>3, TransactionType
  <2> HIDE DEF w
  <2>8. QED
    BY <2>5, <2>6, <2>7 DEF BookedDays
<1>2. QED
  BY <1>1, BookedInvariant, PTL

------------------------------------------------------------------------------
(***************************************************************************)
(* Ledgers kept as sequences: events may be added at the end, dividends    *)
(* may go, and what is left is numbered anew.                              *)
(***************************************************************************)
\* The events of one, in their order, are the events of other, at the places of m.
SameOrder(one, other, m) ==
    /\ IsLedger(one) /\ IsLedger(other)
    /\ m \in Bijection(Events(one), Events(other))
    /\ \A i, j \in Events(one) : i < j <=> m[i] < m[j]
    /\ \A i \in Events(one) : other[m[i]] = one[i]

LEMMA SameCardinality ==
  ASSUME NEW S, NEW T, NEW f \in Bijection(S, T), IsFiniteSet(S)
  PROVE  IsFiniteSet(T) /\ Cardinality(T) = Cardinality(S)
<1>1. ExistsBijection(S, T)
  BY Zenon DEF ExistsBijection
<1>2. QED
  BY <1>1, FS_Bijection, Zenon

\* Ids only matter by their order.
LEMMA SameOrderSameReplay ==
  ASSUME NEW one, NEW other, NEW m, SameOrder(one, other, m)
  PROVE  Replay(other) = Replay(one)
<1> DEFINE E == Events(one)
           n == Size(one)
<1>1. /\ IsLedger(one) /\ IsLedger(other) /\ m \in [E -> Events(other)]
      /\ \A i, j \in E : m[i] = m[j] => i = j
      /\ \A j \in Events(other) : \E i \in E : m[i] = j
  BY Zenon DEF SameOrder, Bijection, Injection, IsInjective, Surjection
<1>2. n \in Nat /\ IsFiniteSet(E)
  BY <1>1, EventsAreFinite
<1>3. Size(other) = n
  BY <1>2, SameCardinality, Zenon DEF SameOrder, Size
<1>4. \A i, j \in E : Precedes(other, m[j], m[i]) <=> Precedes(one, j, i)
  BY DEF SameOrder, Precedes
<1>5. ASSUME NEW i \in E PROVE m[i] \in Events(other) /\ Rank(other, m[i]) = Rank(one, i)
  <2> DEFINE P == Preceding(one, i)
             Q == Preceding(other, m[i])
             f == [j \in P |-> m[j]]
  <2>1. P \subseteq E /\ Q \subseteq Events(other)
    BY DEF Preceding
  <2>2. IsFiniteSet(P)
    BY <1>1, RanksAreOrdered
  <2>3. \A j \in E : j \in P <=> m[j] \in Q
    BY <1>1, <1>4 DEF Preceding
  <2> HIDE DEF P, Q
  <2>4. f \in [P -> Q]
    BY <2>1, <2>3
  <2>5. \A j, k \in P : f[j] = f[k] => j = k
    BY <1>1, <2>1
  <2>6. \A k \in Q : \E j \in P : f[j] = k
    BY <1>1, <2>1, <2>3
  <2> HIDE DEF f
  <2>7. f \in Bijection(P, Q)
    BY <2>4, <2>5, <2>6, Zenon DEF Bijection, Injection, IsInjective, Surjection
  <2>8. Cardinality(Q) = Cardinality(P)
    BY <2>2, <2>7, SameCardinality, Zenon
  <2>9. QED
    BY <1>1, <2>8 DEF Rank, P, Q
<1>6. ASSUME NEW k \in 1..n PROVE Ordered(one)[k] = Ordered(other)[k]
  <2> DEFINE i == AtPlace(one, k)
  <2>1. i \in E /\ Rank(one, i) = k - 1 /\ Ordered(one)[k] = one[i]
    BY <1>1, PlacesAreTaken, OrderedEvents
  <2> HIDE DEF i
  <2>2. m[i] \in Events(other) /\ Rank(other, m[i]) = k - 1
    BY <1>5, <2>1
  <2>3. AtPlace(other, Rank(other, m[i]) + 1) = m[i]
    BY <1>1, <2>2, PlaceOfAnEvent
  <2>4. Rank(other, m[i]) + 1 = k
    BY <2>2
  <2>5. Ordered(other)[k] = other[AtPlace(other, k)]
    BY <1>1, <1>3, OrderedEvents
  <2>6. QED
    BY <2>1, <2>3, <2>4, <2>5 DEF SameOrder
<1>7. PICK f : IsRun("replay", EmptyReplay, Ordered(one), n, f) /\ Replay(one) = Settle(f[n], TRUE)
  BY <1>1, ReplayOfALedger
<1>8. PICK g : IsRun("replay", EmptyReplay, Ordered(other), n, g) /\ Replay(other) = Settle(g[n], TRUE)
  <2>1. \E g : /\ IsRun("replay", EmptyReplay, Ordered(other), Size(other), g)
               /\ Replay(other) = Settle(g[Size(other)], TRUE)
    BY <1>1, ReplayOfALedger
  <2>2. QED
    BY <1>3, <2>1
<1>9. f[n] = g[n]
  <2> DEFINE a == Ordered(one)
             b == Ordered(other)
  <2>1. IsRun("replay", EmptyReplay, a, n, f) /\ IsRun("replay", EmptyReplay, b, n, g)
        /\ \A k \in 1..n : a[k] = b[k]
    BY <1>6, <1>7, <1>8
  <2> HIDE DEF a, b, n
  <2>2. \A k \in 0..n : f[k] = g[k]
    BY <1>2, <2>1, TwoRunsAgree
  <2>3. QED
    BY <1>2, <2>2
<1>10. QED
  BY <1>7, <1>8, <1>9

LEMMA SameEventsSameReplay ==
  ASSUME NEW one, NEW other, IsLedger(one), IsLedger(other), Events(other) = Events(one),
         \A i \in Events(one) : other[i] = one[i]
  PROVE  Replay(other) = Replay(one)
<1> DEFINE E == Events(one)
           m == [i \in E |-> i]
<1>1. m \in Bijection(E, E)
  <2>1. m \in [E -> E] /\ (\A i, j \in E : m[i] = m[j] => i = j) /\ \A j \in E : \E i \in E : m[i] = j
    BY Zenon
  <2> HIDE DEF m
  <2>2. QED
    BY <2>1, Zenon DEF Bijection, Injection, IsInjective, Surjection
<1>2. SameOrder(one, other, m)
  BY <1>1 DEF SameOrder
<1> HIDE DEF m
<1>3. QED
  BY <1>2, SameOrderSameReplay

LEMMA ReplayIsAReplay ==
  ASSUME NEW ledger, IsLedger(ledger)
  PROVE  Replay(ledger) \in Replays
<1>1. PICK f : /\ \A k \in 0..Size(ledger) : f[k] \in Replays
               /\ Replay(ledger) = Settle(f[Size(ledger)], TRUE)
  BY ReplayOfALedger
<1>2. Size(ledger) \in 0..Size(ledger)
  BY EventsAreFinite
<1>3. f[Size(ledger)] \in Replays
  BY <1>1, <1>2
<1>4. QED
  BY <1>1, <1>3, SettleFields, Zenon

\* less is the ledger without some of its dividends.
DividendsLess(less, ledger) ==
    /\ IsLedger(less) /\ IsLedger(ledger)
    /\ Events(less) \subseteq Events(ledger)
    /\ \A i \in Events(less) : less[i] = ledger[i]
    /\ \A i \in Events(ledger) \ Events(less) : ledger[i].type = "dividend"

LEMMA AllDividendsMoveNothing ==
  ASSUME NEW less, NEW ledger, DividendsLess(less, ledger), NEW n \in Nat,
         Events(ledger) \subseteq 1..n
  PROVE  Alike(Replay(ledger), Replay(less))
<1> DEFINE part == [k \in Nat |-> [i \in DOMAIN ledger |->
                       IF i \in Events(less) \/ i <= k THEN ledger[i] ELSE NoEvent]]
           S == {k \in Nat : Alike(Replay(part[k]), Replay(less))}
<1>1. IsLedger(less) /\ IsLedger(ledger) /\ Events(ledger) \subseteq DOMAIN ledger
      /\ Events(less) \subseteq Events(ledger)
  BY DEF DividendsLess, Events
<1>2. ASSUME NEW k \in Nat
      PROVE  /\ IsLedger(part[k])
             /\ Events(part[k]) = Events(less) \cup {i \in Events(ledger) : i <= k}
             /\ \A i \in Events(part[k]) : part[k][i] = ledger[i]
  <2>1. /\ DOMAIN part[k] = DOMAIN ledger
        /\ \A i \in DOMAIN ledger :
              part[k][i] = IF i \in Events(less) \/ i <= k THEN ledger[i] ELSE NoEvent
    OBVIOUS
  <2> HIDE DEF part
  <2>2. Events(part[k]) = Events(less) \cup {i \in Events(ledger) : i <= k}
    BY <1>1, <2>1 DEF Events
  <2>3. \A i \in Events(part[k]) : part[k][i] = ledger[i]
    BY <1>1, <2>1, <2>2 DEF Events
  <2>4. IsLedger(part[k])
    BY <1>1, <2>1, <2>2, <2>3 DEF IsLedger
  <2>5. QED
    BY <2>2, <2>3, <2>4
<1>3. \A i \in Events(ledger) : i \in Nat /\ i >= 1 /\ i <= n
  OBVIOUS
<1> HIDE DEF part
<1>4. 0 \in S
  <2>1. Events(part[0]) = Events(less)
    BY <1>2, <1>3
  <2>2. \A i \in Events(less) : part[0][i] = less[i]
    BY <1>2, <2>1 DEF DividendsLess
  <2>3. Replay(part[0]) = Replay(less)
    BY <1>1, <1>2, <2>1, <2>2, SameEventsSameReplay
  <2>4. Replay(less) \in Replays
    BY <1>1, ReplayIsAReplay
  <2>5. Alike(Replay(less), Replay(less))
    BY <2>4 DEF Alike
  <2>6. QED
    BY <2>3, <2>5
<1>5. ASSUME NEW k \in Nat, k \in S PROVE k + 1 \in S
  <2>1. Alike(Replay(part[k]), Replay(less))
    BY <1>5
  <2>2. k + 1 \in Nat /\ \A i \in Events(ledger) : i <= k + 1 <=> i <= k \/ i = k + 1
    BY <1>3
  <2> DEFINE next == part[k + 1]
             now == part[k]
  <2>3. /\ IsLedger(now) /\ IsLedger(next)
        /\ \A i \in Events(now) : now[i] = ledger[i]
        /\ \A i \in Events(next) : next[i] = ledger[i]
    BY <1>2, <2>2
  <2>4. CASE k + 1 \in Events(ledger) \ Events(less)
    <3>1. Events(now) = Events(next) \ {k + 1} /\ k + 1 \in Events(next)
      BY <1>2, <1>3, <2>2, <2>4
    <3> HIDE DEF now, next
    <3>2. OneEventLess(now, next, k + 1)
      BY <2>3, <3>1 DEF OneEventLess
    <3>3. next[k + 1].type = "dividend"
      BY <2>3, <2>4, <3>1 DEF DividendsLess
    <3>4. Alike(Replay(next), Replay(now))
      BY <3>2, <3>3, DividendsMoveNothing
    <3>5. Alike(Replay(next), Replay(less))
      BY <2>1, <3>4 DEF Alike, now
    <3>6. QED
      BY <2>2, <3>5 DEF next
  <2>5. CASE k + 1 \notin Events(ledger) \ Events(less)
    <3>1. Events(next) = Events(now)
      BY <1>2, <2>2, <2>5
    <3> HIDE DEF now, next
    <3>2. Replay(next) = Replay(now)
      BY <2>3, <3>1, SameEventsSameReplay
    <3>3. QED
      BY <2>1, <2>2, <3>2 DEF now, next
  <2>6. QED
    BY <2>4, <2>5
<1>6. n \in S
  <2> HIDE DEF S
  <2>1. QED
    BY <1>4, <1>5, Induction
<1>7. Replay(part[n]) = Replay(ledger)
  <2>1. Events(part[n]) = Events(ledger)
    BY <1>1, <1>2, <1>3
  <2>2. QED
    BY <1>1, <1>2, <2>1, SameEventsSameReplay
<1>8. QED
  BY <1>6, <1>7

------------------------------------------------------------------------------
(***************************************************************************)
(* Lists made by rank: the member of S with k - 1 others before it stands  *)
(* at the k-th place.                                                      *)
(***************************************************************************)
Ranks(S, R) == [x \in S |-> Cardinality({y \in S : <<y, x>> \in R})]

\* The ranks of a finite set in a strict total order are the numbers below its size.
LEMMA RanksOfAnOrder ==
  ASSUME NEW S, IsFiniteSet(S), NEW R,
         \A x \in S : <<x, x>> \notin R,
         \A x, y \in S : x # y => <<x, y>> \in R \/ <<y, x>> \in R,
         \A x, y, z \in S : <<x, y>> \in R /\ <<y, z>> \in R => <<x, z>> \in R
  PROVE  /\ Cardinality(S) \in Nat
         /\ Ranks(S, R) \in Bijection(S, 0..(Cardinality(S) - 1))
         /\ \A x, y \in S : <<x, y>> \in R <=> Ranks(S, R)[x] < Ranks(S, R)[y]
<1> DEFINE Under(x) == {y \in S : <<y, x>> \in R}
           rank == Ranks(S, R)
           n == Cardinality(S)
<1>1. n \in Nat
  BY FS_CardinalityType
<1>2. ASSUME NEW x \in S
      PROVE  rank[x] = Cardinality(Under(x)) /\ IsFiniteSet(Under(x)) /\ rank[x] \in 0..(n - 1)
  <2>1. rank[x] = Cardinality(Under(x))
    BY DEF Ranks
  <2>2. Under(x) \in SUBSET S /\ x \in S \ Under(x)
    OBVIOUS
  <2> HIDE DEF Under
  <2>3. /\ IsFiniteSet(Under(x)) /\ Cardinality(Under(x)) <= Cardinality(S)
        /\ Cardinality(S) = Cardinality(Under(x)) => S = Under(x)
    BY <2>2, FS_Subset, Zenon
  <2>4. Cardinality(Under(x)) \in Nat
    BY <2>3, FS_CardinalityType
  <2>5. QED
    BY <1>1, <2>1, <2>2, <2>3, <2>4
<1>3. ASSUME NEW x \in S, NEW y \in S, <<x, y>> \in R PROVE rank[x] < rank[y]
  <2>1. Under(x) \in SUBSET Under(y) /\ x \in Under(y) \ Under(x)
    BY <1>3
  <2>2. IsFiniteSet(Under(y))
    BY <1>2
  <2> HIDE DEF Under
  <2>3. /\ Cardinality(Under(x)) <= Cardinality(Under(y))
        /\ Cardinality(Under(y)) = Cardinality(Under(x)) => Under(y) = Under(x)
    BY <2>1, <2>2, FS_Subset, Zenon
  <2>4. rank[x] \in Nat /\ rank[y] \in Nat
    BY <1>1, <1>2
  <2>5. QED
    BY <1>2, <2>1, <2>3, <2>4
<1> HIDE DEF Under, rank, n
<1>4. \A x, y \in S : <<x, y>> \in R <=> rank[x] < rank[y]
  <2>1. ASSUME NEW x \in S, NEW y \in S, rank[x] < rank[y] PROVE <<x, y>> \in R
    <3>1. rank[x] \in Int /\ rank[y] \in Int
      BY <1>1, <1>2
    <3>2. x # y
      BY <2>1, <3>1
    <3>3. <<y, x>> \in R => rank[y] < rank[x]
      BY <1>3
    <3>4. QED
      BY <2>1, <3>1, <3>2, <3>3
  <2>2. QED
    BY <1>3, <2>1
<1>5. rank \in Injection(S, 0..(n - 1))
  <2>1. DOMAIN rank = S /\ rank = [x \in S |-> rank[x]]
    BY DEF Ranks, rank
  <2>2. rank \in [S -> 0..(n - 1)]
    BY <1>2, <2>1
  <2>3. \A x, y \in S : rank[x] = rank[y] => x = y
    <3>1. ASSUME NEW x \in S, NEW y \in S, rank[x] = rank[y], x # y PROVE FALSE
      <4>1. rank[x] \in Int /\ rank[y] \in Int
        BY <1>1, <1>2
      <4>2. rank[x] < rank[y] \/ rank[y] < rank[x]
        BY <1>3, <3>1
      <4>3. QED
        BY <3>1, <4>1, <4>2
    <3>2. QED
      BY <3>1
  <2>4. QED
    BY <2>2, <2>3, Zenon DEF Injection, IsInjective
<1>6. IsFiniteSet(0..(n - 1)) /\ Cardinality(0..(n - 1)) = n
  <2>1. 0 \in Int /\ n - 1 \in Int
    BY <1>1
  <2>2. /\ IsFiniteSet(0..(n - 1))
        /\ Cardinality(0..(n - 1)) = IF 0 > n - 1 THEN 0 ELSE (n - 1) - 0 + 1
    BY <2>1, FS_Interval
  <2>3. QED
    BY <1>1, <2>2
<1>9. Cardinality(S) = n
  BY DEF n
<1>7. rank \in Surjection(S, 0..(n - 1))
  BY <1>5, <1>6, <1>9, FS_Injection, Zenon
<1>8. QED
  BY <1>1, <1>4, <1>5, <1>7, Zenon DEF Bijection, rank, n
==============================================================================
